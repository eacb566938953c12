--------------------------- MODULE ProvisioningPath ---------------------------
(***************************************************************************)
(* What status.provisioningPhase promises.  Each kind of cluster goes      *)
(* through its own stages; a phase may be announced only when the work of  *)
(* every stage before it is done, whoever announces it and however often.  *)
(* The announced phase may go back (a late writer, a lost write), the work *)
(* never does.                                                             *)
(***************************************************************************)
EXTENDS Naturals, Sequences

VARIABLES
  kind,   \* who brought the cluster up: "cli", "operator" or "legacy"
  phase,  \* the phase announced
  done    \* the stages whose work is done

vars == <<kind, phase, done>>

Stages == {"Infrastructure", "Image", "Compute", "Bootstrap", "CNI", "Addons",
           "Configuring"}

\* No object yet, an object without a status, and the end of the path.
Phases == Stages \cup {"Absent", "Unset", "Complete"}

Path ==
  [cli      |-> <<"CNI", "Compute", "Addons">>,
   operator |-> <<"Infrastructure", "Image", "Compute", "Bootstrap", "CNI", "Addons">>,
   legacy   |-> <<"Configuring">>]

\* The stages that come before phase p on the path of a kind of cluster.
Before(k, p) ==
  IF p \in {"Absent", "Unset"} THEN {}
  ELSE {Path[k][i] : i \in {j \in DOMAIN Path[k] :
          \A m \in DOMAIN Path[k] : Path[k][m] = p => j < m}}

\* The phases the path of a kind of cluster goes through.
PhasesOf(k) ==
  {"Absent", "Unset", "Complete"} \cup {Path[k][i] : i \in DOMAIN Path[k]}

Init ==
  /\ kind \in DOMAIN Path
  /\ done \in SUBSET Stages
  /\ phase \in PhasesOf(kind)
  /\ Before(kind, phase) \subseteq done

Work ==
  /\ done' \in SUBSET Stages /\ done \subseteq done'
  /\ UNCHANGED <<kind, phase>>

Announce ==
  /\ phase' \in PhasesOf(kind)
  /\ Before(kind, phase') \subseteq done
  /\ UNCHANGED <<kind, done>>

Next == Work \/ Announce

Spec == Init /\ [][Next]_vars

\* When the path is announced Complete, all the work of its stages is done.
CompleteMeansDone ==
  phase = "Complete" => {Path[kind][i] : i \in DOMAIN Path[kind]} \subseteq done
=============================================================================
