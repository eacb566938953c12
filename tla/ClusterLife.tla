---------------------------- MODULE ClusterLife ----------------------------
(***************************************************************************)
(* A cluster from the file to its end, as far as other services see it: an *)
(* apply makes or updates the K8znerCluster, the operator installs addons  *)
(* with what it reads there, external-dns keeps the names of the cluster's *)
(* ingresses in the domain's zone, the backup addon makes a bucket, and    *)
(* destroy takes the names back and looks for buckets.  Other clusters     *)
(* share the zones and the project.  How the phases of apply and destroy   *)
(* fail in Hetzner's cloud is in Apply; there, each is a step.             *)
(***************************************************************************)
EXTENDS Settings, FiniteSets

CONSTANTS
  Us, Others,     \* the cluster's name, and those of clusters beside it
  MarkedAs,       \* pairs of owners <<a, b>>: b's marker is found in a's records
  Hosts,          \* hosts that other clusters' ingresses may have
  Files,          \* what k8zner.yaml and the environment may say
  MaxEdits, MaxDestroys, MaxFaults,
  OldBuckets      \* buckets of the project before the first apply

ASSUME NamesAssumption == Us \notin Others /\ Us # ""
ASSUME BoundsAssumption == {MaxEdits, MaxDestroys, MaxFaults} \subseteq Nat

Owners == {Us} \cup Others

\* strings.Contains finds an owner's marker in the records of one whose name begins
\* with the owner's.
ASSUME MarkersAssumption == MarkedAs \subseteq Owners \X Owners

VARIABLES
  file,        \* what k8zner.yaml says now
  alive,       \* there is a cluster, and in it:
  crd, secrets,  \* the K8znerCluster's spec, and the secrets it refers to
  installed,   \* the addons that status marks installed
  dns,         \* external-dns as it was installed: its owner and domain
  hosts,       \* hosts of the ingresses
  zone,        \* DNS records of all zones, each with the owner who made it
  buckets,     \* names of the project's buckets
  pc, queue,   \* where a destroy is, and the records it is yet to delete
  first, last, \* history: the files of the first and of the last apply to the cluster
  dirty,       \* history: a record may be left over, for a reason the run names
  edits, destroys, faults

cluster == <<alive, crd, secrets, installed, dns, hosts, first, last>>
vars == <<file, cluster, zone, buckets, pc, queue, dirty, edits, destroys, faults>>

CLIConfig(f) == ExpandSpec(Us, f)
NoSpec    == BuildClusterSpec(CLIConfig(CHOOSE f \in Files : TRUE))
NoSecrets == [token |-> "", s3 |-> NoBackup]
NoDNS     == [owner |-> "", domain |-> ""]
NoCluster(f) ==
  /\ alive = FALSE /\ crd = NoSpec /\ secrets = NoSecrets
  /\ installed = {} /\ dns = NoDNS /\ hosts = {} /\ first = f /\ last = f

OperatorConfig == SpecToConfig(Us, crd, LoadCredentials(crd, secrets))

Steps == <<"cert-manager", "external-dns", "argocd", "monitoring", "talos-backup">>
StepSet == {Steps[i] : i \in DOMAIN Steps}

Init ==
  /\ file \in Files /\ NoCluster(file)
  /\ zone = {} /\ buckets = OldBuckets /\ pc = "idle" /\ queue = {}
  /\ dirty = FALSE /\ edits = 0 /\ destroys = 0 /\ faults = 0

Fault == faults < MaxFaults /\ faults' = faults + 1

-----------------------------------------------------------------------------
(* The user and the command line.  Other commands wait for a destroy.      *)

Edit ==
  /\ pc = "idle" /\ edits < MaxEdits
  /\ file' \in Files \ {file} /\ edits' = edits + 1
  /\ UNCHANGED <<cluster, zone, buckets, pc, queue, dirty, destroys, faults>>

\* The bootstrap pipeline's end: the secrets, and the K8znerCluster.
Create ==
  LET cfg == CLIConfig(file)
  IN /\ pc = "idle" /\ ~alive /\ Validate(file)
     /\ alive' = TRUE /\ crd' = BuildClusterSpec(cfg) /\ secrets' = BuildSecrets(cfg)
     /\ first' = file /\ last' = file
     /\ UNCHANGED <<file, installed, dns, hosts, zone, buckets, pc, queue, dirty,
                    edits, destroys, faults>>

Update ==
  /\ pc = "idle" /\ alive /\ Validate(file)
  /\ crd' = UpdateClusterSpec(crd, CLIConfig(file)) /\ last' = file
  /\ UNCHANGED <<file, alive, secrets, installed, dns, hosts, first, zone, buckets, pc,
                 queue, dirty, edits, destroys, faults>>

Apply == Create \/ Update

-----------------------------------------------------------------------------
(* The operator's addons phase, one addon per reconcile.                   *)

StepEnabled(s) ==
  LET cfg == OperatorConfig
  IN CASE s = "cert-manager" -> cfg.certManager
       [] s = "external-dns" -> cfg.externalDNS
       [] s = "argocd"       -> cfg.argo
       [] s = "monitoring"   -> cfg.monitoring
       [] s = "talos-backup" -> cfg.backup.on

\* EnabledSteps, less those that are installed; the order is that of Steps.
Pending == {i \in DOMAIN Steps : StepEnabled(Steps[i]) /\ Steps[i] \notin installed}

\* The phase is over when nothing is pending, and is not entered again.
Complete == "complete" \in installed

\* installCertManagerStep: with Cloudflare it wants the token, for its secrets.
InstallCertManager(cfg) ==
  /\ cfg.cloudflare => cfg.token # ""
  /\ UNCHANGED <<dns, hosts, buckets, faults>>

\* Mutant: no owner is passed, and external-dns takes its own default.
InstallWithoutOwner(cfg) ==
  /\ dns' = [owner |-> "default", domain |-> cfg.domain]
  /\ UNCHANGED <<hosts, buckets, faults>>

\* buildExternalDNSValues.
InstallExternalDNS(cfg) ==
  /\ dns' = [owner |-> IF cfg.owner = "" THEN Us ELSE cfg.owner, domain |-> cfg.domain]
  /\ UNCHANGED <<hosts, buckets, faults>>

\* Argo CD's or Grafana's ingress.
InstallIngress(host) ==
  /\ hosts' = hosts \cup ({host} \ {None})
  /\ UNCHANGED <<dns, buckets, faults>>

\* installTalosBackupStep: when Talos' resource type does not come up in time the step
\* is skipped without an error.  ensureS3Bucket makes a bucket, and puts nothing into
\* it that says whose it is.
InstallTalosBackup(cfg) ==
  /\ \/ /\ cfg.backup.bucket # None /\ cfg.backup.key # ""
        /\ buckets' = buckets \cup {cfg.backup.bucket} /\ faults' = faults
     \/ Fault /\ UNCHANGED buckets
  /\ UNCHANGED <<dns, hosts>>

InstallStep(s) ==
  LET cfg == OperatorConfig
  IN \/ s = "cert-manager" /\ InstallCertManager(cfg)
     \/ s = "external-dns" /\ InstallExternalDNS(cfg)
     \/ s = "argocd" /\ InstallIngress(cfg.argoHost)
     \/ s = "monitoring" /\ InstallIngress(cfg.grafanaHost)
     \/ s = "talos-backup" /\ InstallTalosBackup(cfg)

InstallNextAddon ==
  /\ alive /\ ~Complete
  /\ \/ /\ Pending = {} /\ installed' = installed \cup {"complete"}
        /\ UNCHANGED <<dns, hosts, buckets, faults>>
     \/ \E i \in Pending :
          /\ \A j \in Pending : i <= j
          /\ InstallStep(Steps[i])
          /\ installed' = installed \cup {Steps[i]}
  /\ UNCHANGED <<file, alive, crd, secrets, first, last, zone, pc, queue, dirty,
                 edits, destroys>>

-----------------------------------------------------------------------------
(* external-dns: policy "sync", registry "txt".  A record of an address or *)
(* of an owner; the owner of an address is known to the model alone.       *)

Record(kind, host, owner) == [kind |-> kind, host |-> host, owner |-> owner]
Pair(host, owner) == {Record("A", host, owner), Record("TXT", host, owner)}
Owns(owner, host) == Record("TXT", host, owner) \in zone
Taken(host) == \E r \in zone : r.host = host

\* What the cluster's external-dns wants: its ingresses' hosts in its domain.
Wanted == {h \in hosts : h[2] = dns.domain}

Sync ==
  /\ alive /\ dns # NoDNS
  /\ \/ \E h \in Wanted : ~Taken(h) /\ zone' = zone \cup Pair(h, dns.owner)
     \/ \E r \in zone : /\ r.kind = "TXT" /\ r.owner = dns.owner
                        /\ r.host[2] = dns.domain /\ r.host \notin Wanted
                        /\ zone' = zone \ Pair(r.host, dns.owner)
  /\ UNCHANGED <<file, cluster, buckets, pc, queue, dirty, edits, destroys, faults>>

\* Another cluster's external-dns.
OtherSync ==
  /\ \E h \in Hosts, other \in Others :
       \/ ~Taken(h) /\ zone' = zone \cup Pair(h, other)
       \/ Owns(other, h) /\ zone' = zone \ Pair(h, other)
  /\ UNCHANGED <<file, cluster, buckets, pc, queue, dirty, edits, destroys, faults>>

-----------------------------------------------------------------------------
(* destroy.                                                                *)

\* Destroy, in Hetzner's cloud.  It may fail, or leave a server and say nothing of it.
DestroyServers ==
  /\ pc = "idle" /\ destroys < MaxDestroys /\ Validate(file)
  /\ destroys' = destroys + 1
  /\ \/ /\ pc' = "dns" /\ UNCHANGED faults
        /\ dirty' = (dirty \/ (dns # NoDNS /\ dns.domain # file.domain))
        /\ alive' = FALSE /\ crd' = NoSpec /\ secrets' = NoSecrets /\ installed' = {}
        /\ dns' = NoDNS /\ hosts' = {} /\ UNCHANGED <<first, last>>
     \/ Fault /\ pc' \in {"idle", "dns"} /\ dirty' = (dirty \/ pc' = "dns") /\ UNCHANGED cluster
  /\ UNCHANGED <<file, zone, buckets, queue, edits>>

\* CleanupClusterRecords: the owner's TXT records of the zone of the file's domain, and
\* the addresses they are for.
Marked(r, owner) == r.owner = owner \/ <<r.owner, owner>> \in MarkedAs
OwnedNames(owner, domain) ==
  {r.host : r \in {x \in zone : x.kind = "TXT" /\ x.host[2] = domain /\ Marked(x, owner)}}

\* Mutant: the TXT records alone.
MarksOnly(owner, domain) ==
  {r \in zone : r.kind = "TXT" /\ r.host[2] = domain /\ Marked(r, owner)}

ToDelete(owner, domain) ==
  {r \in zone : /\ r.host \in OwnedNames(owner, domain)
                /\ r.kind = "TXT" => Marked(r, owner)}

\* Mutant: the domain's records, whoever owns them.
ListWholeZone(cfg) ==
  /\ queue' = {r \in zone : r.host[2] = cfg.domain}
  /\ UNCHANGED <<dirty, faults>>

\* cleanupCloudflareDNS: the zone, its records, and those to be deleted; an error, of
\* any of the calls, is logged.
ListRecords(cfg) ==
  \/ queue' = ToDelete(cfg.owner, cfg.domain) /\ UNCHANGED <<dirty, faults>>
  \/ Fault /\ queue' = {} /\ dirty' = TRUE

StartCleanup ==
  LET cfg == CLIConfig(file)
  IN /\ pc = "dns"
     /\ \/ cfg.cloudflare /\ ListRecords(cfg) /\ pc' = "delete"
        \/ ~cfg.cloudflare /\ pc' = "s3" /\ UNCHANGED <<queue, dirty, faults>>
     /\ UNCHANGED <<file, cluster, zone, buckets, edits, destroys>>

\* The queue's order: the owners' records are deleted first.
OwnersFirst(q) == IF \E x \in q : x.kind = "TXT" THEN {x \in q : x.kind = "TXT"} ELSE q

\* A call per record.  The first error ends it, a record that is gone included; so does
\* the end of the process.
DeleteRecord ==
  /\ pc = "delete"
  /\ \/ queue = {} /\ pc' = "s3" /\ UNCHANGED <<zone, queue, dirty, faults>>
     \/ \E r \in OwnersFirst(queue) :
          \/ /\ r \in zone /\ zone' = zone \ {r} /\ queue' = queue \ {r}
             /\ UNCHANGED <<pc, dirty, faults>>
          \/ /\ r \notin zone /\ queue' = {} /\ pc' = "s3" /\ dirty' = TRUE
             /\ UNCHANGED <<zone, faults>>
          \/ Fault /\ queue' = {} /\ pc' \in {"s3", "idle"} /\ dirty' = TRUE /\ UNCHANGED zone
  /\ UNCHANGED <<file, cluster, buckets, edits, destroys>>

\* Mutant: the suffix the buckets have.
VerifyBySuffix(b) == b[1] = Us /\ b[2] \in {"-etcd-backups", "-etcd-backup", "-talos-backup"}

\* verifyBucketOwnership: no bucket has the metadata file, and without it two names,
\* of older buckets, are taken for the cluster's.
VerifyBucketOwnership(b) == b[1] = Us /\ b[2] \in {"-etcd-backup", "-talos-backup"}

\* cleanupS3Buckets, when the file asks for backups.  Errors are logged.
CleanupS3Buckets ==
  /\ pc = "s3" /\ pc' = "idle"
  /\ \/ CLIConfig(file).backup.on /\ buckets' = {b \in buckets : ~VerifyBucketOwnership(b)}
        /\ UNCHANGED faults
     \/ ~CLIConfig(file).backup.on /\ UNCHANGED <<buckets, faults>>
     \/ Fault /\ buckets' \in SUBSET buckets
        /\ \A b \in buckets \ buckets' : VerifyBucketOwnership(b)
  /\ UNCHANGED <<file, cluster, zone, queue, dirty, edits, destroys>>

Destroy == DestroyServers \/ StartCleanup \/ DeleteRecord \/ CleanupS3Buckets

Next == Edit \/ Apply \/ InstallNextAddon \/ Sync \/ OtherSync \/ Destroy

\* The operator's requeues.  A user may stop anywhere.
Spec == Init /\ [][Next]_vars /\ WF_vars(InstallNextAddon)

-----------------------------------------------------------------------------

TypeOK ==
  /\ {file, first, last} \subseteq Files
  /\ alive \in BOOLEAN /\ dirty \in BOOLEAN
  /\ installed \subseteq StepSet \cup {"complete"}
  /\ \A r \in zone \cup queue : r \in Pair(r.host, r.owner) /\ r.owner \in Owners
  /\ pc \in {"idle", "dns", "delete", "s3"} /\ (queue # {} => pc = "delete")
  /\ edits \in 0..MaxEdits /\ destroys \in 0..MaxDestroys /\ faults \in 0..MaxFaults

\* What the operator acts on, after any edits and applies: pools and switches are the
\* last apply's, the names, their owner and token and the backup are the first one's.
\* Grafana's subdomain is the first one's only if that had monitoring.
OperatorReadsTheApplied ==
  alive =>
    LET op == OperatorConfig
        a  == CLIConfig(first)
        z  == CLIConfig(last)
    IN /\ op.cp = z.cp /\ crd.workers = z.workers /\ op.workers.size = z.workers.size
       /\ <<op.certManager, op.argo, op.monitoring>> = <<z.certManager, z.argo, z.monitoring>>
       /\ <<op.externalDNS, op.cloudflare>> = <<a.externalDNS, a.cloudflare>>
       /\ op.externalDNS =>
            <<op.domain, op.token, op.owner>> = <<a.domain, a.token, a.owner>>
       /\ op.argoHost = a.argoHost
       /\ op.monitoring =>
            op.grafanaHost = BuildIngressHost(first.domain, "grafana",
                                              IF first.monitoring THEN first.grafana ELSE "")
       /\ op.backup = a.backup

\* No mix of a first apply and later ones blocks the addons: whatever step is next has
\* what it asks for (the token, the bucket's keys), and the phase ends.
InstallationEnds == alive ~> (Complete \/ ~alive)

\* CleanupClusterRecords takes another cluster's record only when it finds this
\* cluster's marker in that one's TXT records, as in those of a cluster whose name
\* begins with this one's; an address beside the owner's record, or a host that
\* has changed hands since the zone was listed, is not taken for this cluster's.
OthersKept ==
  [][ \A r \in zone \ zone' : Marked(r, Us) \/ OtherSync ]_vars

\* A destroy with the domain the cluster was made with, none of whose calls fails now or
\* failed before, leaves none of the cluster's records.
DestroyLeavesNoRecord ==
  pc = "s3" /\ ~dirty => \A r \in zone : r.owner # Us

\* docs/configuration.md: destroy does not delete the backups' bucket, although it looks
\* for the cluster's buckets and deletes some.
BackupsArePreserved ==
  [][ \A b \in buckets : b[2] = "-etcd-backups" => b \in buckets' ]_vars
=============================================================================
