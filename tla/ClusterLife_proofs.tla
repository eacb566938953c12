------------------------- MODULE ClusterLife_proofs -------------------------
(***************************************************************************)
(* Proofs about ClusterLife: for every set of files and every bound, what  *)
(* the operator acts on, which DNS records a destroy takes, and that the   *)
(* backups' buckets stay.                                                  *)
(***************************************************************************)
EXTENDS ClusterLife, TLAPS

\* Nobody makes a record for a host that has one.
HostsHaveOneOwner == \A r, s \in zone : r.host = s.host => r.owner = s.owner

\* external-dns works under the cluster's name, for the resource's domain, and is
\* installed once.
DNSIsOurs ==
  dns # NoDNS =>
    /\ alive /\ "external-dns" \in installed
    /\ dns.owner = Us /\ dns.domain # ""

\* What apply has written of the resource and the secrets: some of the first one's
\* configuration, the rest of the last one's.
ResourceIsBuilt ==
  LET a == CLIConfig(first)
      z == CLIConfig(last)
      whole == BuildClusterSpec(a)
  IN alive =>
       /\ Validate(first)
       /\ secrets = BuildSecrets(a)
       /\ whole.backup => crd.backup
       /\ DOMAIN crd = DOMAIN whole
       /\ crd.cp = z.cp /\ crd.workers = z.workers
       /\ crd.domain = a.domain /\ crd.externalDNS = a.externalDNS
       /\ crd.certManager = z.certManager
       /\ crd.argo = z.argo /\ crd.argoSub = whole.argoSub
       /\ crd.monitoring = z.monitoring /\ crd.grafanaSub = whole.grafanaSub

\* Where the cluster's records are, at each stage of its life.
Ours == {r \in zone : r.owner = Us}
OursAreFound ==
  ~dirty =>
    /\ pc # "idle" => ~alive
    /\ pc = "idle" /\ dns = NoDNS => Ours = {}
    /\ pc = "idle" => \A r \in Ours : r.host[2] = dns.domain
    /\ pc \in {"idle", "dns"} => \A r \in Ours : Owns(Us, r.host)
    /\ pc = "dns" => \A r \in Ours : r.host[2] = file.domain /\ file.domain # ""
    /\ pc = "delete" => Ours \subseteq queue
    /\ pc = "s3" => Ours = {}

IInv == TypeOK /\ HostsHaveOneOwner /\ DNSIsOurs /\ ResourceIsBuilt /\ OursAreFound

\* What a destroy has listed are records of owners in whose mark it finds its own.
QueueIsMarked == \A r \in queue : Marked(r, Us)

-----------------------------------------------------------------------------
(***************************************************************************)
(* Settings: what the operator reads is what apply wrote.                  *)
(***************************************************************************)

LEMMA NormalizeTwice == \A size : Normalize(Normalize(size)) = Normalize(size)
  BY DEF Normalize

\* A host gives its subdomain back.
LEMMA HostGoesAround ==
  ASSUME NEW domain, NEW default, NEW custom
  PROVE  LET host == BuildIngressHost(domain, default, custom)
         IN BuildIngressHost(domain, default, SubdomainOf(host, domain, default)) = host
  BY DEF BuildIngressHost, SubdomainOf, None

\* The fields of the configurations and of the resource, by name.
LEMMA ConfigFields ==
  ASSUME NEW f
  PROVE  LET cfg == CLIConfig(f)
         IN /\ cfg.cp = [count |-> ControlPlaneCount(f), size |-> ControlPlaneSize(f)]
            /\ cfg.workers = [count |-> f.workers, size |-> Normalize(f.size)]
            /\ cfg.domain = f.domain /\ cfg.token = f.token
            /\ cfg.owner = IF f.domain = "" THEN "" ELSE Us
            /\ cfg.externalDNS = (f.domain # "") /\ cfg.cloudflare = (f.domain # "")
            /\ cfg.certManager = TRUE /\ cfg.argo = TRUE /\ cfg.monitoring = f.monitoring
            /\ cfg.argoHost = BuildIngressHost(f.domain, "argo", f.argo)
            /\ cfg.grafanaHost = IF f.monitoring
                                 THEN BuildIngressHost(f.domain, "grafana", f.grafana)
                                 ELSE None
            /\ cfg.backup = IF f.backup
                            THEN [on |-> TRUE, bucket |-> BackupBucketName(Us), key |-> f.key]
                            ELSE NoBackup
  BY DEF CLIConfig, ExpandSpec

LEMMA SpecFields ==
  ASSUME NEW f
  PROVE  LET cfg == CLIConfig(f)
             spec == BuildClusterSpec(cfg)
         IN /\ spec.argoSub = SubdomainOf(cfg.argoHost, cfg.domain, "argo")
            /\ spec.grafanaSub = SubdomainOf(cfg.grafanaHost, cfg.domain, "grafana")
            /\ spec.backup = HasBackup(cfg)
  BY DEF BuildClusterSpec

LEMMA OperatorFields ==
  LET op == OperatorConfig
      creds == LoadCredentials(crd, secrets)
  IN /\ op.cp = [crd.cp EXCEPT !.size = Normalize(@)]
     /\ op.workers = [count |-> 0, size |-> Normalize(crd.workers.size)]
     /\ op.domain = IF crd.externalDNS THEN crd.domain ELSE ""
     /\ op.token = IF crd.externalDNS THEN creds.token ELSE ""
     /\ op.owner = IF crd.externalDNS THEN Us ELSE ""
     /\ op.externalDNS = crd.externalDNS /\ op.cloudflare = crd.externalDNS
     /\ op.certManager = crd.certManager /\ op.argo = crd.argo
     /\ op.monitoring = crd.monitoring
     /\ op.argoHost = IF crd.argo THEN BuildIngressHost(crd.domain, "argo", crd.argoSub)
                      ELSE None
     /\ op.grafanaHost = IF crd.monitoring
                         THEN BuildIngressHost(crd.domain, "grafana", crd.grafanaSub)
                         ELSE None
     /\ op.backup = ConfigureBackup(crd, creds)
  BY DEF OperatorConfig, SpecToConfig

\* external-dns has a domain to work in, and the cluster's name for an owner.
LEMMA OperatorsDNS ==
  ASSUME ResourceIsBuilt, alive, OperatorConfig.externalDNS
  PROVE  OperatorConfig.domain # "" /\ OperatorConfig.owner = Us
<1>1. crd.domain = CLIConfig(first).domain /\ crd.externalDNS = CLIConfig(first).externalDNS
  BY DEF ResourceIsBuilt
<1>2. CLIConfig(first).domain = first.domain /\ CLIConfig(first).externalDNS = (first.domain # "")
  BY ConfigFields
<1> QED BY <1>1, <1>2, OperatorFields

LEMMA BackupFields ==
  ASSUME NEW backup, NEW on, NEW bucket, NEW key,
         backup = [on |-> on, bucket |-> bucket, key |-> key]
  PROVE  /\ backup.on = on /\ backup.key = key
         /\ [backup EXCEPT !.on = on] = backup
  OBVIOUS

LEMMA BackupIsOn ==
  ASSUME NEW backup, NEW bucket, NEW key,
         backup = [on |-> TRUE, bucket |-> bucket, key |-> key]
  PROVE  backup.on = TRUE /\ backup.key = key
  OBVIOUS

LEMMA NoBackupHasNoKey == NoBackup.key = ""
  BY DEF NoBackup

\* A backup the first apply asked for, with its keys, is read back as it was.
LEMMA BackupGoesAround ==
  ASSUME NEW cfg, NEW f, Validate(f), NEW c, HasBackup(cfg) => c.backup,
         cfg.backup = IF f.backup
                      THEN [on |-> TRUE, bucket |-> BackupBucketName(Us), key |-> f.key]
                      ELSE NoBackup
  PROVE  ConfigureBackup(c, LoadCredentials(c, BuildSecrets(cfg))) = cfg.backup
<1> DEFINE creds == LoadCredentials(c, BuildSecrets(cfg))
<1>1. creds.s3 = IF c.backup THEN IF HasBackup(cfg) THEN cfg.backup ELSE NoBackup ELSE NoBackup
  BY DEF LoadCredentials, BuildSecrets
<1>2. ConfigureBackup(c, creds) =
        IF c.backup /\ creds.s3.key # "" THEN [creds.s3 EXCEPT !.on = TRUE] ELSE NoBackup
  BY DEF ConfigureBackup
<1> HIDE DEF creds
<1>3. CASE f.backup
  <2>1. f.key # ""
    BY <1>3 DEF Validate
  <2>2. cfg.backup = [on |-> TRUE, bucket |-> BackupBucketName(Us), key |-> f.key]
    BY <1>3
  <2>3. cfg.backup.on = TRUE /\ cfg.backup.key = f.key
    BY <2>2, BackupIsOn, Zenon
  <2>4. c.backup /\ creds.s3 = cfg.backup
    BY <1>1, <2>1, <2>3, Zenon DEF HasBackup
  <2>5. creds.s3.key # "" /\ [creds.s3 EXCEPT !.on = TRUE] = cfg.backup
    BY <2>1, <2>2, <2>3, <2>4, BackupFields, Zenon
  <2>6. ConfigureBackup(c, creds) = cfg.backup
    BY <1>2, <2>4, <2>5, Zenon
  <2> QED BY <2>6 DEF creds
<1>4. CASE ~f.backup
  <2>1. cfg.backup = NoBackup /\ creds.s3 = NoBackup
    BY <1>1, <1>4
  <2>2. creds.s3.key = ""
    BY <2>1, NoBackupHasNoKey, Zenon
  <2>3. ConfigureBackup(c, creds) = NoBackup
    BY <1>2, <2>2, Zenon
  <2> QED BY <2>1, <2>3 DEF creds
<1> QED BY <1>3, <1>4

\* What the operator acts on follows from what the resource is built of.
LEMMA ReadsWhatIsBuilt == ASSUME ResourceIsBuilt PROVE OperatorReadsTheApplied
<1> SUFFICES ASSUME alive PROVE OperatorReadsTheApplied
  BY DEF OperatorReadsTheApplied
<1> DEFINE op == OperatorConfig
           a  == CLIConfig(first)
           z  == CLIConfig(last)
           whole == BuildClusterSpec(a)
<1>1. /\ crd.cp = z.cp /\ crd.workers = z.workers
      /\ crd.domain = a.domain /\ crd.externalDNS = a.externalDNS
      /\ crd.certManager = z.certManager
      /\ crd.argo = z.argo /\ crd.argoSub = whole.argoSub
      /\ crd.monitoring = z.monitoring /\ crd.grafanaSub = whole.grafanaSub
  BY DEF ResourceIsBuilt
<1>2. op.cp = z.cp /\ op.workers.size = z.workers.size
  <2>1. /\ z.cp = [count |-> ControlPlaneCount(last), size |-> ControlPlaneSize(last)]
        /\ z.workers = [count |-> last.workers, size |-> Normalize(last.size)]
    BY ConfigFields
  <2>2. /\ op.cp = [z.cp EXCEPT !.size = Normalize(@)]
        /\ op.workers = [count |-> 0, size |-> Normalize(z.workers.size)]
    BY <1>1, OperatorFields
  <2>3. Normalize(ControlPlaneSize(last)) = ControlPlaneSize(last)
    BY NormalizeTwice DEF ControlPlaneSize, Normalize
  <2> HIDE DEF op, z
  <2> QED BY <2>1, <2>2, <2>3, NormalizeTwice
<1>3. /\ op.certManager = z.certManager /\ op.argo = z.argo /\ op.monitoring = z.monitoring
      /\ op.externalDNS = a.externalDNS /\ op.cloudflare = a.cloudflare
  BY <1>1, OperatorFields, ConfigFields
<1>4. op.externalDNS => op.domain = a.domain /\ op.token = a.token /\ op.owner = a.owner
  <2>1. LoadCredentials(crd, secrets).token = a.token
    BY DEF LoadCredentials, BuildSecrets, ResourceIsBuilt
  <2>2. a.owner = (IF a.domain = "" THEN "" ELSE Us) /\ a.externalDNS = (a.domain # "")
    BY ConfigFields
  <2> QED BY <1>1, <2>1, <2>2, OperatorFields
<1>5. op.argoHost = a.argoHost
  <2>1. /\ a.argoHost = BuildIngressHost(a.domain, "argo", first.argo) /\ z.argo = TRUE
        /\ whole.argoSub = SubdomainOf(a.argoHost, a.domain, "argo")
    BY ConfigFields, SpecFields
  <2>2. op.argoHost = BuildIngressHost(a.domain, "argo", whole.argoSub)
    BY <1>1, <2>1, OperatorFields
  <2> HIDE DEF op, a, whole
  <2> QED BY <2>1, <2>2, HostGoesAround
<1>6. op.monitoring =>
        op.grafanaHost = BuildIngressHost(first.domain, "grafana",
                                          IF first.monitoring THEN first.grafana ELSE "")
  <2>1. /\ a.domain = first.domain
        /\ a.grafanaHost = IF first.monitoring
                           THEN BuildIngressHost(first.domain, "grafana", first.grafana)
                           ELSE None
        /\ whole.grafanaSub = SubdomainOf(a.grafanaHost, a.domain, "grafana")
    BY ConfigFields, SpecFields
  <2>2. op.monitoring => op.grafanaHost = BuildIngressHost(a.domain, "grafana", whole.grafanaSub)
    BY <1>1, OperatorFields
  <2>3. SubdomainOf(None, a.domain, "grafana") = ""
    BY DEF SubdomainOf
  <2> HIDE DEF op, a, whole
  <2>4. CASE first.monitoring
    BY <2>1, <2>2, <2>4, HostGoesAround
  <2>5. CASE ~first.monitoring
    BY <2>1, <2>2, <2>3, <2>5
  <2> QED BY <2>4, <2>5
<1>7. op.backup = a.backup
  <2>1. op.backup = ConfigureBackup(crd, LoadCredentials(crd, secrets))
    BY OperatorFields
  <2>2. Validate(first) /\ (HasBackup(a) => crd.backup) /\ secrets = BuildSecrets(a)
    BY SpecFields DEF ResourceIsBuilt
  <2>3. a.backup = IF first.backup
                   THEN [on |-> TRUE, bucket |-> BackupBucketName(Us), key |-> first.key]
                   ELSE NoBackup
    BY ConfigFields
  <2> HIDE DEF op, a
  <2> QED BY <2>1, <2>2, <2>3, BackupGoesAround
<1> QED BY <1>1, <1>2, <1>3, <1>4, <1>5, <1>6, <1>7 DEF OperatorReadsTheApplied

-----------------------------------------------------------------------------
(***************************************************************************)
(* Hosts, owners, and the cluster's external-dns.                          *)
(***************************************************************************)

LEMMA InitIInv == Init => IInv
<1> SUFFICES ASSUME Init PROVE IInv
  OBVIOUS
<1>1. TypeOK
  <2>1. {file, first, last} \subseteq Files /\ alive \in BOOLEAN /\ dirty \in BOOLEAN
    BY DEF Init, NoCluster
  <2>2. edits \in 0..MaxEdits /\ destroys \in 0..MaxDestroys /\ faults \in 0..MaxFaults
    BY BoundsAssumption DEF Init
  <2> QED BY <2>1, <2>2 DEF Init, NoCluster, TypeOK
<1> QED BY <1>1 DEF Init, NoCluster, IInv, HostsHaveOneOwner, DNSIsOurs, ResourceIsBuilt,
                    OursAreFound, Ours

\* The records of a host are its address and its owner's mark.
LEMMA PairIs ==
  ASSUME NEW host, NEW owner
  PROVE  /\ \A r \in Pair(host, owner) : r.host = host /\ r.owner = owner
         /\ Record("TXT", host, owner) \in Pair(host, owner)
  BY DEF Pair, Record

\* Records come in pairs, for hosts that have none.
LEMMA ZoneGrows ==
  ASSUME DNSIsOurs, Next
  PROVE  \/ zone' \subseteq zone
         \/ \E host, owner : /\ owner \in Owners /\ ~Taken(host)
                             /\ zone' = zone \cup Pair(host, owner)
<1>1. CASE Sync
  BY <1>1 DEF Sync, DNSIsOurs, Owners
<1>2. CASE OtherSync
  BY <1>2 DEF OtherSync, Owners
<1>3. CASE DeleteRecord
  BY <1>3 DEF DeleteRecord
<1> QED BY <1>1, <1>2, <1>3 DEF Next, Edit, Apply, Create, Update, InstallNextAddon, Destroy,
           DestroyServers, StartCleanup, CleanupS3Buckets

LEMMA OneOwnerKeeps ==
  ASSUME HostsHaveOneOwner, DNSIsOurs, Next
  PROVE  HostsHaveOneOwner'
<1>1. CASE zone' \subseteq zone
  BY <1>1 DEF HostsHaveOneOwner
<1>2. CASE \E host, owner : ~Taken(host) /\ zone' = zone \cup Pair(host, owner)
  <2>1. PICK host, owner : ~Taken(host) /\ zone' = zone \cup Pair(host, owner)
    BY <1>2
  <2>2. \A r \in zone : r.host # host
    BY <2>1 DEF Taken
  <2> QED BY <2>1, <2>2, PairIs DEF HostsHaveOneOwner
<1> QED BY <1>1, <1>2, ZoneGrows

\* The addon installed next is one that was not.
LEMMA InstallsNew ==
  ASSUME InstallNextAddon, "external-dns" \in installed
  PROVE  dns' = dns
<1>1. CASE Pending = {} /\ UNCHANGED <<dns, hosts, buckets>>
  BY <1>1
<1>2. ASSUME NEW i \in Pending, InstallStep(Steps[i])
      PROVE  dns' = dns
  <2>1. Steps[i] # "external-dns"
    BY DEF Pending
  <2> QED BY <1>2, <2>1 DEF InstallStep, InstallCertManager, InstallIngress, InstallTalosBackup
<1> QED BY <1>1, <1>2 DEF InstallNextAddon

\* external-dns, when it comes, works for the cluster.
LEMMA InstallsOurs ==
  ASSUME ResourceIsBuilt, InstallNextAddon, dns' # dns
  PROVE  /\ dns'.owner = Us /\ dns'.domain # ""
         /\ "external-dns" \in installed' /\ alive
<1>1. PICK i \in Pending : InstallStep(Steps[i]) /\ installed' = installed \cup {Steps[i]}
  BY DEF InstallNextAddon
<1>2. Steps[i] = "external-dns" /\ InstallExternalDNS(OperatorConfig)
  BY <1>1 DEF InstallStep, InstallCertManager, InstallIngress, InstallTalosBackup
<1>3. alive
  BY DEF InstallNextAddon
<1>4. OperatorConfig.externalDNS
  BY <1>2 DEF Pending, StepEnabled
<1>5. OperatorConfig.domain # "" /\ OperatorConfig.owner = Us
  BY <1>3, <1>4, OperatorsDNS
<1>6. dns' = [owner |-> Us, domain |-> OperatorConfig.domain]
  BY <1>2, <1>5 DEF InstallExternalDNS
<1> QED BY <1>1, <1>2, <1>3, <1>5, <1>6

LEMMA DNSKeeps ==
  ASSUME DNSIsOurs, ResourceIsBuilt, Next
  PROVE  DNSIsOurs'
<1>1. CASE UNCHANGED cluster
  BY <1>1 DEF cluster, DNSIsOurs, NoDNS
<1>2. CASE Create \/ Update
  BY <1>2 DEF Create, Update, DNSIsOurs, NoDNS
<1>3. CASE InstallNextAddon
  <2>1. installed \subseteq installed' /\ alive' = alive
    BY <1>3 DEF InstallNextAddon
  <2>2. CASE dns' = dns
    BY <2>1, <2>2 DEF DNSIsOurs, NoDNS
  <2>3. CASE dns' # dns
    BY <1>3, <2>1, <2>3, InstallsOurs DEF DNSIsOurs
  <2> QED BY <2>2, <2>3
<1>4. CASE DestroyServers
  <2>1. dns' = NoDNS \/ UNCHANGED cluster
    BY <1>4 DEF DestroyServers
  <2> QED BY <1>1, <2>1 DEF DNSIsOurs, NoDNS
<1> QED BY <1>1, <1>2, <1>3, <1>4 DEF Next, Edit, Apply, Sync, OtherSync, Destroy,
           StartCleanup, DeleteRecord, CleanupS3Buckets

LEMMA BuiltKeeps ==
  ASSUME ResourceIsBuilt, Next
  PROVE  ResourceIsBuilt'
<1>1. CASE UNCHANGED <<alive, crd, secrets, first, last>>
  BY <1>1 DEF ResourceIsBuilt
<1>2. CASE Create
  <2> DEFINE cfg == CLIConfig(file)
  <2>1. /\ alive' /\ Validate(file) /\ first' = file /\ last' = file
        /\ crd' = BuildClusterSpec(cfg) /\ secrets' = BuildSecrets(cfg)
    BY <1>2 DEF Create
  <2>2. LET spec == BuildClusterSpec(cfg)
        IN /\ spec.cp = cfg.cp /\ spec.workers = cfg.workers
           /\ spec.domain = cfg.domain /\ spec.externalDNS = cfg.externalDNS
           /\ spec.certManager = cfg.certManager
           /\ spec.argo = cfg.argo /\ spec.monitoring = cfg.monitoring
    BY DEF BuildClusterSpec
  <2> HIDE DEF cfg
  <2> QED BY <2>1, <2>2 DEF ResourceIsBuilt, cfg
<1>3. CASE Update
  <2> DEFINE a == CLIConfig(first)
             z == CLIConfig(file)
             whole == BuildClusterSpec(a)
             backup == crd.backup \/ (z.backup.on /\ z.backup.key # "")
  <2>1. /\ alive /\ alive' /\ first' = first /\ last' = file /\ secrets' = secrets
        /\ crd' = UpdateClusterSpec(crd, z)
    BY <1>3 DEF Update
  <2>2. crd' = [crd EXCEPT !.cp = z.cp, !.workers = z.workers,
                  !.certManager = z.certManager, !.argo = z.argo,
                  !.monitoring = z.monitoring, !.backup = backup]
    BY <2>1 DEF UpdateClusterSpec
  <2>3. (whole.backup => backup) /\ Validate(first) /\ secrets = BuildSecrets(a)
    BY <2>1 DEF ResourceIsBuilt
  <2>4. /\ DOMAIN crd = DOMAIN whole
        /\ crd.domain = a.domain /\ crd.externalDNS = a.externalDNS
        /\ crd.argoSub = whole.argoSub /\ crd.grafanaSub = whole.grafanaSub
    BY <2>1 DEF ResourceIsBuilt
  <2>5. DOMAIN whole = {"cp", "workers", "domain", "externalDNS", "certManager", "argo",
                        "argoSub", "monitoring", "grafanaSub", "backup"}
    BY DEF BuildClusterSpec
  <2> HIDE DEF a, z, whole, backup
  <2>6. /\ crd'.cp = z.cp /\ crd'.workers = z.workers
        /\ crd'.certManager = z.certManager /\ crd'.argo = z.argo
        /\ crd'.monitoring = z.monitoring /\ crd'.backup = backup
    BY <2>2, <2>4, <2>5
  <2>7. /\ DOMAIN crd' = DOMAIN crd
        /\ crd'.domain = crd.domain /\ crd'.externalDNS = crd.externalDNS
        /\ crd'.argoSub = crd.argoSub /\ crd'.grafanaSub = crd.grafanaSub
    BY <2>2, <2>4, <2>5
  <2> QED BY <2>1, <2>3, <2>4, <2>6, <2>7 DEF ResourceIsBuilt, whole, a, z
<1>4. CASE DestroyServers
  BY <1>4 DEF DestroyServers, ResourceIsBuilt, cluster
<1> QED BY <1>1, <1>2, <1>3, <1>4 DEF Next, Edit, Apply, InstallNextAddon, Sync, OtherSync,
           Destroy, StartCleanup, DeleteRecord, CleanupS3Buckets, cluster

-----------------------------------------------------------------------------
(***************************************************************************)
(* The cluster's records, and a destroy.                                   *)
(***************************************************************************)

\* Whether there are records to delete, and under which owner, is the file's domain.
LEMMA FilesDNS ==
  LET cfg == CLIConfig(file)
  IN /\ cfg.cloudflare = (file.domain # "") /\ cfg.domain = file.domain
     /\ file.domain # "" => cfg.owner = Us
  BY ConfigFields

LEMMA InstallKeepsRecords ==
  ASSUME OursAreFound, DNSIsOurs, ResourceIsBuilt, InstallNextAddon
  PROVE  OursAreFound'
<1>1. /\ zone' = zone /\ pc' = pc /\ dirty' = dirty /\ queue' = queue /\ file' = file
      /\ alive' = alive /\ alive
  BY DEF InstallNextAddon
<1> SUFFICES ASSUME ~dirty PROVE OursAreFound'
  BY <1>1 DEF OursAreFound
<1>2. pc = "idle" /\ Ours' = Ours
  BY <1>1 DEF OursAreFound, Ours
<1>3. \A h : Owns(Us, h)' <=> Owns(Us, h)
  BY <1>1 DEF Owns
<1>4. CASE dns = NoDNS
  <2>1. Ours = {}
    BY <1>2, <1>4 DEF OursAreFound
  <2> QED BY <1>1, <1>2, <2>1 DEF OursAreFound
<1>5. CASE dns # NoDNS
  <2>1. dns' = dns
    BY <1>5, InstallsNew DEF DNSIsOurs
  <2> QED BY <1>1, <1>2, <1>3, <1>5, <2>1 DEF OursAreFound, NoDNS
<1> QED BY <1>4, <1>5

LEMMA SyncKeepsRecords ==
  ASSUME TypeOK, OursAreFound, DNSIsOurs, Sync
  PROVE  OursAreFound'
<1>1. /\ pc' = pc /\ dirty' = dirty /\ queue' = queue /\ file' = file
      /\ alive' = alive /\ alive /\ dns' = dns /\ dns # NoDNS
  BY DEF Sync, cluster
<1> SUFFICES ASSUME ~dirty PROVE OursAreFound'
  BY <1>1 DEF OursAreFound
<1>2. pc = "idle" /\ dns.owner = Us
  BY <1>1 DEF OursAreFound, DNSIsOurs
<1>3. /\ \A r \in Ours : r.host[2] = dns.domain
      /\ \A r \in Ours : Owns(Us, r.host)
  BY <1>2 DEF OursAreFound
<1>4. ASSUME NEW h \in Wanted, zone' = zone \cup Pair(h, Us)
      PROVE  /\ \A r \in Ours' : r.host[2] = dns.domain
             /\ \A r \in Ours' : Owns(Us, r.host)'
  <2>1. h[2] = dns.domain
    BY DEF Wanted
  <2>2. \A r \in Ours' : r \in Ours \/ r \in Pair(h, Us)
    BY <1>4 DEF Ours
  <2>3. \A r \in Pair(h, Us) : r.host[2] = dns.domain /\ Owns(Us, r.host)'
    BY <1>4, <2>1, PairIs DEF Owns
  <2>4. \A r \in Ours : Owns(Us, r.host)'
    BY <1>3, <1>4 DEF Owns
  <2> QED BY <1>3, <2>2, <2>3, <2>4
<1>5. ASSUME NEW t \in zone, zone' = zone \ Pair(t.host, Us)
      PROVE  /\ \A r \in Ours' : r.host[2] = dns.domain
             /\ \A r \in Ours' : Owns(Us, r.host)'
  <2>1. Ours' \subseteq Ours
    BY <1>5 DEF Ours
  <2> SUFFICES ASSUME NEW r \in Ours' PROVE Owns(Us, r.host)'
    BY <1>3, <2>1
  <2>2. Record("TXT", r.host, Us) \in zone
    BY <1>3, <2>1 DEF Owns
  <2>3. CASE r.host = t.host
    BY <1>5, <2>1, <2>3 DEF TypeOK, Ours
  <2>4. CASE r.host # t.host
    <3>1. Record("TXT", r.host, Us) \notin Pair(t.host, Us)
      BY <2>4 DEF Pair, Record
    <3> QED BY <1>5, <2>2, <3>1 DEF Owns
  <2> QED BY <2>3, <2>4
<1>6. /\ \A r \in Ours' : r.host[2] = dns.domain
      /\ \A r \in Ours' : Owns(Us, r.host)'
  BY <1>2, <1>4, <1>5 DEF Sync
<1> QED BY <1>1, <1>2, <1>6 DEF OursAreFound, NoDNS

\* The other clusters' records are never ours, nor on a host of ours.
LEMMA OtherSyncKeepsRecords ==
  ASSUME OursAreFound, OtherSync
  PROVE  OursAreFound'
<1>1. /\ UNCHANGED <<pc, dirty, queue, file, alive, dns>>
  BY DEF OtherSync, cluster
<1>2. PICK h \in Hosts, other \in Others : \/ ~Taken(h) /\ zone' = zone \cup Pair(h, other)
                                         \/ zone' = zone \ Pair(h, other)
  BY DEF OtherSync
<1>3. \A r \in Pair(h, other) : r.owner # Us
  <2>1. other # Us
    BY NamesAssumption
  <2>2. \A r \in Pair(h, other) : r.owner = other
    BY DEF Pair, Record
  <2> QED BY <2>1, <2>2
<1>4. Ours' = Ours
  BY <1>2, <1>3 DEF Ours
<1>5. \A host : Owns(Us, host)' <=> Owns(Us, host)
  <2>1. \A host : Record("TXT", host, Us).owner = Us
    BY DEF Record
  <2> QED BY <1>2, <1>3, <2>1 DEF Owns
<1> QED BY <1>1, <1>4, <1>5 DEF OursAreFound

LEMMA ApplyKeepsRecords ==
  ASSUME OursAreFound, DNSIsOurs, Edit \/ Apply
  PROVE  OursAreFound'
<1>1. pc = "idle" /\ UNCHANGED <<pc, dirty, queue, zone, dns>>
  BY DEF Edit, Apply, Create, Update, cluster
<1>2. Ours' = Ours /\ \A h : Owns(Us, h)' <=> Owns(Us, h)
  BY <1>1 DEF Ours, Owns
<1> QED BY <1>1, <1>2 DEF OursAreFound

LEMMA DestroyServersKeepsRecords ==
  ASSUME OursAreFound, DNSIsOurs, DestroyServers
  PROVE  OursAreFound'
<1>1. pc = "idle" /\ UNCHANGED <<queue, zone, file>>
  BY DEF DestroyServers
<1>2. Ours' = Ours /\ \A h : Owns(Us, h)' <=> Owns(Us, h)
  BY <1>1 DEF Ours, Owns
<1> SUFFICES ASSUME ~dirty' PROVE OursAreFound'
  BY DEF OursAreFound
<1>3. CASE pc' = "idle"
  <2>1. UNCHANGED <<dns, alive>> /\ ~dirty
    BY <1>3 DEF DestroyServers, cluster
  <2> QED BY <1>1, <1>2, <1>3, <2>1 DEF OursAreFound
<1>4. CASE pc' # "idle"
  <2>1. /\ pc' = "dns" /\ ~alive' /\ ~dirty
        /\ dns # NoDNS => dns.domain = file.domain
    BY <1>4 DEF DestroyServers
  <2>2. CASE dns = NoDNS
    BY <1>1, <1>2, <2>1, <2>2 DEF OursAreFound
  <2>3. CASE dns # NoDNS
    <3>1. file.domain # "" /\ dns.domain = file.domain
      BY <2>1, <2>3 DEF DNSIsOurs
    <3> QED BY <1>1, <1>2, <2>1, <3>1 DEF OursAreFound
  <2> QED BY <2>2, <2>3
<1> QED BY <1>3, <1>4

\* Every record of the cluster is listed, when its owner's mark is in the file's domain.
LEMMA StartCleanupKeepsRecords ==
  ASSUME OursAreFound, StartCleanup
  PROVE  OursAreFound'
<1> DEFINE cfg == CLIConfig(file)
<1>1. pc = "dns" /\ UNCHANGED <<zone, file, alive, dns>>
  BY DEF StartCleanup, cluster
<1>2. Ours' = Ours
  BY <1>1 DEF Ours
<1> SUFFICES ASSUME ~dirty' PROVE OursAreFound'
  BY DEF OursAreFound
<1>3. CASE cfg.cloudflare /\ ListRecords(cfg) /\ pc' = "delete"
  <2> HIDE DEF cfg
  <2>1. queue' = ToDelete(Us, file.domain) /\ ~dirty
    <3>1. file.domain # ""
      BY <1>3, FilesDNS DEF cfg
    <3>2. cfg.owner = Us /\ cfg.domain = file.domain
      BY <3>1, FilesDNS DEF cfg
    <3>3. queue' = ToDelete(cfg.owner, cfg.domain) /\ ~dirty
      BY <1>3 DEF ListRecords
    <3> QED BY <3>2, <3>3
  <2>2. \A r \in Ours : Owns(Us, r.host) /\ r.host[2] = file.domain
    BY <1>1, <2>1 DEF OursAreFound
  <2> SUFFICES ASSUME NEW r \in Ours PROVE r \in ToDelete(Us, file.domain)
    BY <1>1, <1>2, <1>3, <2>1 DEF OursAreFound
  <2>3. Record("TXT", r.host, Us) \in zone
    BY <2>2 DEF Owns
  <2>4. r.host \in OwnedNames(Us, file.domain)
    BY <2>2, <2>3 DEF OwnedNames, Marked, Record
  <2> QED BY <2>4 DEF ToDelete, Ours, Marked
<1>4. CASE ~cfg.cloudflare /\ pc' = "s3" /\ UNCHANGED <<queue, dirty, faults>>
  <2>1. file.domain = "" /\ ~dirty
    BY <1>4, FilesDNS
  <2>2. Ours = {}
    BY <1>1, <2>1 DEF OursAreFound
  <2> QED BY <1>1, <1>2, <1>4, <2>1, <2>2 DEF OursAreFound
<1> QED BY <1>3, <1>4 DEF StartCleanup

LEMMA DeleteRecordKeepsRecords ==
  ASSUME OursAreFound, DeleteRecord
  PROVE  OursAreFound'
<1>1. pc = "delete" /\ UNCHANGED <<file, alive, dns>>
  BY DEF DeleteRecord, cluster
<1> SUFFICES ASSUME ~dirty' PROVE OursAreFound'
  BY DEF OursAreFound
<1>2. CASE queue = {} /\ pc' = "s3" /\ UNCHANGED <<zone, queue, dirty, faults>>
  BY <1>1, <1>2 DEF OursAreFound, Ours
<1>3. ASSUME NEW r \in queue, zone' = zone \ {r}, queue' = queue \ {r},
             UNCHANGED <<pc, dirty, faults>>
      PROVE  OursAreFound'
  BY <1>1, <1>3 DEF OursAreFound, Ours
<1> QED BY <1>2, <1>3 DEF DeleteRecord, OwnersFirst

LEMMA BucketsKeepRecords ==
  ASSUME OursAreFound, CleanupS3Buckets
  PROVE  OursAreFound'
<1>1. pc = "s3" /\ pc' = "idle" /\ UNCHANGED <<file, alive, dns, zone, dirty>>
  BY DEF CleanupS3Buckets, cluster
<1> QED BY <1>1 DEF OursAreFound, Ours

LEMMA RecordsKeep == ASSUME IInv, Next PROVE OursAreFound'
  BY InstallKeepsRecords, SyncKeepsRecords, OtherSyncKeepsRecords, ApplyKeepsRecords,
     DestroyServersKeepsRecords, StartCleanupKeepsRecords, DeleteRecordKeepsRecords,
     BucketsKeepRecords
  DEF IInv, Next, Destroy

-----------------------------------------------------------------------------
(***************************************************************************)
(* Types.                                                                  *)
(***************************************************************************)

RecordsOK == \A r \in zone \cup queue : r \in Pair(r.host, r.owner) /\ r.owner \in Owners

LEMMA FaultCounts == ASSUME TypeOK, Fault PROVE faults' \in 0..MaxFaults
  BY BoundsAssumption DEF TypeOK, Fault

LEMMA RecordsStayOK ==
  ASSUME TypeOK, DNSIsOurs, Next
  PROVE  RecordsOK'
<1>1. \A r \in zone' : r \in Pair(r.host, r.owner) /\ r.owner \in Owners
  <2>1. CASE zone' \subseteq zone
    BY <2>1 DEF TypeOK
  <2>2. ASSUME NEW host, NEW owner \in Owners, zone' = zone \cup Pair(host, owner)
        PROVE  \A r \in zone' : r \in Pair(r.host, r.owner) /\ r.owner \in Owners
    BY <2>2, PairIs DEF TypeOK
  <2> QED BY <2>1, <2>2, ZoneGrows
<1>2. queue' \subseteq zone \cup queue
  <2>1. CASE StartCleanup
    BY <2>1 DEF StartCleanup, ListRecords, ToDelete
  <2>2. CASE DeleteRecord
    BY <2>2 DEF DeleteRecord
  <2> QED BY <2>1, <2>2 DEF Next, Edit, Apply, Create, Update, InstallNextAddon, Sync,
             OtherSync, Destroy, DestroyServers, CleanupS3Buckets
<1> QED BY <1>1, <1>2 DEF TypeOK, RecordsOK

LEMMA TypeKeeps ==
  ASSUME TypeOK, DNSIsOurs, Next
  PROVE  TypeOK'
<1>1. RecordsOK'
  BY RecordsStayOK
<1> USE DEF TypeOK
<1>2. CASE Edit
  BY <1>1, <1>2, BoundsAssumption DEF Edit, cluster, RecordsOK
<1>3. CASE Apply
  BY <1>1, <1>3 DEF Apply, Create, Update, RecordsOK
<1>4. CASE InstallNextAddon
  <2>1. installed' \subseteq StepSet \cup {"complete"}
    BY <1>4 DEF InstallNextAddon, Pending, StepSet
  <2>2. faults' \in 0..MaxFaults
    <3>1. faults' = faults \/ Fault
      BY <1>4 DEF InstallNextAddon, InstallStep, InstallCertManager, InstallExternalDNS,
                  InstallIngress, InstallTalosBackup
    <3> QED BY <3>1, FaultCounts
  <2> QED BY <1>1, <1>4, <2>1, <2>2 DEF InstallNextAddon, RecordsOK
<1>5. CASE Sync \/ OtherSync
  BY <1>1, <1>5 DEF Sync, OtherSync, cluster, RecordsOK
<1>6. CASE DestroyServers
  <2>1. destroys' \in 0..MaxDestroys
    BY <1>6, BoundsAssumption DEF DestroyServers
  <2>2. /\ {file', first', last'} \subseteq Files /\ alive' \in BOOLEAN /\ dirty' \in BOOLEAN
        /\ installed' \subseteq StepSet \cup {"complete"}
    BY <1>6 DEF DestroyServers, cluster
  <2>3. pc' \in {"idle", "dns"} /\ queue = {} /\ UNCHANGED <<queue, edits>>
    BY <1>6 DEF DestroyServers
  <2>4. faults' \in 0..MaxFaults
    BY <1>6, FaultCounts DEF DestroyServers
  <2> QED BY <1>1, <2>1, <2>2, <2>3, <2>4 DEF RecordsOK
<1>7. CASE StartCleanup
  <2>1. UNCHANGED <<file, cluster, edits, destroys>>
    BY <1>7 DEF StartCleanup
  <2>2. faults' \in 0..MaxFaults /\ dirty' \in BOOLEAN
    BY <1>7, FaultCounts DEF StartCleanup, ListRecords
  <2>3. pc' \in {"delete", "s3"} /\ (queue' # {} => pc' = "delete")
    BY <1>7 DEF StartCleanup
  <2> QED BY <1>1, <2>1, <2>2, <2>3 DEF RecordsOK, cluster
<1>8. CASE DeleteRecord
  <2>1. UNCHANGED <<file, cluster, edits, destroys>>
    BY <1>8 DEF DeleteRecord
  <2>2. faults' \in 0..MaxFaults /\ dirty' \in BOOLEAN
    BY <1>8, FaultCounts DEF DeleteRecord
  <2>3. pc' \in {"delete", "s3", "idle"} /\ (queue' # {} => pc' = "delete")
    BY <1>8 DEF DeleteRecord
  <2> QED BY <1>1, <2>1, <2>2, <2>3 DEF RecordsOK, cluster
<1>9. CASE CleanupS3Buckets
  <2>1. faults' \in 0..MaxFaults
    BY <1>9, FaultCounts DEF CleanupS3Buckets
  <2> QED BY <1>1, <1>9, <2>1 DEF CleanupS3Buckets, cluster, RecordsOK
<1> QED BY <1>2, <1>3, <1>4, <1>5, <1>6, <1>7, <1>8, <1>9 DEF Next, Destroy

-----------------------------------------------------------------------------
(***************************************************************************)
(* The theorems.                                                           *)
(***************************************************************************)

LEMMA StutterKeeps == ASSUME IInv, UNCHANGED vars PROVE IInv'
<1>1. TypeOK'
  BY DEF IInv, TypeOK, vars, cluster
<1>2. HostsHaveOneOwner' /\ DNSIsOurs'
  BY DEF IInv, HostsHaveOneOwner, DNSIsOurs, vars, cluster
<1>3. ResourceIsBuilt'
  BY DEF IInv, ResourceIsBuilt, vars, cluster
<1>4. OursAreFound'
  BY DEF IInv, OursAreFound, Ours, Owns, vars, cluster
<1> QED BY <1>1, <1>2, <1>3, <1>4 DEF IInv

LEMMA NextKeeps == ASSUME IInv, [Next]_vars PROVE IInv'
<1>1. CASE Next
  BY <1>1, TypeKeeps, OneOwnerKeeps, DNSKeeps, BuiltKeeps, RecordsKeep DEF IInv
<1>2. CASE UNCHANGED vars
  BY <1>2, StutterKeeps
<1> QED BY <1>1, <1>2

\* The invariant the others follow from: where the cluster's records are at each stage
\* of a destroy, what external-dns works with, what the resource is built of.
THEOREM Invariance == Spec => []IInv
  BY InitIInv, NextKeeps, PTL DEF Spec

\* Every variable keeps its type; records are addresses and marks of the two clusters.
THEOREM TypeCorrect == Spec => []TypeOK
<1>1. IInv => TypeOK
  BY DEF IInv
<1> QED BY <1>1, Invariance, PTL

\* What updateClusterSpecFromConfig leaves and what it writes, read back by SpecToConfig,
\* is what the first and the last apply asked for.
THEOREM AppliedIsRead == Spec => []OperatorReadsTheApplied
<1>1. IInv => OperatorReadsTheApplied
  BY ReadsWhatIsBuilt DEF IInv
<1> QED BY <1>1, Invariance, PTL

\* A destroy without a failing call, for the domain the cluster was made with, leaves
\* none of its DNS records.
THEOREM RecordsAreDeleted == Spec => []DestroyLeavesNoRecord
<1>1. IInv => DestroyLeavesNoRecord
  BY DEF IInv, OursAreFound, DestroyLeavesNoRecord, Ours
<1> QED BY <1>1, Invariance, PTL

\* An address is listed with the mark of its host's owner.
LEMMA QueueStaysMarked ==
  ASSUME IInv, QueueIsMarked, [Next]_vars
  PROVE  QueueIsMarked'
<1>1. CASE StartCleanup
  <2> DEFINE cfg == CLIConfig(file)
  <2>1. CASE queue' = {} \/ queue' = queue
    BY <2>1 DEF QueueIsMarked, Marked
  <2>2. CASE cfg.cloudflare /\ queue' = ToDelete(cfg.owner, cfg.domain)
    <3> HIDE DEF cfg
    <3>1. file.domain # ""
      BY <2>2, FilesDNS DEF cfg
    <3>2. queue' = ToDelete(Us, file.domain)
      BY <2>2, <3>1, FilesDNS DEF cfg
    <3> SUFFICES ASSUME NEW r \in ToDelete(Us, file.domain) PROVE Marked(r, Us)
      BY <3>2 DEF QueueIsMarked, Marked
    <3>3. PICK x \in zone : Marked(x, Us) /\ x.host = r.host
      BY DEF ToDelete, OwnedNames
    <3>4. r \in zone
      BY DEF ToDelete
    <3>5. r.owner = x.owner
      BY <3>3, <3>4 DEF IInv, HostsHaveOneOwner
    <3> QED BY <3>3, <3>5 DEF Marked
  <2> QED BY <1>1, <2>1, <2>2 DEF StartCleanup, ListRecords
<1>2. CASE queue' \subseteq queue
  BY <1>2 DEF QueueIsMarked, Marked
<1> QED BY <1>1, <1>2 DEF Next, Edit, Apply, Create, Update, InstallNextAddon, Sync,
           OtherSync, Destroy, DestroyServers, DeleteRecord, CleanupS3Buckets, vars

\* This cluster's external-dns takes its own records, a destroy what it has listed.
LEMMA OthersStay ==
  ASSUME IInv, QueueIsMarked, [Next]_vars
  PROVE  \A r \in zone \ zone' : Marked(r, Us) \/ OtherSync
<1> SUFFICES ASSUME NEW r \in zone \ zone' PROVE Marked(r, Us) \/ OtherSync
  OBVIOUS
<1>1. CASE Sync
  <2>1. dns.owner = Us
    BY <1>1 DEF Sync, IInv, DNSIsOurs
  <2>2. PICK h : zone' = zone \ Pair(h, Us)
    BY <1>1, <2>1 DEF Sync
  <2> QED BY <2>2, PairIs DEF Marked
<1>2. CASE DeleteRecord
  BY <1>2 DEF DeleteRecord, OwnersFirst, QueueIsMarked
<1> QED BY <1>1, <1>2 DEF Next, Edit, Apply, Create, Update, InstallNextAddon, Destroy,
           DestroyServers, StartCleanup, CleanupS3Buckets, vars

\* Whichever names contain which others, the records of another cluster that go by
\* this one's destroy are those with its marker in their owner's record: never a
\* neighbour's address by its name alone, nor a host that has changed hands
\* (CleanupClusterRecords).
THEOREM OtherRecordsAreKept == Spec => OthersKept
<1>1. Init => QueueIsMarked
  BY DEF Init, QueueIsMarked
<1>2. IInv /\ QueueIsMarked /\ [Next]_vars => QueueIsMarked'
  BY QueueStaysMarked
<1>3. IInv /\ QueueIsMarked /\ [Next]_vars =>
        [\A r \in zone \ zone' : Marked(r, Us) \/ OtherSync]_vars
  BY OthersStay
<1> QED BY <1>1, <1>2, <1>3, Invariance, PTL DEF Spec, OthersKept

\* Destroy's look for buckets never deletes the one the backups are in.
THEOREM BackupsAreKept == Spec => BackupsArePreserved
<1>1. ASSUME [Next]_vars
      PROVE  \A b \in buckets : b[2] = "-etcd-backups" => b \in buckets'
  <2>1. CASE CleanupS3Buckets
    BY <2>1 DEF CleanupS3Buckets, VerifyBucketOwnership
  <2>2. CASE InstallNextAddon
    BY <2>2 DEF InstallNextAddon, InstallStep, InstallCertManager, InstallExternalDNS,
                InstallIngress, InstallTalosBackup
  <2> QED BY <1>1, <2>1, <2>2 DEF Next, Edit, Apply, Create, Update, Sync, OtherSync,
             Destroy, DestroyServers, StartCleanup, DeleteRecord, vars
<1>2. [Next]_vars => [\A b \in buckets : b[2] = "-etcd-backups" => b \in buckets']_vars
  BY <1>1
<1> QED BY <1>2, PTL DEF Spec, BackupsArePreserved
=============================================================================
