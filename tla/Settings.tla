------------------------------ MODULE Settings ------------------------------
(***************************************************************************)
(* What the user asks for, on its way to what the operator does: the file  *)
(* k8zner.yaml (a Spec) is expanded to the configuration the command line  *)
(* works with; that one is written into the K8znerCluster and two secrets, *)
(* at first in full and by a later apply in part; and the operator expands *)
(* them to a configuration of its own.  A configuration is a record of the *)
(* settings that differ between files; a host name is a pair of subdomain  *)
(* and domain, a bucket's name a pair of cluster and suffix, and "" is a   *)
(* setting that is absent.                                                 *)
(***************************************************************************)
EXTENDS Integers

None == <<"", "">>

\* ServerSize.Normalize: names Hetzner has replaced.
Normalize(size) ==
  CASE size = "cx22" -> "cx23"
    [] size = "cx32" -> "cx33"
    [] size = "cx42" -> "cx43"
    [] size = "cx52" -> "cx53"
    [] OTHER -> size

ValidSizes == {"cpx22", "cpx32", "cpx42", "cpx52", "cx22", "cx32", "cx42", "cx52",
               "cx23", "cx33", "cx43", "cx53"}

\* Spec.Validate; names and domains are given, and only the workers' size is looked at.
\* The tokens are the environment's.
Validate(file) ==
  /\ file.mode \in {"dev", "ha"}
  /\ file.workers \in 1..5
  /\ file.size \in ValidSizes
  /\ file.domain # "" => file.token # ""
  /\ file.backup => file.key # ""

ControlPlaneCount(file) == IF file.mode = "ha" THEN 3 ELSE 1

ControlPlaneSize(file) == IF file.cpSize = "" THEN "cx23" ELSE Normalize(file.cpSize)

BuildIngressHost(domain, default, custom) ==
  IF domain = "" THEN None ELSE <<IF custom = "" THEN default ELSE custom, domain>>

CertEmail(file) ==
  IF file.email # "" THEN <<file.email, "">> ELSE BuildIngressHost(file.domain, "admin", "")

BackupBucketName(name) == <<name, "-etcd-backups">>

NoBackup == [on |-> FALSE, bucket |-> None, key |-> ""]

\* ExpandSpec: the settings that follow the file; the others are constants.
ExpandSpec(name, file) ==
  [cp           |-> [count |-> ControlPlaneCount(file), size |-> ControlPlaneSize(file)],
   workers      |-> [count |-> file.workers, size |-> Normalize(file.size)],
   domain       |-> file.domain,
   token        |-> file.token,
   owner        |-> IF file.domain = "" THEN "" ELSE name,
   externalDNS  |-> file.domain # "",
   cloudflare   |-> file.domain # "",
   certManager  |-> TRUE,
   email        |-> CertEmail(file),
   argo         |-> TRUE,
   argoHA       |-> file.mode = "ha",
   argoHost     |-> BuildIngressHost(file.domain, "argo", file.argo),
   monitoring   |-> file.monitoring,
   grafanaHost  |-> IF file.monitoring
                    THEN BuildIngressHost(file.domain, "grafana", file.grafana) ELSE None,
   backup       |-> IF file.backup
                    THEN [on |-> TRUE, bucket |-> BackupBucketName(name), key |-> file.key]
                    ELSE NoBackup]

\* The subdomain of a host, when it is not the default: TrimSuffix of "." and the domain.
SubdomainOf(host, domain, default) ==
  IF domain # "" /\ host # None /\ host[2] = domain /\ host[1] # default THEN host[1] ELSE ""

\* createBackupS3Secret and buildBackupSpec ask for the same.
HasBackup(cfg) == cfg.backup.on /\ cfg.backup.key # ""

\* buildClusterSpec and buildAddonSpec, from which cert_email and Argo CD's replicas
\* are missing.
BuildClusterSpec(cfg) ==
  [cp          |-> cfg.cp,
   workers     |-> cfg.workers,
   domain      |-> cfg.domain,
   externalDNS |-> cfg.externalDNS,
   certManager |-> cfg.certManager,
   argo        |-> cfg.argo,
   argoSub     |-> SubdomainOf(cfg.argoHost, cfg.domain, "argo"),
   monitoring  |-> cfg.monitoring,
   grafanaSub  |-> SubdomainOf(cfg.grafanaHost, cfg.domain, "grafana"),
   backup      |-> HasBackup(cfg)]

\* createCredentialsSecret and createBackupS3Secret.
BuildSecrets(cfg) ==
  [token |-> cfg.token, s3 |-> IF HasBackup(cfg) THEN cfg.backup ELSE NoBackup]

\* Mutant: an apply enables external-dns as it does the other addons.
UpdateSwitchingDNS(crd, cfg) ==
  [crd EXCEPT !.cp = cfg.cp, !.workers = cfg.workers, !.externalDNS = cfg.externalDNS,
              !.domain = cfg.domain, !.monitoring = cfg.monitoring,
              !.backup = @ \/ (cfg.backup.on /\ cfg.backup.key # "")]

\* Mutant: an apply forgets monitoring.
UpdateWithoutMonitoring(crd, cfg) ==
  [crd EXCEPT !.cp = cfg.cp, !.workers = cfg.workers]

\* updateClusterSpecFromConfig: the domain, the subdomains, external-dns and the secrets
\* stay as they were, and a backup is never switched off.
UpdateClusterSpec(crd, cfg) ==
  [crd EXCEPT !.cp = cfg.cp, !.workers = cfg.workers,
              !.certManager = cfg.certManager, !.argo = cfg.argo,
              !.monitoring = cfg.monitoring,
              !.backup = @ \/ (cfg.backup.on /\ cfg.backup.key # "")]

\* LoadCredentials: a backup secret that is missing is only logged.
LoadCredentials(crd, secrets) ==
  [token |-> secrets.token, s3 |-> IF crd.backup THEN secrets.s3 ELSE NoBackup]

\* configureBackup.
ConfigureBackup(crd, creds) ==
  IF crd.backup /\ creds.s3.key # "" THEN [creds.s3 EXCEPT !.on = TRUE] ELSE NoBackup

\* SpecToConfig, with buildAddonsConfig and the helpers for each addon.
SpecToConfig(name, crd, creds) ==
  [cp           |-> [crd.cp EXCEPT !.size = Normalize(@)],
   workers      |-> [count |-> 0, size |-> Normalize(crd.workers.size)],
   domain       |-> IF crd.externalDNS THEN crd.domain ELSE "",
   token        |-> IF crd.externalDNS THEN creds.token ELSE "",
   owner        |-> IF crd.externalDNS THEN name ELSE "",
   externalDNS  |-> crd.externalDNS,
   cloudflare   |-> crd.externalDNS,
   certManager  |-> crd.certManager,
   email        |-> IF crd.externalDNS /\ crd.certManager
                    THEN BuildIngressHost(crd.domain, "admin", "") ELSE None,
   argo         |-> crd.argo,
   argoHA       |-> FALSE,
   argoHost     |-> IF crd.argo THEN BuildIngressHost(crd.domain, "argo", crd.argoSub) ELSE None,
   monitoring   |-> crd.monitoring,
   grafanaHost  |-> IF crd.monitoring
                    THEN BuildIngressHost(crd.domain, "grafana", crd.grafanaSub) ELSE None,
   backup       |-> ConfigureBackup(crd, creds)]
=============================================================================
