--------------------------- MODULE MCClusterLife ---------------------------
(* Instances of ClusterLife for TLC: what the file may say. *)
EXTENDS ClusterLife

Plain == [mode |-> "dev", workers |-> 1, size |-> "cx22", cpSize |-> "", domain |-> "",
          argo |-> "", email |-> "", monitoring |-> FALSE, grafana |-> "", backup |-> FALSE,
          token |-> "", key |-> ""]

\* Nothing optional; all of it; another domain with subdomains, and a backup; the first
\* domain again, with more workers; a domain without a token, which Validate rejects.
AllFiles ==
  {Plain,
   [Plain EXCEPT !.mode = "ha", !.domain = "d1", !.token = "t", !.email = "ops",
                 !.monitoring = TRUE, !.grafana = "graf", !.backup = TRUE, !.key = "k"],
   [Plain EXCEPT !.domain = "d2", !.token = "t", !.argo = "cd", !.grafana = "graf",
                 !.backup = TRUE, !.key = "k", !.cpSize = "cx32"],
   [Plain EXCEPT !.domain = "d1", !.token = "t", !.workers = 2, !.size = "cx33",
                 !.monitoring = TRUE],
   [Plain EXCEPT !.domain = "d1"]}

\* A neighbour of another name, and one whose name begins with ours.
Markers == {<<"prod2", "prod">>}

\* The host of our Argo CD in the first domain.
SharedHosts == {BuildIngressHost("d1", "argo", "")}

Old == {<<"prod", "-talos-backup">>, <<"stage", "-etcd-backup">>}
=============================================================================
