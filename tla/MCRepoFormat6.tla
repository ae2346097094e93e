--------------------------- MODULE MCRepoFormat6 ---------------------------
(* Instances of RepoFormat6 for TLC.                                       *)
EXTENDS RepoFormat6, TLC

CONSTANTS p1, p2, k1, k2, k3

(* Anybody runs anything; processes, clients and contents can be swapped.  *)
AnyCommand == Procs \X {"backup", "forget"} \X Clients

AnySwap == Permutations(Procs) \cup Permutations(Clients) \cup Permutations(Contents)

(* Two machines that back up one client each and forget for any client;    *)
(* the machines can be swapped together with their clients.                *)
OneClientEach ==
  {<<p1, "backup", k1>>, <<p2, "backup", k2>>} \cup (Procs \X {"forget"} \X Clients)

MachineSwap ==
  {p1 :> p1 @@ p2 :> p2 @@ k1 :> k1 @@ k2 :> k2, p1 :> p2 @@ p2 :> p1 @@ k1 :> k2 @@ k2 :> k1}

(* One client, whose backups and forgets run from different processes.     *)
BackupAndForget == {<<p1, "backup", k1>>, <<p2, "forget", k1>>}

OnlyBackups == Procs \X {"backup"} \X Clients
=============================================================================
