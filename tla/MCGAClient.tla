----------------------------- MODULE MCGAClient -----------------------------
(* Instances of GAClient for TLC: the tree of MCTreeBackup.                *)
EXTENDS GAClient, TLC

SmallNames == {"/", "d", "x", "f"}
SmallParent == "/" :> "/" @@ "d" :> "/" @@ "x" :> "d" @@ "f" :> "/"
SmallAbove ==
  "/" :> {"/"} @@ "d" :> {"d", "/"} @@ "x" :> {"x", "d", "/"} @@ "f" :> {"f", "/"}

(* Every path keeps its kind, or d may also become a file.                 *)
FixedKinds == "/" :> {"dir"} @@ "d" :> {"dir"} @@ "x" :> {"file"} @@ "f" :> {"file"}
LooseKinds == "/" :> {"dir"} @@ "d" :> {"dir", "file"} @@ "x" :> {"file"} @@ "f" :> {"file"}

(* x is written twice, or deleted and created again; or f is created next  *)
(* to d.  Not while a backup runs: TreeBackup has that, and directory      *)
(* objects are the same whatever the version of a file.  After the last    *)
(* backup nothing is written any more.                                     *)
FewChanges ==
  /\ version["d"] <= 1 /\ version["f"] <= 1
  /\ version["x"] = 0 \/ version["f"] = 0
  /\ pc # "idle" \/ backups = MaxBackups => version = since

RootAndD == {"/", "d"}
=============================================================================
