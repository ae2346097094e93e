---------------------------- MODULE MCTreeBackup ----------------------------
(* Instances of TreeBackup for TLC: /, /d, /d/x and /f.                    *)
EXTENDS TreeBackup, TLC

SmallNames == {"/", "d", "x", "f"}
SmallParent == "/" :> "/" @@ "d" :> "/" @@ "x" :> "d" @@ "f" :> "/"
SmallAbove ==
  "/" :> {"/"} @@ "d" :> {"d", "/"} @@ "x" :> {"x", "d", "/"} @@ "f" :> {"f", "/"}

(* Every path keeps its kind, or d may also become a file.                 *)
FixedKinds == "/" :> {"dir"} @@ "d" :> {"dir"} @@ "x" :> {"file"} @@ "f" :> {"file"}
LooseKinds == "/" :> {"dir"} @@ "d" :> {"dir", "file"} @@ "x" :> {"file"} @@ "f" :> {"file"}

RootAndD == {"/", "d"}
=============================================================================
