-------------------------- MODULE MCRevisionHistory --------------------------
(* Small instances of RevisionHistory. *)
EXTENDS RevisionHistory, TLC

OneOrTwo == [s \in Specs |-> IF s = "a" THEN 1 ELSE 2]

TwoBuilds == ("old" :> "json1" @@ "new" :> "json2")
=============================================================================
