------------------------- MODULE MCReleaseController -------------------------
(* Small instances of ReleaseController: what a user may write. *)
EXTENDS ReleaseController, TLC

Spec1(work, conf) == [work |-> work, conf |-> conf, reconcile |-> FALSE, disabled |-> FALSE]

OneSpec == {Spec1("w1", "c1")}
NewWork == {Spec1("w1", "c1"), Spec1("w2", "c1")}
Disable == {Spec1("w1", "c1"), [Spec1("w1", "c1") EXCEPT !.disabled = TRUE]}
Mixed == NewWork \cup Disable
AllSpecs == Mixed \cup {[Spec1("w1", "c1") EXCEPT !.reconcile = TRUE]}

TheRef == {("token" :> "v1")}
AnyRef == {("token" :> "v1"), ("token" :> "v2"), Unusable}
=============================================================================
