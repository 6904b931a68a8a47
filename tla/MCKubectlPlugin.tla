--------------------------- MODULE MCKubectlPlugin ---------------------------
(* Small clusters for KubectlPlugin, and the checks of what it renders with. *)
EXTENDS KubectlPlugin, MCRenderValues

Obj(kind, ns, name) == [kind |-> kind, ns |-> ns, name |-> name]
a1 == Obj("Deployment", "n", "a1")
a2 == Obj("Deployment", "n", "a2")
b1 == Obj("StatefulSet", "n", "b1")
b2 == Obj("StatefulSet", "n", "b2")
c1 == Obj("ConfigMap", "n", "c1")
Five == {a1, a2, b1, b2, c1}

(* One that leaves and comes back; one replaced by another; one that is to *)
(* be skipped when it leaves; and the last of its kind that leaves.        *)
Returns == <<{a1, a2}, {a1}, {a1, a2}>>
Replaced == <<{a1, b1}, {a2, b1}>>
Skips == <<{b1, b2}, {b1}>>
LastLeaves == <<{b1, c1}, {b1}>>
Four == {Returns, Replaced, Skips, LastLeaves}

SkipB2 == {<<"StatefulSet", "n", "b2">>}
=============================================================================
