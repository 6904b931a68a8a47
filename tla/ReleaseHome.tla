----------------------------- MODULE ReleaseHome -----------------------------
(***************************************************************************)
(* What the release controller promises about the objects it makes for a   *)
(* Release, whatever it reads and however its calls end: they live in one  *)
(* namespace at a time, the home the status names; they are made only      *)
(* while the Released finalizer holds the Release; the home changes, and   *)
(* the Release goes, only once none of them is left.                       *)
(***************************************************************************)
CONSTANT Object     \* the Secrets and Deployments, told apart by kind and name

VARIABLES
    life,           \* "new", "held" by the finalizer, or "gone"
    home,           \* the namespace of the deployer status, "" at first
    owned           \* the objects there are, each with the namespace it is in

Homes == {"system", "user"}

Init == life = "new" /\ home = "" /\ owned = {}

Hold == life = "new" /\ life' = "held" /\ UNCHANGED <<home, owned>>

Move == /\ life = "held"
        /\ home' \in Homes
        /\ owned' = {}
        /\ UNCHANGED life

Create == /\ life = "held" /\ home \in Homes
          /\ \E o \in Object : owned' = owned \cup {<<o, home>>}
          /\ UNCHANGED <<life, home>>

Remove == /\ owned' \subseteq owned
          /\ UNCHANGED <<life, home>>

Go == /\ life \in {"new", "held"}
      /\ life' = "gone"
      /\ owned' = {}
      /\ UNCHANGED home

Next == Hold \/ Move \/ Create \/ Remove \/ Go

Spec == Init /\ [][Next]_<<life, home, owned>>
=============================================================================
