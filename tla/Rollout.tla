------------------------------- MODULE Rollout -------------------------------
(***************************************************************************)
(* What a worker pod promises about a revision that only moves forward (a  *)
(* branch nobody rewinds): git-sync's link is a register that goes from    *)
(* tree to tree in the order of the commits; what is applied was in the    *)
(* register, and never goes back; of a tree only a part is applied if the  *)
(* register has moved on; a commit is reported once it, or a later one, is *)
(* applied; and if no call of the webhook comes late, reports do not go    *)
(* back either.  Commits are numbered in the order in which the revision   *)
(* resolved to them; 0 is none.                                            *)
(***************************************************************************)
EXTENDS Naturals

VARIABLES
    mode,       \* [rewinds, late : BOOLEAN, ...]: nothing is promised of a
                \* revision that rewinds; calls of the webhook may come late
    tip,        \* the commit the revision resolves to
    linked,     \* the commit of the tree the link leads to
    applied,    \* the commit of what is live; 0 also if a Run ended early
    part,       \* a part of that commit's tree has been applied as the whole
    reported    \* status.commit

Init == tip = 1 /\ linked = 0 /\ applied = 0 /\ part = FALSE /\ reported = 0

Push == tip' = tip + 1 /\ UNCHANGED <<linked, applied, part, reported>>

Follow == /\ linked' \in linked + 1 .. tip
          /\ UNCHANGED <<tip, applied, part, reported>>

Apply == /\ applied' \in 1 .. linked
         /\ applied' >= applied /\ applied' >= reported
         /\ part' \in BOOLEAN /\ (part' => applied' < linked)
         /\ UNCHANGED <<tip, linked, reported>>

Break == applied' = 0 /\ part' = FALSE /\ UNCHANGED <<tip, linked, reported>>

Report == /\ reported' \in 1 .. applied
          /\ ~mode.late => reported' >= reported
          /\ UNCHANGED <<tip, linked, applied, part>>

Next == /\ mode' = mode
        /\ mode.rewinds \/ Push \/ Follow \/ Apply \/ Break \/ Report

Spec == Init /\ [][Next]_<<mode, tip, linked, applied, part, reported>>
=============================================================================
