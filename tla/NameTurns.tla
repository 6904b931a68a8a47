------------------------------ MODULE NameTurns ------------------------------
(***************************************************************************)
(* What the calendar promises about events of the same name (event.go,     *)
(* acquireLease): their pipelines do not interleave.  An event makes runs  *)
(* only when every other event of its name that made any is over, and one  *)
(* that is over makes no more; nobody is over and then not.  So the runs   *)
(* of a name are those of one event, then those of another.                *)
(***************************************************************************)
CONSTANTS Event, Label, Pipeline

VARIABLES
  label,   \* the name of each event
  made,    \* the pipelines each event has made a run for
  over     \* the events that have been led through, stopped, or deleted

vars == <<label, made, over>>

Begun(e) == made[e] # {}
Turn(e) == \A f \in Event : f # e /\ label[f] = label[e] /\ Begun(f) => f \in over

Init == /\ label \in [Event -> Label]
        /\ made = [e \in Event |-> {}] /\ over \in SUBSET Event

Make(e, p) ==
  /\ e \notin over /\ p \notin made[e] /\ Turn(e)
  /\ made' = [made EXCEPT ![e] = @ \cup {p}]
  /\ UNCHANGED <<label, over>>

End(e) == /\ e \notin over /\ over' = over \cup {e}
          /\ UNCHANGED <<label, made>>

(* The runs of an event go with it. *)
Delete(e) == /\ over' = over \cup {e} /\ made' = [made EXCEPT ![e] = {}]
             /\ UNCHANGED label

Next == \E e \in Event : End(e) \/ Delete(e) \/ \E p \in Pipeline : Make(e, p)

Spec == Init /\ [][Next]_vars
=============================================================================
