--------------------------- MODULE RevisionHistory ---------------------------
(***************************************************************************)
(* The history of a Release's spec, the first stage of syncHandler for a   *)
(* Release that is held by its finalizer, and the last                     *)
(* (src/pkg/controller/release/controller.go): a ControllerRevision per    *)
(* generation, duplicates and invalid ones removed, the oldest trimmed.    *)
(*                                                                         *)
(* Several controllers: the manifest (dev.yaml) runs one replica of a      *)
(* Deployment with the default rolling update and nothing elects a leader, *)
(* so an old and a new process overlap, each with caches and a queue of    *)
(* its own, until the old one is stopped.                                  *)
(*                                                                         *)
(* A call reads its caches once, so it is one step, as in module           *)
(* ReleaseController; the lister returns objects in any order.  What the   *)
(* stages in between do is in ReleaseController: here they let the call    *)
(* through to the trimming (SyncTrims), or end it (SyncStops).             *)
(***************************************************************************)
EXTENDS Integers, Sequences, FiniteSets

CONSTANTS
    Specs,          \* the specs a user may write
    Limit,          \* spec.revisionHistoryLimit of each, the default filled in
    Controllers,    \* the processes that may run at the same time
    Codec,          \* how each of them writes a spec as JSON
    Generations,    \* bound: generations of the Release
    Nudges,         \* bound: events of other objects, replies that are lost, and restarts
    Copies,         \* bound: revisions of one generation there are at a time (a call
                    \* that would create one more waits for the caches)
    Ids             \* bound: names of ControllerRevisions in use at a time

ASSUME RevisionAssumption ==
    /\ Limit \in [Specs -> Nat]
    /\ DOMAIN Codec = Controllers
    /\ Generations \in Nat /\ Nudges \in Nat /\ Copies \in Nat /\ Ids \in Nat

VARIABLES
    written,        \* the specs the user wrote: the generation is the length
    seen,           \* the generation in the informer cache of each controller
    revs,           \* the ControllerRevisions of the Release
    revsC,          \* the same, in the informer cache of each controller
    lagging,        \* controllers with events of ControllerRevisions to come
    queued,         \* controllers with the key of the Release in their queue
    running,        \* controllers that run
    nudges          \* what is left of Nudges

vars == <<written, seen, revs, revsC, lagging, queued, running, nudges>>

Revisions == [id : 1..Ids, revision : Nat, spec : Specs,
              codec : {Codec[c] : c \in Controllers}]

Init ==
    /\ \E spec \in Specs : written = <<spec>>
    /\ seen = [c \in Controllers |-> 1]
    /\ revs = {}
    /\ revsC = [c \in Controllers |-> {}]
    /\ lagging = {}
    /\ queued = Controllers
    /\ running = Controllers
    /\ nudges = Nudges

-----------------------------------------------------------------------------
(* Mutant: the snapshot is of the Release in the API server. *)
Snapshot_Latest(c) == [spec |-> written[Len(written)], codec |-> Codec[c]]

(* Mutant: the snapshot holds more than the spec. *)
Snapshot_Whole(c) == [spec |-> written, codec |-> Codec[c]]

(* snapshot(release): the bytes of the spec, which depend on the build. *)
Snapshot(c) == [spec |-> written[seen[c]], codec |-> Codec[c]]

Data(v) == [spec |-> v.spec, codec |-> v.codec]

Older(c) == {v \in revsC[c] : v.revision < seen[c]}

(* Of those with the bytes of the current spec the first listed is kept. *)
Current(c) == {v \in revsC[c] : v.revision = seen[c] /\ Data(v) = Snapshot(c)}

Kept(c) == IF Current(c) = {} THEN {{}} ELSE {{v} : v \in Current(c)}

(* Mutant: duplicates stay. *)
Outdated_NoDuplicates(c, K) == revsC[c] \ (Older(c) \cup Current(c))

(* What the loop deletes if it keeps K: duplicates, those whose spec is    *)
(* invalid and those beyond the generation.                                *)
Outdated(c, K) == revsC[c] \ (Older(c) \cup K)

(* Mutant: the youngest go first. *)
Excess_Ascending(c, K) ==
    LET rows == Older(c) \cup K
        room == Limit[written[seen[c]]]
    IN {X \in SUBSET rows :
          /\ Cardinality(X) = IF Cardinality(rows) <= room THEN 0 ELSE Cardinality(rows) - room
          /\ \A v \in X, w \in rows \ X : v.revision >= w.revision}

(* What the end of the call deletes: in the order of historiesByRevision,  *)
(* equal revisions in any order, all after the first Limit.                *)
Excess(c, K) ==
    LET rows == Older(c) \cup K
        room == Limit[written[seen[c]]]
    IN {X \in SUBSET rows :
          /\ Cardinality(X) = IF Cardinality(rows) <= room THEN 0 ELSE Cardinality(rows) - room
          /\ \A v \in X, w \in rows \ X : v.revision <= w.revision}

NewId == {n \in 1..Ids :
            LET used == {v.id : v \in revs \cup UNION {revsC[c] : c \in Controllers}}
            IN n \notin used /\ \A m \in (1..Ids) \ used : n <= m}

-----------------------------------------------------------------------------
(* The call ends early, with some of Outdated deleted: a deletion failed    *)
(* (NotFound is an error as well), or a stage in between did, or wrote.     *)
SyncStops(c) ==
    \E K \in Kept(c) : \E D \in SUBSET (Outdated(c, K) \cap revs) :
      /\ D # {}
      /\ revs' = revs \ D
      /\ UNCHANGED queued

(* The trimming goes from new to old and stops at a deletion that fails. *)
SyncTrimFails(c) ==
    \E K \in Kept(c) : \E X \in Excess(c, K) : \E D \in SUBSET (X \cap revs) :
      /\ K # {} /\ Outdated(c, K) \subseteq revs
      /\ D # {} /\ D # X /\ \A v \in D, w \in X \ D : v.revision >= w.revision
      /\ revs' = revs \ (Outdated(c, K) \cup D)
      /\ UNCHANGED queued

SyncCreates(c) ==
    /\ Current(c) = {}
    /\ Outdated(c, {}) \subseteq revs
    /\ Cardinality({v \in revs \ Outdated(c, {}) : v.revision = seen[c]}) < Copies
    /\ \E n \in NewId :
          revs' = (revs \ Outdated(c, {})) \cup
                    {[id |-> n, revision |-> seen[c], spec |-> Snapshot(c).spec,
                      codec |-> Snapshot(c).codec]}
    /\ queued' = queued \ {c}

SyncTrims(c) ==
    \E K \in Kept(c) : \E X \in Excess(c, K) :
      /\ K # {} /\ Outdated(c, K) \cup X \subseteq revs
      /\ revs' = revs \ (Outdated(c, K) \cup X)
      /\ queued' = queued \ {c}

Completes(c) ==
    /\ c \in queued
    /\ SyncCreates(c) \/ SyncTrims(c)
    /\ lagging' = IF revs' = revs THEN lagging ELSE running
    /\ UNCHANGED <<written, seen, revsC, running, nudges>>

Breaks(c) ==
    /\ c \in queued
    /\ SyncStops(c) \/ SyncTrimFails(c)
    /\ lagging' = running
    /\ UNCHANGED <<written, seen, revsC, running, nudges>>

Sync(c) == Completes(c) \/ Breaks(c)

-----------------------------------------------------------------------------
(* Informers, each with a lag of its own; an event puts the key in the     *)
(* queue.                                                                  *)
RefreshRelease(c) ==
    /\ c \in running /\ seen[c] < Len(written)
    /\ \E g \in seen[c] + 1 .. Len(written) : seen' = [seen EXCEPT ![c] = g]
    /\ queued' = queued \cup {c}
    /\ UNCHANGED <<written, revs, revsC, lagging, running, nudges>>

RefreshRevisions(c) ==
    /\ c \in running \cap lagging
    /\ revsC' = [revsC EXCEPT ![c] = revs]
    /\ lagging' = lagging \ {c}
    /\ queued' = queued \cup {c}
    /\ UNCHANGED <<written, seen, revs, running, nudges>>

(* Another event of the Release, or the retry of a write whose reply was   *)
(* lost, the pruning of the conditions among them.                         *)
Nudge(c) ==
    /\ c \in running \ queued
    /\ nudges > 0 /\ nudges' = nudges - 1
    /\ queued' = queued \cup {c}
    /\ UNCHANGED <<written, seen, revs, revsC, lagging, running>>

(* The process dies and another takes its place: it lists everything anew,  *)
(* but Run waits for the other caches only, not for that of the            *)
(* ControllerRevisions, which may hold any part of them at the first call. *)
Restart(c) ==
    /\ c \in running
    /\ nudges > 0 /\ nudges' = nudges - 1
    /\ seen' = [seen EXCEPT ![c] = Len(written)]
    /\ \E V \in SUBSET revs :
         /\ revsC' = [revsC EXCEPT ![c] = V]
         /\ lagging' = IF V = revs THEN lagging \ {c} ELSE lagging \cup {c}
    /\ queued' = queued \cup {c}
    /\ UNCHANGED <<written, revs, running>>

(* The rolling update stops the old process, whose caches and queue go. *)
Stop(c) ==
    /\ c \in running /\ running # {c}
    /\ running' = running \ {c}
    /\ seen' = [seen EXCEPT ![c] = 1] /\ revsC' = [revsC EXCEPT ![c] = {}]
    /\ lagging' = lagging \ {c} /\ queued' = queued \ {c}
    /\ UNCHANGED <<written, revs, nudges>>

Edit ==
    /\ Len(written) < Generations
    /\ \E spec \in Specs \ {written[Len(written)]} : written' = Append(written, spec)
    /\ UNCHANGED <<seen, revs, revsC, lagging, queued, running, nudges>>

Next ==
    \/ Edit
    \/ \E c \in Controllers :
         Sync(c) \/ RefreshRelease(c) \/ RefreshRevisions(c)
         \/ Nudge(c) \/ Restart(c) \/ Stop(c)

Spec == Init /\ [][Next]_vars

(* A call that keeps being possible gets to its end; informers catch up;   *)
(* an overlap ends.                                                        *)
Fairness ==
    \A c \in Controllers :
      /\ SF_vars(Completes(c))
      /\ WF_vars(RefreshRelease(c)) /\ WF_vars(RefreshRevisions(c)) /\ WF_vars(Stop(c))

FairSpec == Spec /\ Fairness

-----------------------------------------------------------------------------
TypeOK ==
    /\ written \in Seq(Specs) /\ written # <<>>
    /\ seen \in [Controllers -> Nat]
    /\ revs \subseteq Revisions
    /\ revsC \in [Controllers -> SUBSET Revisions]
    /\ lagging \subseteq Controllers /\ queued \subseteq Controllers
    /\ running \subseteq Controllers /\ nudges \in Nat

(* A rollback goes to what was written: however stale the controllers, a   *)
(* ControllerRevision holds the spec the user wrote at that generation.    *)
Truthful ==
    \A v \in revs : v.revision \in 1..Len(written) /\ v.spec = written[v.revision]

(* A call that reads what is there keeps the revision of the current spec. *)
KeepsCurrent ==
    [][\A c \in Controllers :
         Sync(c) /\ revsC[c] = revs /\ Current(c) # {} => revs' \cap Current(c) # {}]_vars

(* Once nothing changes any more, the controller that is left holds one    *)
(* revision of the current spec, none beyond it, and no more than Limit.   *)
Settled ==
    \E c \in running, v \in revs :
      /\ running = {c}
      /\ {w \in revs : w.revision >= Len(written)} = {v}
      /\ v.spec = written[Len(written)] /\ v.codec = Codec[c]
      /\ Cardinality(revs) <= Limit[written[Len(written)]]

HistorySettles == <>[]Settled
=============================================================================
