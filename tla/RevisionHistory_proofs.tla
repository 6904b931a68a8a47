----------------------- MODULE RevisionHistory_proofs -----------------------
(***************************************************************************)
(* Proofs about RevisionHistory, for any number of controllers, builds,    *)
(* specs and generations: the types, that a ControllerRevision tells the   *)
(* truth about the generation it names, and that the current one is kept.  *)
(***************************************************************************)
EXTENDS RevisionHistory, FiniteSetTheorems, TLAPS

(* The generation a controller has cached is one the user wrote. *)
SeenWritten == \A c \in Controllers : seen[c] \in 1..Len(written)

IInv == TypeOK /\ SeenWritten /\ Truthful

(* What a call of syncHandler does to the ControllerRevisions: it removes  *)
(* some, and may add the snapshot of the cached spec under the cached      *)
(* generation.                                                             *)
LEMMA SyncEffect ==
    ASSUME IInv, NEW c \in Controllers, Sync(c)
    PROVE  /\ UNCHANGED <<written, seen, revsC, running, nudges>>
           /\ lagging' \subseteq Controllers /\ queued' \subseteq Controllers
           /\ \A v \in revs' : \/ v \in revs
                               \/ /\ v \in Revisions
                                  /\ v.revision = seen[c] /\ v.spec = written[seen[c]]
<1>1. seen[c] \in Nat /\ seen[c] \in 1..Len(written) /\ written[seen[c]] \in Specs
  BY DEF IInv, TypeOK, SeenWritten
<1>2. /\ UNCHANGED <<written, seen, revsC, running, nudges>>
      /\ lagging' \subseteq Controllers
  BY DEF Sync, Completes, Breaks, IInv, TypeOK
<1>3. queued' \subseteq Controllers
  BY DEF Sync, Completes, Breaks, SyncCreates, SyncTrims, SyncStops, SyncTrimFails, IInv, TypeOK
<1>4. CASE SyncCreates(c)
  <2>1. PICK n \in NewId :
          revs' = (revs \ Outdated(c, {})) \cup
                    {[id |-> n, revision |-> seen[c], spec |-> Snapshot(c).spec,
                      codec |-> Snapshot(c).codec]}
    BY <1>4 DEF SyncCreates
  <2>2. n \in 1..Ids
    BY <2>1 DEF NewId
  <2>3. Snapshot(c).spec = written[seen[c]] /\ Snapshot(c).codec \in {Codec[d] : d \in Controllers}
    BY DEF Snapshot
  <2> QED BY <1>1, <1>2, <1>3, <2>1, <2>2, <2>3 DEF Revisions
<1>5. CASE SyncTrims(c) \/ SyncStops(c) \/ SyncTrimFails(c)
  BY <1>2, <1>3, <1>5 DEF SyncTrims, SyncStops, SyncTrimFails
<1> QED BY <1>4, <1>5 DEF Sync, Completes, Breaks

LEMMA InitIInv == Init => IInv
<1> SUFFICES ASSUME Init PROVE IInv
  OBVIOUS
<1>1. PICK spec \in Specs : written = <<spec>>
  BY DEF Init
<1>2. written \in Seq(Specs) /\ Len(written) = 1 /\ written # <<>>
  BY <1>1
<1> QED BY <1>2, RevisionAssumption DEF Init, IInv, TypeOK, SeenWritten, Truthful, RevisionAssumption

LEMMA NextIInv == IInv /\ [Next]_vars => IInv'
<1> SUFFICES ASSUME IInv, [Next]_vars PROVE IInv'
  OBVIOUS
<1> USE DEF IInv
<1>1. CASE Edit
  <2>1. PICK spec \in Specs : written' = Append(written, spec)
    BY <1>1 DEF Edit
  <2>2. /\ written' \in Seq(Specs) /\ written' # <<>> /\ Len(written') = Len(written) + 1
        /\ \A g \in 1..Len(written) : written'[g] = written[g]
    BY <2>1 DEF TypeOK
  <2>3. Len(written) \in Nat
    BY DEF TypeOK
  <2>4. TypeOK' /\ SeenWritten'
    BY <1>1, <2>2, <2>3 DEF Edit, TypeOK, SeenWritten
  <2>5. Truthful'
    <3> SUFFICES ASSUME NEW v \in revs'
                 PROVE  v.revision \in 1..Len(written') /\ v.spec = written'[v.revision]
      BY DEF Truthful
    <3>1. v \in revs
      BY <1>1 DEF Edit
    <3>2. v.revision \in 1..Len(written) /\ v.spec = written[v.revision]
      BY <3>1 DEF Truthful
    <3> QED BY <2>2, <2>3, <3>2
  <2> QED BY <2>4, <2>5
<1>2. ASSUME NEW c \in Controllers, Sync(c)
      PROVE  IInv'
  <2>1. SeenWritten' /\ Truthful'
    BY <1>2, SyncEffect DEF SeenWritten, Truthful
  <2>2. revs' \subseteq Revisions
    BY <1>2, SyncEffect DEF TypeOK
  <2>3. TypeOK'
    BY <1>2, <2>2, SyncEffect DEF TypeOK
  <2> QED BY <2>1, <2>3
<1>3. ASSUME NEW c \in Controllers, RefreshRelease(c)
      PROVE  IInv'
  <2>1. PICK g \in seen[c] + 1 .. Len(written) : seen' = [seen EXCEPT ![c] = g]
    BY <1>3 DEF RefreshRelease
  <2>2. seen[c] \in Nat /\ Len(written) \in Nat
    BY DEF TypeOK
  <2>3. g \in 1..Len(written) /\ g \in Nat
    BY <2>1, <2>2
  <2>4. TypeOK'
    BY <1>3, <2>1, <2>3 DEF RefreshRelease, TypeOK
  <2>5. SeenWritten'
    BY <1>3, <2>1, <2>3 DEF RefreshRelease, TypeOK, SeenWritten
  <2> QED BY <1>3, <2>4, <2>5 DEF RefreshRelease, Truthful
<1>4. ASSUME NEW c \in Controllers, RefreshRevisions(c)
      PROVE  IInv'
  BY <1>4 DEF RefreshRevisions, TypeOK, SeenWritten, Truthful
<1>5. ASSUME NEW c \in Controllers, Nudge(c)
      PROVE  IInv'
  BY <1>5 DEF Nudge, TypeOK, SeenWritten, Truthful
<1>6. ASSUME NEW c \in Controllers, Stop(c)
      PROVE  IInv'
  <2>1. 1 \in Nat /\ 1 \in 1..Len(written)
    BY DEF TypeOK
  <2> QED BY <1>6, <2>1 DEF Stop, TypeOK, SeenWritten, Truthful
<1>7. ASSUME NEW c \in Controllers, Restart(c)
      PROVE  IInv'
  <2>1. Len(written) \in Nat /\ Len(written) \in 1..Len(written)
    BY DEF TypeOK
  <2>2. TypeOK'
    BY <1>7, <2>1 DEF Restart, TypeOK
  <2>3. SeenWritten' /\ Truthful'
    BY <1>7, <2>1 DEF Restart, TypeOK, SeenWritten, Truthful
  <2> QED BY <2>2, <2>3
<1>8. CASE UNCHANGED vars
  BY <1>8 DEF vars, TypeOK, SeenWritten, Truthful
<1> QED BY <1>1, <1>2, <1>3, <1>4, <1>5, <1>6, <1>7, <1>8 DEF Next

(* Every variable of the history keeps its type. *)
THEOREM RevisionTypeCorrect == Spec => []TypeOK
<1>1. IInv => TypeOK
  BY DEF IInv
<1> QED BY <1>1, InitIInv, NextIInv, PTL DEF Spec

(* However many controllers overlap, however stale their caches and        *)
(* however they encode a spec, a ControllerRevision holds what the user    *)
(* wrote at its generation: a rollback cannot restore anything else.       *)
THEOREM AlwaysTruthful == Spec => []Truthful
<1>1. IInv => Truthful
  BY DEF IInv
<1> QED BY <1>1, InitIInv, NextIInv, PTL DEF Spec

-----------------------------------------------------------------------------
(* KeepsCurrent.  What the end of a call deletes is counted, so the        *)
(* history of a controller must be finite: calls add one at a time.        *)

FiniteHistory == IsFiniteSet(revs) /\ \A c \in Controllers : IsFiniteSet(revsC[c])

LEMMA SyncFinite ==
    ASSUME IsFiniteSet(revs), NEW c \in Controllers, Sync(c)
    PROVE  IsFiniteSet(revs')
<1>1. CASE SyncCreates(c)
  <2>1. PICK v : revs' = (revs \ Outdated(c, {})) \cup {v}
    BY <1>1 DEF SyncCreates
  <2>2. IsFiniteSet(revs \ Outdated(c, {}))
    BY FS_Subset
  <2> QED BY <2>1, <2>2, FS_AddElement
<1>2. CASE SyncTrims(c) \/ SyncStops(c) \/ SyncTrimFails(c)
  <2>1. revs' \subseteq revs
    BY <1>2 DEF SyncTrims, SyncStops, SyncTrimFails
  <2> QED BY <2>1, FS_Subset
<1> QED BY <1>1, <1>2 DEF Sync, Completes, Breaks

LEMMA NextFinite == TypeOK /\ FiniteHistory /\ [Next]_vars => FiniteHistory'
<1> SUFFICES ASSUME TypeOK, FiniteHistory, [Next]_vars PROVE FiniteHistory'
  OBVIOUS
<1>1. ASSUME NEW c \in Controllers, Sync(c) PROVE FiniteHistory'
  BY <1>1, SyncFinite DEF FiniteHistory, Sync, Completes, Breaks
<1>2. ASSUME NEW c \in Controllers, NEW V \in SUBSET revs, revsC' = [revsC EXCEPT ![c] = V],
             UNCHANGED revs
      PROVE  FiniteHistory'
  <2>1. IsFiniteSet(V) /\ IsFiniteSet({})
    BY FS_Subset, FS_EmptySet DEF FiniteHistory
  <2> QED BY <1>2, <2>1 DEF FiniteHistory, TypeOK
<1>3. ASSUME NEW c \in Controllers, RefreshRevisions(c) \/ Restart(c) \/ Stop(c) PROVE FiniteHistory'
  <2>1. revs \in SUBSET revs /\ {} \in SUBSET revs
    OBVIOUS
  <2> QED BY <1>2, <1>3, <2>1 DEF RefreshRevisions, Restart, Stop
<1>4. ASSUME UNCHANGED <<revs, revsC>> PROVE FiniteHistory'
  BY <1>4 DEF FiniteHistory
<1>5. ASSUME NEW c \in Controllers, RefreshRelease(c) \/ Nudge(c) PROVE FiniteHistory'
  BY <1>4, <1>5 DEF RefreshRelease, Nudge
<1>6. CASE Edit \/ UNCHANGED vars
  BY <1>4, <1>6 DEF Edit, vars
<1> QED BY <1>1, <1>3, <1>5, <1>6 DEF Next

(* What is beyond the limit never holds the current revision: it is the    *)
(* youngest of those counted, and one at least is within the limit.        *)
LEMMA ExcessSparesCurrent ==
    ASSUME TypeOK, FiniteHistory, SeenWritten, \A s \in Specs : Limit[s] > 0,
           NEW c \in Controllers, NEW v \in Current(c), NEW X \in Excess(c, {v})
    PROVE  v \notin X
<1> DEFINE rows == Older(c) \cup {v}
           room == Limit[written[seen[c]]]
<1>1. room \in Nat /\ room > 0
  <2>1. written[seen[c]] \in Specs
    BY DEF TypeOK, SeenWritten
  <2> QED BY <2>1, RevisionAssumption
<1>2. IsFiniteSet(rows) /\ Cardinality(rows) \in Nat
  <2>1. rows \subseteq revsC[c]
    BY DEF Older, Current
  <2> QED BY <2>1, FS_Subset, FS_CardinalityType DEF FiniteHistory
<1>3. /\ X \subseteq rows
      /\ Cardinality(X) = IF Cardinality(rows) <= room THEN 0 ELSE Cardinality(rows) - room
      /\ \A x \in X, w \in rows \ X : x.revision <= w.revision
  BY DEF Excess
<1> HIDE DEF room
<1>4. SUFFICES ASSUME v \in X PROVE FALSE
  OBVIOUS
<1>5. v.revision = seen[c] /\ \A w \in Older(c) : w.revision < v.revision
  BY DEF Current, Older
<1>6. \A w \in Older(c) : w.revision \in Nat
  BY DEF Older, TypeOK, Revisions
<1>7. v.revision \in Nat
  BY <1>5 DEF TypeOK
<1>8. \A w \in rows \ X : FALSE
  BY <1>3, <1>4, <1>5, <1>6, <1>7
<1>9. X = rows
  BY <1>3, <1>8
<1>10. Cardinality(X) = 0 /\ Cardinality(rows) <= room
  BY <1>1, <1>2, <1>3, <1>9
<1>11. X = {}
  BY <1>2, <1>9, <1>10, FS_EmptySet
<1> QED BY <1>4, <1>11

LEMMA SyncKeepsCurrent ==
    ASSUME TypeOK, FiniteHistory, SeenWritten, \A s \in Specs : Limit[s] > 0,
           NEW c \in Controllers, Sync(c), revsC[c] = revs, Current(c) # {}
    PROVE  revs' \cap Current(c) # {}
<1>1. \A K \in Kept(c) : \E v \in Current(c) : K = {v}
  BY DEF Kept
<1>2. \A v \in Current(c) : v \in revs /\ v \notin Outdated(c, {v})
  BY DEF Current, Outdated
<1>3. \A v \in Current(c) : \A X \in Excess(c, {v}) : v \notin X
  BY ExcessSparesCurrent
<1>4. CASE SyncStops(c)
  <2>1. PICK v \in Current(c) : \E D \in SUBSET Outdated(c, {v}) : revs' = revs \ D
    BY <1>1, <1>4 DEF SyncStops
  <2> QED BY <1>2, <2>1
<1>5. CASE SyncTrims(c)
  <2>1. PICK v \in Current(c) : \E X \in Excess(c, {v}) : revs' = revs \ (Outdated(c, {v}) \cup X)
    BY <1>1, <1>5 DEF SyncTrims
  <2> QED BY <1>2, <1>3, <2>1
<1>6. CASE SyncTrimFails(c)
  <2>1. PICK v \in Current(c) : \E X \in Excess(c, {v}) : \E D \in SUBSET X :
          revs' = revs \ (Outdated(c, {v}) \cup D)
    <3>1. PICK K \in Kept(c) : \E X \in Excess(c, K) : \E D \in SUBSET X :
            revs' = revs \ (Outdated(c, K) \cup D)
      BY <1>6 DEF SyncTrimFails
    <3> QED BY <1>1, <3>1
  <2> QED BY <1>2, <1>3, <2>1
<1>7. ~SyncCreates(c)
  BY DEF SyncCreates
<1> QED BY <1>4, <1>5, <1>6, <1>7 DEF Sync, Completes, Breaks

(* With a limit of one or more, a call that reads what is there never      *)
(* deletes the only revision of the current spec, be it among duplicates   *)
(* or at the end of a history that is too long.                            *)
THEOREM AlwaysKeepsCurrent ==
    ASSUME \A s \in Specs : Limit[s] > 0
    PROVE  Spec => KeepsCurrent
<1> DEFINE Keeps == \A c \in Controllers :
      Sync(c) /\ revsC[c] = revs /\ Current(c) # {} => revs' \cap Current(c) # {}
<1>1. Init => FiniteHistory
  BY FS_EmptySet DEF Init, FiniteHistory
<1>2. IInv /\ FiniteHistory => [Keeps]_vars
  BY SyncKeepsCurrent DEF IInv
<1>3. IInv => TypeOK
  BY DEF IInv
<1> QED BY <1>1, <1>2, <1>3, InitIInv, NextIInv, NextFinite, PTL DEF Spec, KeepsCurrent
=============================================================================
