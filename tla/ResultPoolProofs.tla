-------------------------- MODULE ResultPoolProofs --------------------------
(***************************************************************************)
(* Proofs about the storage result pool, for every pool size, generation   *)
(* limit and set of results.                                               *)
(***************************************************************************)
EXTENDS ResultPool, FiniteSets, FiniteSetTheorems, SequenceTheorems, TLAPS

\* Every handle that leaves the queue's front was somewhere in the queue, and
\* the rest keep their order: what Tail does to the positions.
LEMMA TailPositions ==
    ASSUME NEW S, NEW q \in Seq(S), q # <<>>
    PROVE  /\ Tail(q) \in Seq(S)
           /\ Head(q) = q[1] /\ Head(q) \in S
           /\ Len(q) \in Nat \ {0}
           /\ Len(Tail(q)) = Len(q) - 1
           /\ \A k \in 1 .. Len(Tail(q)) : Tail(q)[k] = q[k + 1]
  OBVIOUS

\* A result appended to the queue moves none of the others.
LEMMA AppendPositions ==
    ASSUME NEW S, NEW q \in Seq(S), NEW e \in S
    PROVE  /\ Append(q, e) \in Seq(S)
           /\ Len(q) \in Nat
           /\ Len(Append(q, e)) = Len(q) + 1
           /\ Append(q, e)[Len(q) + 1] = e
           /\ \A k \in 1 .. Len(q) : Append(q, e)[k] = q[k]
  OBVIOUS

\* The generation a slot gets is never the 0 of an invalid handle.
LEMMA NextGenerationType ==
    ASSUME NEW g \in 0 .. GenerationLimit - 1
    PROVE  NextGeneration(g) \in 1 .. GenerationLimit - 1
  BY GenerationAssumption DEF NextGeneration

\* The fields of one slot.
LEMMA SlotFields ==
    ASSUME NEW s \in SlotStates
    PROVE  /\ s.references \in Nat /\ s.generation \in 0 .. GenerationLimit - 1
           /\ s.cleanup \in BOOLEAN /\ s.filling \in BOOLEAN
           /\ s.content \in Contents \cup {NoContent}
  BY DEF SlotStates

\* One reference less, and a clean-up owed when it was the last.
LEMMA UnreferencedType ==
    ASSUME NEW s \in SlotStates, s.references > 0
    PROVE  /\ Unreferenced(s) \in SlotStates
           /\ Unreferenced(s).references = s.references - 1
           /\ Unreferenced(s).cleanup <=> s.references = 1 \/ s.cleanup
           /\ Unreferenced(s).generation = s.generation
           /\ Unreferenced(s).filling = s.filling
           /\ Unreferenced(s).content = s.content
<1>0. s.references \in Nat
  BY SlotFields
<1>1. CASE s.references = 1
  <2>1. Unreferenced(s) = [s EXCEPT !.references = 0, !.cleanup = TRUE]
    BY <1>1 DEF Unreferenced
  <2>2. Unreferenced(s) \in SlotStates
    <3>1. [s EXCEPT !.references = 0] \in SlotStates
      BY DEF SlotStates
    <3>2. QED
      BY <2>1, <3>1 DEF SlotStates
  <2>3. Unreferenced(s).references = 0
    BY <2>1 DEF SlotStates
  <2>4. Unreferenced(s).cleanup = TRUE
    BY <2>1 DEF SlotStates
  <2>6. Unreferenced(s).generation = s.generation
    BY <2>1 DEF SlotStates
  <2>8. Unreferenced(s).filling = s.filling
    BY <2>1 DEF SlotStates
  <2>9. Unreferenced(s).content = s.content
    BY <2>1 DEF SlotStates
  <2>5. QED
    BY <1>1, <2>2, <2>3, <2>4, <2>6, <2>8, <2>9
<1>2. CASE s.references # 1
  <2>1. s.references - 1 \in Nat
    BY <1>0
  <2>2. Unreferenced(s) = [s EXCEPT !.references = s.references - 1]
    BY <1>2 DEF Unreferenced
  <2>3. QED
    BY <1>2, <2>1, <2>2 DEF SlotStates
<1>3. QED
  BY <1>1, <1>2

\* Releasing a handle changes its own slot's count and clean-up only.
LEMMA ReleasedSlot ==
    ASSUME TypeOK, NEW h \in Handles \cup {NoHandle}, h # NoHandle => CanRelease(h)
    PROVE  /\ Released(h) \in [Slots -> SlotStates]
           /\ \A i \in Slots :
                 /\ Released(h)[i].references =
                       slot[i].references - One(HeldAt(h, i))
                 /\ Released(h)[i].cleanup =>
                       \/ Released(h)[i].references = 0
                       \/ slot[i].cleanup /\ One(HeldAt(h, i)) = 0
                 /\ Released(h)[i].generation = slot[i].generation
                 /\ Released(h)[i].filling = slot[i].filling
                 /\ Released(h)[i].content = slot[i].content
<1>0. \A i \in Slots : slot[i].references \in Nat
  BY SlotFields DEF TypeOK
<1>1. CASE h = NoHandle
  <2>1. Released(h) = slot
    BY <1>1 DEF Released, CanRelease
  <2>2. \A i \in Slots : One(HeldAt(h, i)) = 0
    BY <1>1 DEF One, HeldAt
  <2>3. QED
    BY <1>0, <2>1, <2>2 DEF TypeOK
<1>2. CASE h # NoHandle
  <2>1. h \in Handles /\ h.index \in Slots /\ CanRelease(h)
    BY <1>2 DEF Handles
  <2>2. /\ slot \in [Slots -> SlotStates]
        /\ slot[h.index] \in SlotStates
        /\ slot[h.index].references \in Nat
    BY <2>1, SlotFields DEF TypeOK
  <2>3. Released(h) = [slot EXCEPT ![h.index] = Unreferenced(slot[h.index])]
    BY <2>1 DEF Released
  <2>4. Unreferenced(slot[h.index]) \in SlotStates
    BY <2>1, <2>2, UnreferencedType DEF CanRelease
  <2>5. Released(h) \in [Slots -> SlotStates]
    BY <2>2, <2>3, <2>4
  <2>6. ASSUME NEW i \in Slots, i # h.index
        PROVE  Released(h)[i] = slot[i] /\ One(HeldAt(h, i)) = 0
    BY <2>2, <2>3, <2>6 DEF One, HeldAt
  <2>7. Released(h)[h.index] = Unreferenced(slot[h.index]) /\ One(HeldAt(h, h.index)) = 1
    BY <1>2, <2>1, <2>2, <2>3 DEF One, HeldAt
  <2>8. \A i \in Slots : slot[i].references \in Nat
    BY <2>2, SlotFields
  <2>9. ASSUME NEW i \in Slots
        PROVE  /\ Released(h)[i].references =
                         slot[i].references - One(HeldAt(h, i))
               /\ Released(h)[i].cleanup =>
                     \/ Released(h)[i].references = 0
                     \/ slot[i].cleanup /\ One(HeldAt(h, i)) = 0
               /\ Released(h)[i].generation = slot[i].generation
               /\ Released(h)[i].filling = slot[i].filling
               /\ Released(h)[i].content = slot[i].content
    <3>1. CASE i = h.index
      BY <2>1, <2>2, <2>7, <3>1, UnreferencedType DEF CanRelease
    <3>2. CASE i # h.index
      BY <2>6, <2>8, <3>2
    <3>3. QED
      BY <3>1, <3>2
  <2>10. QED
    BY <2>5, <2>9
<1>3. QED
  BY <1>1, <1>2

\* Every handle in circulation names a slot.
LEMMA HandleIndex ==
    ASSUME TypeOK
    PROVE  /\ \A k \in 1 .. Len(queue) : queue[k] \in Handles /\ queue[k].index \in Slots
           /\ mine # NoHandle => mine.index \in Slots
           /\ owner # NoHandle => owner.index \in Slots
           /\ kept # NoHandle => kept.index \in Slots
<1>1. \A h \in Handles : h.index \in Slots
  BY DEF Handles
<1>2. \A k \in 1 .. Len(queue) : queue[k] \in Handles
  BY DEF TypeOK
<1>3. QED
  BY <1>1, <1>2 DEF TypeOK

\* A handle the main loop holds can be released.
LEMMA HeldReleasable ==
    ASSUME PoolInv, NEW h \in {owner, kept}, h # NoHandle
    PROVE  h \in Handles /\ CanRelease(h) /\ Resolves(h)
<1>1. h \in Handles /\ h.index \in Slots
  BY DEF PoolInv, TypeOK, Handles
<1>2. slot[h.index].references = Users(h.index)
  BY <1>1 DEF PoolInv, RefsExact
<1>3. Users(h.index) > 0
  BY DEF Users, One, HeldAt
<1>4. Finished(h)
  BY DEF PoolInv, HandedFinished
<1>5. ~ slot[h.index].cleanup
  BY <1>1, <1>2, <1>3 DEF PoolInv, CleanUpUnused
<1>6. QED
  BY <1>1, <1>2, <1>3, <1>4, <1>5 DEF CanRelease, Resolves, Finished

-----------------------------------------------------------------------------
\* At start-up no slot is used and no handle is out.
LEMMA InitPoolInv == Init => PoolInv
<1> SUFFICES ASSUME Init PROVE PoolInv
  OBVIOUS
<1> USE DEF Init
<1>1. TypeOK
  BY GenerationAssumption, PoolSizeAssumption DEF TypeOK, SlotStates
<1>2. RefsExact
  BY DEF RefsExact, Users, HeldAt, QueuedAt, One
<1>3. WorkerHolds /\ MainHolds /\ HandedFinished /\ NoAlias /\ CleanUpUnused
  BY DEF WorkerHolds, MainHolds, HandedFinished, NoAlias, CleanUpUnused,
         HeldAt, QueuedAt
<1>4. QED
  BY <1>1, <1>2, <1>3 DEF PoolInv

-----------------------------------------------------------------------------
(* The worker's steps.                                                     *)

\* The search for a slot begins at the first.
LEMMA StartAcquireStep == PoolInv /\ StartAcquire => PoolInv'
<1> SUFFICES ASSUME PoolInv, StartAcquire PROVE PoolInv'
  OBVIOUS
<1> USE DEF StartAcquire, mainVars
<1>1. TypeOK'
  BY PoolSizeAssumption DEF PoolInv, TypeOK
<1>2. RefsExact'
  BY DEF PoolInv, RefsExact, Users, One, HeldAt, QueuedAt
<1>3. WorkerHolds' /\ MainHolds' /\ HandedFinished' /\ NoAlias' /\ CleanUpUnused'
  BY DEF PoolInv, WorkerHolds, MainHolds, HandedFinished, Finished, NoAlias,
         CleanUpUnused, HeldAt, QueuedAt
<1>4. QED
  BY <1>1, <1>2, <1>3 DEF PoolInv

\* A slot in use is passed over unchanged.
LEMMA SkipBusySlotStep == PoolInv /\ SkipBusySlot => PoolInv'
<1> SUFFICES ASSUME PoolInv, SkipBusySlot PROVE PoolInv'
  OBVIOUS
<1> USE DEF SkipBusySlot, mainVars
<1>1. TypeOK'
  BY PoolSizeAssumption DEF PoolInv, TypeOK
<1>2. RefsExact'
  BY DEF PoolInv, RefsExact, Users, One, HeldAt, QueuedAt
<1>3. WorkerHolds' /\ MainHolds' /\ HandedFinished' /\ NoAlias' /\ CleanUpUnused'
  BY DEF PoolInv, WorkerHolds, MainHolds, HandedFinished, Finished, NoAlias,
         CleanUpUnused, HeldAt, QueuedAt
<1>4. QED
  BY <1>1, <1>2, <1>3 DEF PoolInv

\* A request without a slot is dropped and leaves the pool as it was.
LEMMA PoolExhaustedStep == PoolInv /\ PoolExhausted => PoolInv'
<1> SUFFICES ASSUME PoolInv, PoolExhausted PROVE PoolInv'
  OBVIOUS
<1> USE DEF PoolExhausted, mainVars
<1>1. TypeOK'
  BY DEF PoolInv, TypeOK
<1>2. RefsExact'
  BY DEF PoolInv, RefsExact, Users, One, HeldAt, QueuedAt
<1>3. WorkerHolds' /\ MainHolds' /\ HandedFinished' /\ NoAlias' /\ CleanUpUnused'
  BY DEF PoolInv, WorkerHolds, MainHolds, HandedFinished, Finished, NoAlias,
         CleanUpUnused, HeldAt, QueuedAt
<1>4. QED
  BY <1>1, <1>2, <1>3 DEF PoolInv

\* A slot is cleaned only after its last user has gone.
LEMMA CleanUpStep == PoolInv /\ CleanUp => PoolInv'
<1> SUFFICES ASSUME PoolInv, CleanUp PROVE PoolInv'
  OBVIOUS
<1> USE DEF CleanUp, workerVars, mainVars
<1>1. at \in Slots /\ slot \in [Slots -> SlotStates]
  BY PoolSizeAssumption DEF PoolInv, TypeOK, Slots
<1>2. slot[at] \in SlotStates
  BY <1>1
<1>3. /\ slot' \in [Slots -> SlotStates]
      /\ slot'[at].references = slot[at].references
      /\ slot'[at].generation = slot[at].generation
      /\ slot'[at].cleanup = FALSE
      /\ \A i \in Slots \ {at} : slot'[i] = slot[i]
  <2> DEFINE emptied == [slot[at] EXCEPT !.content = NoContent]
             still == [emptied EXCEPT !.filling = FALSE]
             clean == [still EXCEPT !.cleanup = FALSE]
  <2>1. /\ emptied \in SlotStates
        /\ emptied.references = slot[at].references
        /\ emptied.generation = slot[at].generation
    BY <1>2 DEF SlotStates
  <2>2. /\ still \in SlotStates
        /\ still.references = slot[at].references
        /\ still.generation = slot[at].generation
    BY <2>1 DEF SlotStates
  <2>3. /\ clean \in SlotStates
        /\ clean.references = slot[at].references
        /\ clean.generation = slot[at].generation
        /\ clean.cleanup = FALSE
    BY <2>2 DEF SlotStates
  <2>4. slot' = [slot EXCEPT ![at] = clean]
    OBVIOUS
  <2> HIDE DEF clean
  <2>5. QED
    BY <1>1, <2>3, <2>4
<1>4. \A i \in Slots : slot'[i].references = slot[i].references
  BY <1>3
<1>5. Users(at) = 0
  BY <1>1 DEF PoolInv, RefsExact
<1>6. /\ ~ HeldAt(mine, at) /\ ~ QueuedAt(at)
      /\ ~ HeldAt(owner, at) /\ ~ HeldAt(kept, at)
  BY <1>5 DEF Users, One
<1>7. TypeOK'
  BY <1>3 DEF PoolInv, TypeOK
<1>8. RefsExact'
  <2> SUFFICES ASSUME NEW i \in Slots PROVE slot'[i].references = Users(i)'
    BY DEF RefsExact
  <2>1. slot[i].references = Users(i)
    BY DEF PoolInv, RefsExact
  <2>2. Users(i)' = Users(i)
    BY DEF Users, One, HeldAt, QueuedAt
  <2>3. QED
    BY <1>4, <2>1, <2>2
<1>9. WorkerHolds'
  BY <1>1, <1>3, <1>6, HandleIndex DEF PoolInv, WorkerHolds, HeldAt
<1>10. MainHolds' /\ NoAlias'
  BY DEF PoolInv, MainHolds, NoAlias, HeldAt, QueuedAt
<1>11. HandedFinished'
  <2>1. \A k \in 1 .. Len(queue) : queue[k].index # at
    BY <1>6 DEF QueuedAt
  <2>2. QED
    BY <1>1, <1>3, <1>6, <2>1, HandleIndex
       DEF PoolInv, HandedFinished, Finished, HeldAt
<1>12. CleanUpUnused'
  BY <1>1, <1>3 DEF PoolInv, CleanUpUnused
<1>13. QED
  BY <1>7, <1>8, <1>9, <1>10, <1>11, <1>12 DEF PoolInv

\* A claimed slot has one user, the worker, and a new generation.
LEMMA ClaimSlotStep == PoolInv /\ ClaimSlot => PoolInv'
<1> SUFFICES ASSUME PoolInv, ClaimSlot PROVE PoolInv'
  OBVIOUS
<1> DEFINE g == NextGeneration(slot[at].generation)
           claimed == [generation |-> g, references |-> 1, cleanup |-> FALSE,
                       filling |-> TRUE, content |-> NoContent]
<1>1. /\ wpc = "scanning" /\ wpc' = "filling"
      /\ slot' = [slot EXCEPT ![at] = claimed]
      /\ mine' = [index |-> at, generation |-> g]
      /\ slot[at].references = 0
      /\ UNCHANGED <<queue, at, mpc, owner, kept>>
  BY DEF ClaimSlot, mainVars
<1>2. at \in Slots /\ slot \in [Slots -> SlotStates]
  BY PoolSizeAssumption DEF ClaimSlot, PoolInv, TypeOK, Slots
<1>3. g \in 1 .. GenerationLimit - 1 /\ g \in 0 .. GenerationLimit - 1
  BY <1>2, SlotFields, NextGenerationType, GenerationAssumption
<1>4. claimed \in SlotStates
  BY <1>3 DEF SlotStates
<1>5. mine' \in Handles /\ mine' # NoHandle
  BY <1>1, <1>2, <1>3, HandleAssumption DEF Handles
<1> HIDE DEF g
<1>6. /\ slot' \in [Slots -> SlotStates]
      /\ slot'[at] = claimed
      /\ \A i \in Slots \ {at} : slot'[i] = slot[i]
  BY <1>1, <1>2, <1>4
<1>7. mine = NoHandle
  BY <1>1 DEF PoolInv, WorkerHolds
<1>8. Users(at) = 0
  BY <1>1, <1>2 DEF PoolInv, RefsExact
<1>9. ~ QueuedAt(at) /\ ~ HeldAt(owner, at) /\ ~ HeldAt(kept, at)
  BY <1>8 DEF Users, One
<1>10. \A i \in Slots : QueuedAt(i)' <=> QueuedAt(i)
  BY <1>1 DEF QueuedAt
<1>11. \A i \in Slots : HeldAt(mine, i)' <=> i = at
  BY <1>1, <1>5 DEF HeldAt
<1>12. TypeOK'
  BY <1>1, <1>5, <1>6 DEF PoolInv, TypeOK
<1>13. RefsExact'
  <2> SUFFICES ASSUME NEW i \in Slots PROVE slot'[i].references = Users(i)'
    BY DEF RefsExact
  <2>1. CASE i = at
    BY <1>1, <1>6, <1>9, <1>10, <1>11, <2>1 DEF Users, One, HeldAt
  <2>2. CASE i # at
    <3>1. slot'[i].references = Users(i)
      BY <1>6, <2>2 DEF PoolInv, RefsExact
    <3>2. Users(i)' = Users(i)
      BY <1>1, <1>7, <1>10, <1>11, <2>2 DEF Users, One, HeldAt
    <3>3. QED
      BY <3>1, <3>2
  <2>3. QED
    BY <2>1, <2>2
<1>14. WorkerHolds'
  BY <1>1, <1>5, <1>6 DEF WorkerHolds
<1>15. MainHolds'
  BY <1>1 DEF PoolInv, MainHolds
<1>16. HandedFinished'
  <2>1. \A k \in 1 .. Len(queue) : queue[k].index # at
    BY <1>9 DEF QueuedAt
  <2>2. QED
    BY <1>1, <1>2, <1>6, <1>9, <2>1, HandleIndex
       DEF PoolInv, HandedFinished, Finished, HeldAt
<1>17. NoAlias'
  BY <1>1, <1>9, <1>10, <1>11 DEF PoolInv, NoAlias, HeldAt
<1>18. CleanUpUnused'
  BY <1>6 DEF PoolInv, CleanUpUnused
<1>19. QED
  BY <1>12, <1>13, <1>14, <1>15, <1>16, <1>17, <1>18 DEF PoolInv

\* The worker writes the slot it has claimed.
LEMMA FillResultStep == PoolInv /\ FillResult => PoolInv'
<1> SUFFICES ASSUME PoolInv, FillResult PROVE PoolInv'
  OBVIOUS
<1>1. PICK c \in Contents : slot' = [slot EXCEPT ![mine.index].content = c]
  BY DEF FillResult
<1>2. /\ wpc = "filling" /\ wpc' = "publishing"
      /\ UNCHANGED <<queue, at, mine, mpc, owner, kept>>
  BY DEF FillResult, mainVars
<1>3. /\ mine # NoHandle /\ mine.index \in Slots
      /\ slot \in [Slots -> SlotStates]
      /\ slot[mine.index].generation = mine.generation
      /\ slot[mine.index].filling
  BY <1>2, HandleIndex DEF PoolInv, WorkerHolds, TypeOK
<1>4. /\ slot' \in [Slots -> SlotStates]
      /\ slot'[mine.index].content = c
      /\ \A i \in Slots : /\ slot'[i].references = slot[i].references
                          /\ slot'[i].generation = slot[i].generation
                          /\ slot'[i].cleanup = slot[i].cleanup
                          /\ slot'[i].filling = slot[i].filling
      /\ \A i \in Slots \ {mine.index} : slot'[i] = slot[i]
  <2> DEFINE s == slot[mine.index]
             filled == [s EXCEPT !.content = c]
  <2>1. s \in SlotStates
    BY <1>3
  <2>2. /\ filled \in SlotStates
        /\ filled.content = c
        /\ filled.references = s.references
        /\ filled.generation = s.generation
        /\ filled.cleanup = s.cleanup
        /\ filled.filling = s.filling
    BY <2>1 DEF SlotStates
  <2>3. slot' = [slot EXCEPT ![mine.index] = filled]
    BY <1>1
  <2> HIDE DEF filled
  <2>4. QED
    BY <1>3, <2>2, <2>3
<1>5. TypeOK'
  BY <1>2, <1>4 DEF PoolInv, TypeOK
<1>6. RefsExact'
  <2> SUFFICES ASSUME NEW i \in Slots PROVE slot'[i].references = Users(i)'
    BY DEF RefsExact
  <2>1. slot'[i].references = Users(i)
    BY <1>4 DEF PoolInv, RefsExact
  <2>2. Users(i)' = Users(i)
    BY <1>2 DEF Users, One, HeldAt, QueuedAt
  <2>3. QED
    BY <2>1, <2>2
<1>7. WorkerHolds'
  BY <1>2, <1>3, <1>4 DEF WorkerHolds
<1>8. MainHolds' /\ NoAlias'
  BY <1>2 DEF PoolInv, MainHolds, NoAlias, HeldAt, QueuedAt
<1>9. HandedFinished'
  <2>1. /\ \A k \in 1 .. Len(queue) : queue[k].index # mine.index
        /\ owner # NoHandle => owner.index # mine.index
        /\ kept # NoHandle => kept.index # mine.index
    BY <1>3 DEF PoolInv, NoAlias, HeldAt, QueuedAt
  <2>2. QED
    BY <1>2, <1>4, <2>1, HandleIndex DEF PoolInv, HandedFinished, Finished
<1>10. CleanUpUnused'
  BY <1>4 DEF PoolInv, CleanUpUnused
<1>11. QED
  BY <1>5, <1>6, <1>7, <1>8, <1>9, <1>10 DEF PoolInv

\* Pigeonhole: the queued handles name distinct slots, and none the worker's.
LEMMA RoomToPublish == PoolInv => QueueHasRoom
<1> SUFFICES ASSUME PoolInv, wpc = "publishing", Len(queue) >= PoolSize
             PROVE  FALSE
  BY PoolSizeAssumption DEF QueueHasRoom, PoolInv, TypeOK
<1> DEFINE positions == 1 .. Len(queue)
           others == Slots \ {mine.index}
           f == [k \in positions |-> queue[k].index]
<1>1. mine # NoHandle /\ mine.index \in Slots /\ Len(queue) \in Nat
  BY HandleIndex DEF PoolInv, WorkerHolds, TypeOK
<1>2. IsFiniteSet(Slots) /\ Cardinality(Slots) = PoolSize
  BY PoolSizeAssumption, FS_Interval DEF Slots
<1>3. IsFiniteSet(others) /\ Cardinality(others) = PoolSize - 1
  BY <1>1, <1>2, FS_RemoveElement
<1>4. IsFiniteSet(positions) /\ Cardinality(positions) = Len(queue)
  BY <1>1, FS_Interval
<1>5. f \in [positions -> others]
  BY <1>1, HandleIndex DEF PoolInv, NoAlias, HeldAt, QueuedAt
<1>6. Cardinality(others) < Cardinality(positions)
  BY <1>1, <1>3, <1>4, PoolSizeAssumption
<1>7. \E j, k \in positions : j # k /\ f[j] = f[k]
  <2> HIDE DEF f, positions, others
  <2>1. QED
    BY <1>3, <1>4, <1>5, <1>6, FS_PigeonHole
<1>8. QED
  BY <1>7 DEF PoolInv, NoAlias

\* The worker's reference passes to the queue.
LEMMA PublishResultStep == PoolInv /\ PublishResult => PoolInv'
<1> SUFFICES ASSUME PoolInv, PublishResult PROVE PoolInv'
  OBVIOUS
<1>1. /\ wpc = "publishing" /\ wpc' = "idle" /\ mine' = NoHandle
      /\ UNCHANGED <<at, mpc, owner, kept>>
  BY DEF PublishResult, mainVars
<1>2. Len(queue) < PoolSize
  BY <1>1, RoomToPublish DEF QueueHasRoom
<1>3. /\ slot' = [slot EXCEPT ![mine.index].filling = FALSE]
      /\ queue' = Append(queue, mine)
  BY <1>2 DEF PublishResult
<1>4. /\ mine \in Handles /\ mine.index \in Slots /\ mine # NoHandle
      /\ slot \in [Slots -> SlotStates]
      /\ slot[mine.index].generation = mine.generation
      /\ slot[mine.index].content \in Contents
  BY <1>1, HandleIndex DEF PoolInv, WorkerHolds, TypeOK
<1>5. /\ slot' \in [Slots -> SlotStates]
      /\ slot'[mine.index].filling = FALSE
      /\ \A i \in Slots : /\ slot'[i].references = slot[i].references
                          /\ slot'[i].generation = slot[i].generation
                          /\ slot'[i].cleanup = slot[i].cleanup
                          /\ slot'[i].content = slot[i].content
      /\ \A i \in Slots \ {mine.index} : slot'[i] = slot[i]
  <2> DEFINE s == slot[mine.index]
             finished == [s EXCEPT !.filling = FALSE]
  <2>1. s \in SlotStates
    BY <1>4
  <2>2. /\ finished \in SlotStates
        /\ finished.filling = FALSE
        /\ finished.references = s.references
        /\ finished.generation = s.generation
        /\ finished.cleanup = s.cleanup
        /\ finished.content = s.content
    BY <2>1 DEF SlotStates
  <2>3. slot' = [slot EXCEPT ![mine.index] = finished]
    BY <1>3
  <2> HIDE DEF finished
  <2>4. QED
    BY <1>4, <2>2, <2>3
<1>6. /\ queue \in Seq(Handles) /\ queue' \in Seq(Handles)
      /\ Len(queue) \in Nat
      /\ Len(queue') = Len(queue) + 1
      /\ queue'[Len(queue) + 1] = mine
      /\ \A k \in 1 .. Len(queue) : queue'[k] = queue[k]
  <2>1. queue \in Seq(Handles)
    BY DEF PoolInv, TypeOK
  <2>2. QED
    BY <1>3, <1>4, <2>1, AppendPositions
<1>7. \A k \in 1 .. Len(queue') :
         \/ k \in 1 .. Len(queue) /\ queue'[k] = queue[k]
         \/ k = Len(queue) + 1 /\ queue'[k] = mine
  BY <1>6
<1>8. \A i \in Slots : QueuedAt(i)' <=> QueuedAt(i) \/ HeldAt(mine, i)
  BY <1>4, <1>6, <1>7 DEF QueuedAt, HeldAt
<1>9. \A i \in Slots : ~ HeldAt(mine, i)'
  BY <1>1 DEF HeldAt
<1>10. \A i \in Slots : HeldAt(mine, i) => ~ QueuedAt(i)
  BY DEF PoolInv, NoAlias
<1>11. TypeOK'
  BY <1>1, <1>5, <1>6 DEF PoolInv, TypeOK
<1>12. RefsExact'
  <2> SUFFICES ASSUME NEW i \in Slots PROVE slot'[i].references = Users(i)'
    BY DEF RefsExact
  <2>1. slot'[i].references = Users(i)
    BY <1>5 DEF PoolInv, RefsExact
  <2>2. Users(i)' = Users(i)
    <3>1. One(HeldAt(mine, i))' = 0
      BY <1>9 DEF One
    <3>2. One(QueuedAt(i))' = One(QueuedAt(i)) + One(HeldAt(mine, i))
      BY <1>8, <1>10 DEF One
    <3>3. /\ One(HeldAt(owner, i))' = One(HeldAt(owner, i))
          /\ One(HeldAt(kept, i))' = One(HeldAt(kept, i))
          /\ One(HeldAt(owner, i) /\ mpc = "adopt")'
             = One(HeldAt(owner, i) /\ mpc = "adopt")
      BY <1>1 DEF One, HeldAt
    <3>4. One(QueuedAt(i)) \in Nat /\ One(HeldAt(mine, i)) \in Nat
      BY DEF One
    <3>5. QED
      BY <3>1, <3>2, <3>3, <3>4 DEF Users
  <2>3. QED
    BY <2>1, <2>2
<1>13. WorkerHolds' /\ MainHolds'
  BY <1>1 DEF PoolInv, WorkerHolds, MainHolds
<1>14. HandedFinished'
  <2>1. /\ \A k \in 1 .. Len(queue) : queue[k].index # mine.index
        /\ owner # NoHandle => owner.index # mine.index
        /\ kept # NoHandle => kept.index # mine.index
    BY <1>4 DEF PoolInv, NoAlias, HeldAt, QueuedAt
  <2>2. /\ slot'[mine.index].generation = mine.generation
        /\ ~ slot'[mine.index].filling
        /\ slot'[mine.index].content \in Contents
    BY <1>4, <1>5
  <2>3. ASSUME NEW k \in 1 .. Len(queue')
        PROVE  /\ slot'[queue'[k].index].generation = queue'[k].generation
               /\ ~ slot'[queue'[k].index].filling
               /\ slot'[queue'[k].index].content \in Contents
    <3>1. CASE k \in 1 .. Len(queue) /\ queue'[k] = queue[k]
      BY <1>4, <1>5, <2>1, <3>1, HandleIndex DEF PoolInv, HandedFinished, Finished
    <3>2. CASE queue'[k] = mine
      BY <2>2, <3>2
    <3>3. QED
      BY <1>7, <3>1, <3>2
  <2>4. (owner # NoHandle => Finished(owner)') /\ (kept # NoHandle => Finished(kept)')
    BY <1>1, <1>4, <1>5, <2>1, HandleIndex DEF PoolInv, HandedFinished, Finished
  <2>5. QED
    BY <1>1, <2>3, <2>4 DEF HandedFinished, Finished
<1>15. NoAlias'
  <2>1. \A j, k \in 1 .. Len(queue') : queue'[j].index = queue'[k].index => j = k
    BY <1>4, <1>6, <1>7, <1>10 DEF PoolInv, NoAlias, HeldAt, QueuedAt
  <2>2. \A i \in Slots :
           /\ QueuedAt(i)' => ~ HeldAt(owner, i)' /\ ~ HeldAt(kept, i)'
           /\ HeldAt(owner, i)' /\ HeldAt(kept, i)' => mpc' = "release"
    BY <1>1, <1>8 DEF PoolInv, NoAlias, HeldAt
  <2>3. QED
    BY <1>9, <2>1, <2>2 DEF NoAlias
<1>16. CleanUpUnused'
  BY <1>5 DEF PoolInv, CleanUpUnused
<1>17. QED
  BY <1>11, <1>12, <1>13, <1>14, <1>15, <1>16 DEF PoolInv

-----------------------------------------------------------------------------
(* The main loop's steps.                                                  *)

\* The queue's reference passes to the dispatcher.
LEMMA ReceiveResultStep == PoolInv /\ ReceiveResult => PoolInv'
<1> SUFFICES ASSUME PoolInv, ReceiveResult PROVE PoolInv'
  OBVIOUS
<1>1. /\ mpc = "idle" /\ mpc' = "dispatch" /\ queue # <<>>
      /\ owner' = Head(queue) /\ queue' = Tail(queue)
      /\ UNCHANGED <<slot, wpc, at, mine, kept>>
  BY DEF ReceiveResult, workerVars
<1>2. owner = NoHandle
  BY <1>1 DEF PoolInv, MainHolds
<1>3. /\ queue' \in Seq(Handles)
      /\ owner' = queue[1] /\ owner' \in Handles /\ owner' # NoHandle
      /\ Len(queue) \in Nat \ {0} /\ Len(queue') = Len(queue) - 1
      /\ \A k \in 1 .. Len(queue') : queue'[k] = queue[k + 1]
  <2>1. queue \in Seq(Handles)
    BY DEF PoolInv, TypeOK
  <2>2. QED
    BY <1>1, <2>1, TailPositions, HandleAssumption
<1>4. \A k \in 1 .. Len(queue) : k = 1 \/ (k - 1 \in 1 .. Len(queue') /\ queue'[k - 1] = queue[k])
  BY <1>3
<1>5. \A i \in Slots : QueuedAt(i) <=> QueuedAt(i)' \/ HeldAt(owner, i)'
  BY <1>3, <1>4 DEF QueuedAt, HeldAt
<1>6. \A i \in Slots : ~ (QueuedAt(i)' /\ HeldAt(owner, i)')
  BY <1>3 DEF PoolInv, NoAlias, QueuedAt, HeldAt
<1>7. TypeOK'
  BY <1>1, <1>3 DEF PoolInv, TypeOK
<1>8. RefsExact'
  <2> SUFFICES ASSUME NEW i \in Slots PROVE slot'[i].references = Users(i)'
    BY DEF RefsExact
  <2>1. slot'[i].references = Users(i)
    BY <1>1 DEF PoolInv, RefsExact
  <2>2. Users(i)' = Users(i)
    <3>1. /\ One(HeldAt(owner, i)) = 0
          /\ One(HeldAt(owner, i) /\ mpc = "adopt") = 0
          /\ One(HeldAt(owner, i) /\ mpc = "adopt")' = 0
      BY <1>1, <1>2 DEF One, HeldAt
    <3>2. One(QueuedAt(i)) = One(QueuedAt(i))' + One(HeldAt(owner, i))'
      BY <1>5, <1>6 DEF One
    <3>3. /\ One(HeldAt(mine, i))' = One(HeldAt(mine, i))
          /\ One(HeldAt(kept, i))' = One(HeldAt(kept, i))
      BY <1>1 DEF One, HeldAt
    <3>4. One(QueuedAt(i))' \in Nat /\ One(HeldAt(owner, i))' \in Nat
          /\ One(HeldAt(mine, i)) \in Nat /\ One(HeldAt(kept, i)) \in Nat
      BY DEF One
    <3>5. QED
      BY <3>1, <3>2, <3>3, <3>4 DEF Users
  <2>3. QED
    BY <2>1, <2>2
<1>9. WorkerHolds' /\ MainHolds' /\ CleanUpUnused'
  BY <1>1, <1>3 DEF PoolInv, WorkerHolds, MainHolds, CleanUpUnused
<1>10. HandedFinished'
  <2>1. \A k \in 1 .. Len(queue') : Finished(queue[k + 1])
    BY <1>3 DEF PoolInv, HandedFinished
  <2>2. Finished(queue[1])
    BY <1>3 DEF PoolInv, HandedFinished
  <2>3. QED
    BY <1>1, <1>3, <2>1, <2>2 DEF PoolInv, HandedFinished, Finished
<1>11. NoAlias'
  <2>1. \A j, k \in 1 .. Len(queue') : queue'[j].index = queue'[k].index => j = k
    BY <1>3 DEF PoolInv, NoAlias
  <2>2. \A i \in Slots :
           HeldAt(mine, i)' => ~ QueuedAt(i)' /\ ~ HeldAt(owner, i)' /\ ~ HeldAt(kept, i)'
    BY <1>1, <1>5 DEF PoolInv, NoAlias, HeldAt
  <2>3. \A i \in Slots :
           /\ QueuedAt(i)' => ~ HeldAt(owner, i)' /\ ~ HeldAt(kept, i)'
           /\ ~ (HeldAt(owner, i)' /\ HeldAt(kept, i)')
    BY <1>1, <1>5, <1>6 DEF PoolInv, NoAlias, HeldAt
  <2>4. QED
    BY <2>1, <2>2, <2>3 DEF NoAlias
<1>12. QED
  BY <1>7, <1>8, <1>9, <1>10, <1>11 DEF PoolInv

\* The app reads the delivered result.
LEMMA ConsumeResultStep == PoolInv /\ ConsumeResult => PoolInv'
<1> SUFFICES ASSUME PoolInv, ConsumeResult PROVE PoolInv'
  OBVIOUS
<1> USE DEF ConsumeResult, workerVars
<1>1. TypeOK'
  BY DEF PoolInv, TypeOK
<1>2. RefsExact'
  BY DEF PoolInv, RefsExact, Users, One, HeldAt, QueuedAt
<1>3. WorkerHolds' /\ MainHolds' /\ HandedFinished' /\ NoAlias' /\ CleanUpUnused'
  BY DEF PoolInv, WorkerHolds, MainHolds, HandedFinished, Finished, NoAlias,
         CleanUpUnused, HeldAt, QueuedAt
<1>4. QED
  BY <1>1, <1>2, <1>3 DEF PoolInv

\* retain_result tests the slot before it counts.
LEMMA RetainCheckStep == PoolInv /\ RetainCheck => PoolInv'
<1> SUFFICES ASSUME PoolInv, RetainCheck PROVE PoolInv'
  OBVIOUS
<1> USE DEF RetainCheck, workerVars
<1>1. TypeOK'
  BY DEF PoolInv, TypeOK
<1>2. RefsExact'
  BY DEF PoolInv, RefsExact, Users, One, HeldAt, QueuedAt
<1>3. WorkerHolds' /\ MainHolds' /\ HandedFinished' /\ NoAlias' /\ CleanUpUnused'
  BY DEF PoolInv, WorkerHolds, MainHolds, HandedFinished, Finished, NoAlias,
         CleanUpUnused, HeldAt, QueuedAt
<1>4. QED
  BY <1>1, <1>2, <1>3 DEF PoolInv

\* Until FileApp retains it only the dispatcher holds the slot: room to count up.
LEMMA RetainHasRoom == PoolInv => DeliveredUsable
<1> SUFFICES ASSUME PoolInv, mpc \in {"dispatch", "retain"}
             PROVE  Resolves(owner) /\ Retainable(owner)
  BY DEF DeliveredUsable
<1>1. owner # NoHandle /\ owner.index \in Slots
  BY HandleIndex DEF PoolInv, MainHolds
<1>2. slot[owner.index].references = Users(owner.index)
  BY <1>1 DEF PoolInv, RefsExact
<1>3. HeldAt(owner, owner.index)
  BY <1>1 DEF HeldAt
<1>4. /\ ~ HeldAt(mine, owner.index) /\ ~ QueuedAt(owner.index)
      /\ ~ HeldAt(kept, owner.index)
  BY <1>1, <1>3 DEF PoolInv, NoAlias
<1>5. Users(owner.index) = 1
  BY <1>3, <1>4 DEF Users, One
<1>6. ~ slot[owner.index].cleanup
  BY <1>1, <1>2, <1>5 DEF PoolInv, CleanUpUnused
<1>7. Finished(owner)
  BY <1>1 DEF PoolInv, HandedFinished
<1>8. QED
  BY <1>1, <1>2, <1>5, <1>6, <1>7, MaskAssumption DEF Retainable, Resolves, Finished

\* The count it swaps is still that of the result it tested.
LEMMA RetainSwapStep == PoolInv /\ RetainSwap => PoolInv'
<1> SUFFICES ASSUME PoolInv, RetainSwap PROVE PoolInv'
  OBVIOUS
<1>1. /\ mpc = "retain" /\ Retainable(owner)
      /\ owner # NoHandle /\ owner.index \in Slots
      /\ slot \in [Slots -> SlotStates]
  BY RetainHasRoom, HandleIndex
     DEF RetainSwap, DeliveredUsable, PoolInv, MainHolds, TypeOK
<1>2. /\ slot' = [slot EXCEPT ![owner.index].references = slot[owner.index].references + 1]
      /\ mpc' = "adopt"
      /\ UNCHANGED <<queue, wpc, at, mine, owner, kept>>
  BY <1>1 DEF RetainSwap, workerVars
<1>3. /\ slot' \in [Slots -> SlotStates]
      /\ slot'[owner.index].references = slot[owner.index].references + 1
      /\ \A i \in Slots : /\ slot'[i].generation = slot[i].generation
                          /\ slot'[i].cleanup = slot[i].cleanup
                          /\ slot'[i].filling = slot[i].filling
                          /\ slot'[i].content = slot[i].content
      /\ \A i \in Slots \ {owner.index} : slot'[i] = slot[i]
  <2> DEFINE s == slot[owner.index]
             shared == [s EXCEPT !.references = s.references + 1]
  <2>1. s \in SlotStates
    BY <1>1
  <2>2. s.references + 1 \in Nat
    BY <2>1, SlotFields
  <2>3. /\ shared \in SlotStates
        /\ shared.references = s.references + 1
        /\ shared.generation = s.generation
        /\ shared.cleanup = s.cleanup
        /\ shared.filling = s.filling
        /\ shared.content = s.content
    BY <2>1, <2>2 DEF SlotStates
  <2>4. slot' = [slot EXCEPT ![owner.index] = shared]
    BY <1>2
  <2> HIDE DEF shared
  <2>5. QED
    BY <1>1, <2>3, <2>4
<1>4. TypeOK'
  BY <1>2, <1>3 DEF PoolInv, TypeOK
<1>5. RefsExact'
  <2> SUFFICES ASSUME NEW i \in Slots PROVE slot'[i].references = Users(i)'
    BY DEF RefsExact
  <2>1. slot[i].references = Users(i)
    BY DEF PoolInv, RefsExact
  <2>2. slot'[i].references = slot[i].references + One(HeldAt(owner, i))
    <3>1. slot[i].references \in Nat
      BY <1>1, SlotFields
    <3>2. QED
      BY <1>1, <1>3, <3>1 DEF One, HeldAt
  <2>3. Users(i)' = Users(i) + One(HeldAt(owner, i))
    <3>1. /\ One(QueuedAt(i))' = One(QueuedAt(i))
          /\ One(HeldAt(mine, i))' = One(HeldAt(mine, i))
          /\ One(HeldAt(owner, i))' = One(HeldAt(owner, i))
          /\ One(HeldAt(kept, i))' = One(HeldAt(kept, i))
      BY <1>2 DEF One, HeldAt, QueuedAt
    <3>2. /\ One(HeldAt(owner, i) /\ mpc = "adopt") = 0
          /\ One(HeldAt(owner, i) /\ mpc = "adopt")' = One(HeldAt(owner, i))
      BY <1>1, <1>2 DEF One, HeldAt
    <3>3. /\ One(QueuedAt(i)) \in Nat /\ One(HeldAt(mine, i)) \in Nat
          /\ One(HeldAt(owner, i)) \in Nat /\ One(HeldAt(kept, i)) \in Nat
      BY DEF One
    <3>4. QED
      BY <3>1, <3>2, <3>3 DEF Users
  <2>4. QED
    BY <2>1, <2>2, <2>3
<1>6. WorkerHolds' /\ MainHolds'
  BY <1>1, <1>2, <1>3, HandleIndex DEF PoolInv, WorkerHolds, MainHolds
<1>7. HandedFinished'
  BY <1>2, <1>3, HandleIndex DEF PoolInv, HandedFinished, Finished
<1>8. NoAlias'
  <2>1. \A i \in Slots : ~ (HeldAt(owner, i) /\ HeldAt(kept, i))
    BY <1>1 DEF PoolInv, NoAlias
  <2>2. QED
    BY <1>2, <2>1 DEF PoolInv, NoAlias, HeldAt, QueuedAt
<1>9. CleanUpUnused'
  BY <1>1, <1>3 DEF PoolInv, CleanUpUnused, Retainable
<1>10. QED
  BY <1>4, <1>5, <1>6, <1>7, <1>8, <1>9 DEF PoolInv

\* The app's new listing replaces the one it kept, which is released.
LEMMA AdoptListingStep == PoolInv /\ AdoptListing => PoolInv'
<1> SUFFICES ASSUME PoolInv, AdoptListing PROVE PoolInv'
  OBVIOUS
<1> USE DEF AdoptListing, workerVars
<1>1. owner # NoHandle
  BY DEF PoolInv, MainHolds
<1>2. kept \in Handles \cup {NoHandle} /\ (kept # NoHandle => CanRelease(kept))
  BY HeldReleasable DEF PoolInv, TypeOK
<1>3. /\ slot' \in [Slots -> SlotStates]
      /\ \A i \in Slots :
            /\ slot'[i].references = slot[i].references - One(HeldAt(kept, i))
            /\ slot'[i].cleanup =>
                  slot'[i].references = 0 \/ (slot[i].cleanup /\ One(HeldAt(kept, i)) = 0)
            /\ slot'[i].generation = slot[i].generation
            /\ slot'[i].filling = slot[i].filling
            /\ slot'[i].content = slot[i].content
  <2>1. slot' = Released(kept) /\ TypeOK
    BY DEF PoolInv
  <2>2. QED
    BY <1>2, <2>1, ReleasedSlot
<1>4. TypeOK'
  BY <1>3 DEF PoolInv, TypeOK
<1>5. RefsExact'
  <2> SUFFICES ASSUME NEW i \in Slots PROVE slot'[i].references = Users(i)'
    BY DEF RefsExact
  <2>1. slot[i].references = Users(i)
    BY DEF PoolInv, RefsExact
  <2>2. QueuedAt(i)' <=> QueuedAt(i)
    BY DEF QueuedAt
  <2>3. Users(i)' = Users(i) - One(HeldAt(kept, i))
    BY <1>1, <2>2 DEF Users, One, HeldAt
  <2>4. QED
    BY <1>3, <2>1, <2>3
<1>6. WorkerHolds'
  BY <1>3 DEF PoolInv, TypeOK, WorkerHolds, Handles
<1>7. MainHolds'
  BY DEF PoolInv, MainHolds
<1>8. HandedFinished'
  BY <1>3, HandleIndex DEF PoolInv, HandedFinished, Finished
<1>9. NoAlias'
  BY DEF PoolInv, NoAlias, HeldAt, QueuedAt
<1>10. CleanUpUnused'
  BY <1>3 DEF PoolInv, CleanUpUnused
<1>11. QED
  BY <1>4, <1>5, <1>6, <1>7, <1>8, <1>9, <1>10 DEF PoolInv

\* The kept listing is released.
LEMMA DropListingStep == PoolInv /\ DropListing => PoolInv'
<1> SUFFICES ASSUME PoolInv, DropListing PROVE PoolInv'
  OBVIOUS
<1> USE DEF DropListing, workerVars
<1>1. mpc # "adopt" /\ mpc # "release" /\ kept # NoHandle
  OBVIOUS
<1>2. kept \in Handles \cup {NoHandle} /\ (kept # NoHandle => CanRelease(kept))
  BY HeldReleasable DEF PoolInv, TypeOK
<1>3. /\ slot' \in [Slots -> SlotStates]
      /\ \A i \in Slots :
            /\ slot'[i].references = slot[i].references - One(HeldAt(kept, i))
            /\ slot'[i].cleanup =>
                  slot'[i].references = 0 \/ (slot[i].cleanup /\ One(HeldAt(kept, i)) = 0)
            /\ slot'[i].generation = slot[i].generation
            /\ slot'[i].filling = slot[i].filling
            /\ slot'[i].content = slot[i].content
  <2>1. slot' = Released(kept) /\ TypeOK
    BY DEF PoolInv
  <2>2. QED
    BY <1>2, <2>1, ReleasedSlot
<1>4. TypeOK'
  BY <1>3 DEF PoolInv, TypeOK
<1>5. RefsExact'
  <2> SUFFICES ASSUME NEW i \in Slots PROVE slot'[i].references = Users(i)'
    BY DEF RefsExact
  <2>1. slot[i].references = Users(i)
    BY DEF PoolInv, RefsExact
  <2>2. QueuedAt(i)' <=> QueuedAt(i)
    BY DEF QueuedAt
  <2>3. Users(i)' = Users(i) - One(HeldAt(kept, i))
    BY <1>1, <2>2 DEF Users, One, HeldAt
  <2>4. QED
    BY <1>3, <2>1, <2>3
<1>6. WorkerHolds'
  BY <1>3 DEF PoolInv, TypeOK, WorkerHolds, Handles
<1>7. MainHolds'
  BY DEF PoolInv, MainHolds
<1>8. HandedFinished'
  BY <1>3, HandleIndex DEF PoolInv, HandedFinished, Finished
<1>9. NoAlias'
  BY DEF PoolInv, NoAlias, HeldAt, QueuedAt
<1>10. CleanUpUnused'
  BY <1>3 DEF PoolInv, CleanUpUnused
<1>11. QED
  BY <1>4, <1>5, <1>6, <1>7, <1>8, <1>9, <1>10 DEF PoolInv

\* The dispatcher's reference ends with the update.
LEMMA ReleaseOwnerStep == PoolInv /\ ReleaseOwner => PoolInv'
<1> SUFFICES ASSUME PoolInv, ReleaseOwner PROVE PoolInv'
  OBVIOUS
<1> USE DEF ReleaseOwner, workerVars
<1>1. owner # NoHandle
  BY DEF PoolInv, MainHolds
<1>2. owner \in Handles \cup {NoHandle} /\ (owner # NoHandle => CanRelease(owner))
  BY <1>1, HeldReleasable
<1>3. /\ slot' \in [Slots -> SlotStates]
      /\ \A i \in Slots :
            /\ slot'[i].references = slot[i].references - One(HeldAt(owner, i))
            /\ slot'[i].cleanup =>
                  slot'[i].references = 0 \/ (slot[i].cleanup /\ One(HeldAt(owner, i)) = 0)
            /\ slot'[i].generation = slot[i].generation
            /\ slot'[i].filling = slot[i].filling
            /\ slot'[i].content = slot[i].content
  <2>1. slot' = Released(owner) /\ TypeOK
    BY DEF PoolInv
  <2>2. QED
    BY <1>2, <2>1, ReleasedSlot
<1>4. TypeOK'
  BY <1>3 DEF PoolInv, TypeOK
<1>5. RefsExact'
  <2> SUFFICES ASSUME NEW i \in Slots PROVE slot'[i].references = Users(i)'
    BY DEF RefsExact
  <2>1. slot[i].references = Users(i)
    BY DEF PoolInv, RefsExact
  <2>2. QueuedAt(i)' <=> QueuedAt(i)
    BY DEF QueuedAt
  <2>3. Users(i)' = Users(i) - One(HeldAt(owner, i))
    BY <2>2 DEF Users, One, HeldAt
  <2>4. QED
    BY <1>3, <2>1, <2>3
<1>6. WorkerHolds'
  BY <1>3 DEF PoolInv, TypeOK, WorkerHolds, Handles
<1>7. MainHolds'
  BY DEF PoolInv, MainHolds
<1>8. HandedFinished'
  BY <1>3, HandleIndex DEF PoolInv, HandedFinished, Finished
<1>9. NoAlias'
  BY DEF PoolInv, NoAlias, HeldAt, QueuedAt
<1>10. CleanUpUnused'
  BY <1>3 DEF PoolInv, CleanUpUnused
<1>11. QED
  BY <1>4, <1>5, <1>6, <1>7, <1>8, <1>9, <1>10 DEF PoolInv

-----------------------------------------------------------------------------
\* Every step of either task keeps the invariant.
LEMMA StepPoolInv == PoolInv /\ [Next]_vars => PoolInv'
<1>1. PoolInv /\ Worker => PoolInv'
  BY StartAcquireStep, CleanUpStep, SkipBusySlotStep, PoolExhaustedStep,
     ClaimSlotStep, FillResultStep, PublishResultStep DEF Worker
<1>2. PoolInv /\ MainLoop => PoolInv'
  BY ReceiveResultStep, ConsumeResultStep, RetainCheckStep, RetainSwapStep,
     AdoptListingStep, DropListingStep, ReleaseOwnerStep DEF MainLoop
<1>3. PoolInv /\ UNCHANGED vars => PoolInv'
  <2> SUFFICES ASSUME PoolInv, UNCHANGED vars PROVE PoolInv'
    OBVIOUS
  <2> USE DEF vars, workerVars, mainVars
  <2>1. TypeOK' /\ WorkerHolds' /\ MainHolds' /\ HandedFinished' /\ NoAlias'
        /\ CleanUpUnused'
    BY DEF PoolInv, TypeOK, WorkerHolds, MainHolds, HandedFinished, Finished,
           NoAlias, CleanUpUnused, HeldAt, QueuedAt
  <2>2. RefsExact'
    BY DEF PoolInv, RefsExact, Users, One, HeldAt, QueuedAt
  <2>3. QED
    BY <2>1, <2>2 DEF PoolInv
<1>4. QED
  BY <1>1, <1>2, <1>3 DEF Next

\* The pool's invariant holds in every reachable state, for every pool size,
\* generation limit and set of results.
THEOREM PoolInvariant == Spec => []PoolInv
  BY InitPoolInv, StepPoolInv, PTL DEF Spec

\* Every variable of the pool keeps its type.
THEOREM PoolTypeOK == Spec => []TypeOK
<1>1. PoolInv => TypeOK
  BY DEF PoolInv
<1>2. QED
  BY <1>1, PoolInvariant, PTL

\* acquire, retain and release without a common lock never lose or invent a
\* reference: each slot's count is its number of users.
THEOREM PoolRefsExact == Spec => []RefsExact
<1>1. PoolInv => RefsExact
  BY DEF PoolInv
<1>2. QED
  BY <1>1, PoolInvariant, PTL

\* No slot is reused or refilled while its handle is queued, dispatched or kept.
LEMMA InvHandlesCurrent == PoolInv => HandlesCurrent
<1> SUFFICES ASSUME PoolInv, NEW h \in Handed PROVE Resolves(h)
  BY DEF HandlesCurrent
<1>1. CASE h \in {owner, kept} /\ h # NoHandle
  BY <1>1, HeldReleasable
<1>2. CASE \E k \in 1 .. Len(queue) : h = queue[k]
  <2>1. PICK k \in 1 .. Len(queue) : h = queue[k]
    BY <1>2
  <2>2. h \in Handles /\ h.index \in Slots /\ h # NoHandle
    BY <2>1, HandleIndex, HandleAssumption DEF PoolInv
  <2>3. Finished(h)
    BY <2>1 DEF PoolInv, HandedFinished
  <2>4. QueuedAt(h.index)
    BY <2>1 DEF QueuedAt
  <2>5. Users(h.index) > 0
    BY <2>4 DEF Users, One
  <2>6. slot[h.index].references = Users(h.index)
    BY <2>2 DEF PoolInv, RefsExact
  <2>7. QED
    BY <2>2, <2>3, <2>5, <2>6 DEF Resolves, Finished
<1>3. QED
  BY <1>1, <1>2 DEF Handed

\* Every handle in the queue, with the dispatcher or kept by the app resolves to its
\* own finished result, although slots are reused and generations wrap around.
THEOREM PoolHandlesCurrent == Spec => []HandlesCurrent
  BY InvHandlesCurrent, PoolInvariant, PTL

\* publish_result never throws a finished result away.
THEOREM PoolQueueHasRoom == Spec => []QueueHasRoom
  BY RoomToPublish, PoolInvariant, PTL

\* A delivered result can be read and retained, so a listing that was read is shown.
THEOREM PoolDeliveredUsable == Spec => []DeliveredUsable
  BY RetainHasRoom, PoolInvariant, PTL

-----------------------------------------------------------------------------
(* The pool implements the abstract result store.                          *)

PendingContents ==
    /\ Pending \in Seq(Contents)
    /\ Len(Pending) = Len(queue)
    /\ \A k \in 1 .. Len(queue) : Pending[k] = slot[queue[k].index].content

\* The queue, slot by slot, is the store's sequence of pending results.
LEMMA PendingType == PoolInv => PendingContents
<1> SUFFICES ASSUME PoolInv PROVE PendingContents
  OBVIOUS
<1>1. Len(queue) \in Nat /\ \A k \in 1 .. Len(queue) : queue[k] # NoHandle
  BY HandleIndex, HandleAssumption DEF PoolInv, TypeOK
<1>2. \A k \in 1 .. Len(queue) :
         /\ Content(queue[k]) = slot[queue[k].index].content
         /\ Content(queue[k]) \in Contents
  BY <1>1 DEF Content, PoolInv, HandedFinished, Finished
<1>3. Pending \in [1 .. Len(queue) -> Contents]
  BY <1>2 DEF Pending
<1>4. QED
  BY <1>1, <1>2, <1>3 DEF Pending, PendingContents

\* A step that neither moves a handle nor touches a handed-on result is unseen.
LEMMA Unseen ==
    ASSUME PoolInv, UNCHANGED <<queue, owner, kept>>,
           \A h \in Handed : slot'[h.index].content = slot[h.index].content
    PROVE  UNCHANGED <<Pending, Content(owner), Content(kept)>>
<1>1. \A k \in 1 .. Len(queue) : slot'[queue[k].index].content = slot[queue[k].index].content
  BY DEF Handed
<1>2. Content(owner)' = Content(owner) /\ Content(kept)' = Content(kept)
  BY DEF Handed, Content
<1>3. Pending' = Pending
  BY <1>1 DEF Pending, Content
<1>4. QED
  BY <1>2, <1>3

\* The empty pool is the empty store.
LEMMA InitStore == Init => Store!Init
  BY DEF Init, Store!Init, Pending, Content

\* Publishing produces a result in the store.
LEMMA ProduceStep == PoolInv /\ PoolInv' /\ PublishResult => Store!Produce
<1> SUFFICES ASSUME PoolInv, PoolInv', PublishResult PROVE Store!Produce
  OBVIOUS
<1>1. /\ wpc = "publishing" /\ UNCHANGED <<owner, kept>>
      /\ Len(queue) < PoolSize
  BY RoomToPublish DEF PublishResult, QueueHasRoom, mainVars
<1>2. /\ slot' = [slot EXCEPT ![mine.index].filling = FALSE]
      /\ queue' = Append(queue, mine)
  BY <1>1 DEF PublishResult
<1>3. /\ mine \in Handles /\ mine.index \in Slots
      /\ slot \in [Slots -> SlotStates]
      /\ slot[mine.index].content \in Contents
  BY <1>1, HandleIndex DEF PoolInv, WorkerHolds, TypeOK
<1>4. \A i \in Slots : slot'[i].content = slot[i].content
  BY <1>2, <1>3 DEF SlotStates
<1>5. /\ Len(queue) \in Nat /\ Len(queue') = Len(queue) + 1
      /\ queue'[Len(queue) + 1] = mine
      /\ \A k \in 1 .. Len(queue) : queue'[k] = queue[k]
  BY <1>2, <1>3, AppendPositions DEF PoolInv, TypeOK
<1>6. /\ Pending' \in Seq(Contents)
      /\ Len(Pending') = Len(queue')
      /\ \A k \in 1 .. Len(queue') :
            Pending'[k] = slot'[queue'[k].index].content
  <2>1. PendingContents'
    BY PendingType, PTL
  <2>2. QED
    BY <2>1 DEF PendingContents
<1>7. Pending' = Append(Pending, slot[mine.index].content)
  <2> DEFINE c == slot[mine.index].content
  <2>1. /\ Append(Pending, c) \in Seq(Contents)
        /\ Len(Append(Pending, c)) = Len(queue) + 1
        /\ Append(Pending, c)[Len(queue) + 1] = c
        /\ \A k \in 1 .. Len(queue) :
              Append(Pending, c)[k] = slot[queue[k].index].content
    BY <1>3, PendingType, AppendPositions DEF PendingContents
  <2>2. \A k \in 1 .. Len(queue) + 1 : Pending'[k] = Append(Pending, c)[k]
    BY <1>3, <1>4, <1>5, <1>6, <2>1, HandleIndex DEF PoolInv
  <2>3. QED
    BY <1>5, <1>6, <2>1, <2>2, SeqEqual
<1>8. Content(owner)' = Content(owner) /\ Content(kept)' = Content(kept)
  BY <1>1, <1>4, HandleIndex DEF Content, PoolInv
<1>9. QED
  BY <1>1, <1>3, <1>7, <1>8, PendingType DEF PendingContents, Store!Produce

\* Receiving delivers the oldest one.
LEMMA DeliverStep == PoolInv /\ PoolInv' /\ ReceiveResult => Store!Deliver
<1> SUFFICES ASSUME PoolInv, PoolInv', ReceiveResult PROVE Store!Deliver
  OBVIOUS
<1>1. /\ mpc = "idle" /\ queue # <<>> /\ queue \in Seq(Handles)
      /\ owner' = Head(queue) /\ queue' = Tail(queue)
      /\ UNCHANGED <<slot, kept>>
  BY DEF ReceiveResult, workerVars, PoolInv, TypeOK
<1>2. owner = NoHandle
  BY <1>1 DEF PoolInv, MainHolds
<1>3. /\ owner' = queue[1] /\ owner' # NoHandle
      /\ Len(queue) \in Nat \ {0} /\ Len(queue') = Len(queue) - 1
      /\ \A k \in 1 .. Len(queue') : queue'[k] = queue[k + 1]
  BY <1>1, TailPositions, HandleAssumption
<1>4. /\ Pending \in Seq(Contents) /\ Len(Pending) = Len(queue) /\ Pending # <<>>
      /\ \A k \in 1 .. Len(queue) : Pending[k] = slot[queue[k].index].content
  BY <1>3, PendingType DEF PendingContents
<1>5. /\ Pending' \in Seq(Contents) /\ Len(Pending') = Len(queue')
      /\ \A k \in 1 .. Len(queue') : Pending'[k] = slot'[queue'[k].index].content
  <2>1. PendingContents'
    BY PendingType, PTL
  <2>2. QED
    BY <2>1 DEF PendingContents
<1>6. /\ Tail(Pending) \in Seq(Contents) /\ Head(Pending) = Pending[1]
      /\ Len(Tail(Pending)) = Len(queue) - 1
      /\ \A k \in 1 .. Len(queue) - 1 : Tail(Pending)[k] = Pending[k + 1]
  BY <1>4, TailPositions
<1>7. \A k \in 1 .. Len(queue) - 1 : Pending'[k] = Tail(Pending)[k]
  BY <1>1, <1>3, <1>4, <1>5, <1>6
<1>8. Pending' = Tail(Pending)
  BY <1>3, <1>5, <1>6, <1>7, SeqEqual
<1>9. Content(owner)' = Head(Pending)
  BY <1>1, <1>3, <1>4, <1>6 DEF Content
<1>10. Content(owner) = NoContent /\ Content(kept)' = Content(kept)
  BY <1>1, <1>2 DEF Content
<1>11. QED
  BY <1>4, <1>8, <1>9, <1>10 DEF Store!Deliver

\* Releasing a handle empties nothing yet: every slot keeps its content.
LEMMA ReleasedContent ==
    ASSUME PoolInv, NEW h \in {owner, kept}, slot' = Released(h)
    PROVE  \A i \in Slots : slot'[i].content = slot[i].content
<1>1. h \in Handles \cup {NoHandle} /\ TypeOK
  BY DEF PoolInv, TypeOK
<1>2. h # NoHandle => CanRelease(h)
  BY HeldReleasable
<1>3. QED
  BY <1>1, <1>2, ReleasedSlot

\* A delivered handle names a result.
LEMMA OwnerContent ==
    ASSUME PoolInv, owner # NoHandle
    PROVE  Content(owner) # NoContent
  BY ContentAssumption DEF PoolInv, HandedFinished, Finished, Content

\* Adopting a listing keeps the delivered result.
LEMMA KeepStep == PoolInv /\ AdoptListing => Store!Keep
<1> SUFFICES ASSUME PoolInv, AdoptListing PROVE Store!Keep
  OBVIOUS
<1>1. /\ slot' = Released(kept) /\ kept' = owner /\ owner # NoHandle
      /\ UNCHANGED <<queue, owner>>
  BY DEF AdoptListing, PoolInv, MainHolds
<1>2. \A i \in Slots : slot'[i].content = slot[i].content
  BY <1>1, ReleasedContent
<1>3. Content(kept)' = Content(owner) /\ Content(owner)' = Content(owner)
  BY <1>1, <1>2, HandleIndex DEF Content, PoolInv
<1>4. Pending' = Pending
  BY <1>1, <1>2, HandleIndex DEF Pending, Content, PoolInv
<1>5. QED
  BY <1>1, <1>3, <1>4, OwnerContent DEF Store!Keep

\* Dropping the listing drops the kept result.
LEMMA DropStep == PoolInv /\ DropListing => Store!Drop
<1> SUFFICES ASSUME PoolInv, DropListing PROVE Store!Drop
  OBVIOUS
<1>1. /\ slot' = Released(kept) /\ kept' = NoHandle
      /\ UNCHANGED <<queue, owner>>
  BY DEF DropListing
<1>2. \A i \in Slots : slot'[i].content = slot[i].content
  BY <1>1, ReleasedContent
<1>3. Content(kept)' = NoContent /\ Content(owner)' = Content(owner)
  BY <1>1, <1>2, HandleIndex DEF Content, PoolInv
<1>4. Pending' = Pending
  BY <1>1, <1>2, HandleIndex DEF Pending, Content, PoolInv
<1>5. QED
  BY <1>3, <1>4 DEF Store!Drop

\* Releasing the owner finishes the delivery.
LEMMA FinishStep == PoolInv /\ ReleaseOwner => Store!Finish
<1> SUFFICES ASSUME PoolInv, ReleaseOwner PROVE Store!Finish
  OBVIOUS
<1>1. /\ slot' = Released(owner) /\ owner' = NoHandle /\ owner # NoHandle
      /\ UNCHANGED <<queue, kept>>
  BY DEF ReleaseOwner, PoolInv, MainHolds
<1>2. \A i \in Slots : slot'[i].content = slot[i].content
  BY <1>1, ReleasedContent
<1>3. Content(owner)' = NoContent /\ Content(kept)' = Content(kept)
  BY <1>1, <1>2, HandleIndex DEF Content, PoolInv
<1>4. Pending' = Pending
  BY <1>1, <1>2, HandleIndex DEF Pending, Content, PoolInv
<1>5. QED
  BY <1>1, <1>3, <1>4, OwnerContent DEF Store!Finish

\* What the worker does to a slot it may touch is invisible: nobody holds it.
LEMMA WorkerUnseen ==
    ASSUME PoolInv,
           StartAcquire \/ CleanUp \/ SkipBusySlot \/ PoolExhausted \/ ClaimSlot
               \/ FillResult
    PROVE  UNCHANGED <<Pending, Content(owner), Content(kept)>>
<1>1. UNCHANGED <<queue, owner, kept>>
  BY DEF StartAcquire, CleanUp, SkipBusySlot, PoolExhausted, ClaimSlot, FillResult,
         workerVars, mainVars
<1>2. \A h \in Handed : /\ h.index \in Slots
                        /\ ~ HeldAt(mine, h.index)
                        /\ slot[h.index].references > 0
  <2> SUFFICES ASSUME NEW h \in Handed
               PROVE  /\ h.index \in Slots
                      /\ ~ HeldAt(mine, h.index)
                      /\ slot[h.index].references > 0
    OBVIOUS
  <2>1. h.index \in Slots
    BY HandleIndex DEF Handed, PoolInv
  <2>2. QueuedAt(h.index) \/ HeldAt(owner, h.index) \/ HeldAt(kept, h.index)
    BY DEF Handed, QueuedAt, HeldAt
  <2>3. QED
    BY <2>1, <2>2, InvHandlesCurrent DEF PoolInv, NoAlias, HandlesCurrent, Resolves
<1>3. ASSUME NEW h \in Handed PROVE slot'[h.index].content = slot[h.index].content
  <2>1. CASE CleanUp \/ ClaimSlot
    <3>1. at \in Slots /\ slot[at].references = 0 /\ slot \in [Slots -> SlotStates]
      BY <2>1, PoolSizeAssumption DEF CleanUp, ClaimSlot, PoolInv, TypeOK, Slots
    <3>2. h.index # at
      BY <1>2, <3>1
    <3>3. slot'[h.index] = slot[h.index]
      BY <1>2, <2>1, <3>1, <3>2 DEF CleanUp, ClaimSlot
    <3>4. QED
      BY <3>3
  <2>2. CASE FillResult
    <3>1. mine # NoHandle
      BY <2>2 DEF FillResult, PoolInv, WorkerHolds
    <3>2. h.index # mine.index
      BY <1>2, <3>1 DEF HeldAt
    <3>3. slot'[h.index] = slot[h.index]
      BY <1>2, <2>2, <3>2 DEF FillResult, PoolInv, TypeOK
    <3>4. QED
      BY <3>3
  <2>3. CASE StartAcquire \/ SkipBusySlot \/ PoolExhausted
    BY <2>3 DEF StartAcquire, SkipBusySlot, PoolExhausted
  <2>4. QED
    BY <2>1, <2>2, <2>3
<1>4. QED
  BY <1>1, <1>3, Unseen

\* Reading and retaining change nothing the store shows.
LEMMA MainUnseen ==
    ASSUME PoolInv, ConsumeResult \/ RetainCheck \/ RetainSwap \/ UNCHANGED vars
    PROVE  UNCHANGED <<Pending, Content(owner), Content(kept)>>
<1>1. UNCHANGED <<queue, owner, kept>>
  BY DEF ConsumeResult, RetainCheck, RetainSwap, workerVars, vars, mainVars
<1>2. \A i \in Slots : slot'[i].content = slot[i].content
  <2>1. CASE ConsumeResult \/ RetainCheck \/ UNCHANGED vars
    BY <2>1 DEF ConsumeResult, RetainCheck, vars
  <2>2. CASE RetainSwap
    <3>1. owner.index \in Slots /\ slot \in [Slots -> SlotStates]
      BY <2>2, HandleIndex DEF RetainSwap, PoolInv, MainHolds, TypeOK
    <3>2. QED
      BY <2>2, <3>1 DEF RetainSwap, SlotStates
  <2>3. QED
    BY <2>1, <2>2
<1>3. \A h \in Handed : h.index \in Slots
  BY HandleIndex DEF Handed, PoolInv
<1>4. QED
  BY <1>1, <1>2, <1>3, Unseen

\* The pool implements the store: results reach the main loop in order, once
\* each, and do not change while they are dispatched or kept.
THEOREM PoolImplementsStore == Spec => StoreSpec
<1>1. Init => Store!Init
  BY InitStore
<1>2. PoolInv /\ PoolInv' /\ [Next]_vars => [Store!Next]_(Store!storeVars)
  <2> SUFFICES ASSUME PoolInv, PoolInv', [Next]_vars
               PROVE  Store!Next \/ UNCHANGED Store!storeVars
    OBVIOUS
  <2>1. CASE PublishResult
    BY <2>1, ProduceStep DEF Store!Next
  <2>2. CASE ReceiveResult
    BY <2>2, DeliverStep DEF Store!Next
  <2>3. CASE AdoptListing
    BY <2>3, KeepStep DEF Store!Next
  <2>4. CASE DropListing
    BY <2>4, DropStep DEF Store!Next
  <2>5. CASE ReleaseOwner
    BY <2>5, FinishStep DEF Store!Next
  <2>6. CASE StartAcquire \/ CleanUp \/ SkipBusySlot \/ PoolExhausted \/ ClaimSlot
               \/ FillResult
    BY <2>6, WorkerUnseen DEF Store!storeVars
  <2>7. CASE ConsumeResult \/ RetainCheck \/ RetainSwap \/ UNCHANGED vars
    BY <2>7, MainUnseen DEF Store!storeVars
  <2>8. QED
    BY <2>1, <2>2, <2>3, <2>4, <2>5, <2>6, <2>7 DEF Next, Worker, MainLoop
<1>3. QED
  BY <1>1, <1>2, PoolInvariant, PTL DEF Spec, StoreSpec, Store!Spec

=============================================================================
