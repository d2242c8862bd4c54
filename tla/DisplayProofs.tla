---------------------------- MODULE DisplayProofs ----------------------------
(***************************************************************************)
(* The way of a frame to the panel: the frames in the pool and the queue,  *)
(* the ghosts its refreshes leave, and the bus, the light and the image    *)
(* that drawing it needs.  The three parts share nothing but the module.   *)
(***************************************************************************)
EXTENDS FramePipeline, RefreshDebt, DisplayPanel, Integers, SequenceTheorems, TLAPS

-----------------------------------------------------------------------------
(* FramesKept, for any pool, queue and number of frames.  A slot's count   *)
(* is the number of hands that hold it, so a frame in a hand stays what it *)
(* is; the frames in the renderer's hands are older than the queued ones,  *)
(* those older than the one being built.  A wish for quality that is owed  *)
(* is in one of those that the queue cannot refuse.                        *)

Slots == FrameSlots \cup {NoSlot}
Generation(s) == FrameOf(s).generation

PoolShape(p) ==
    /\ p = [s \in FrameSlots |-> [references |-> p[s].references, frame |-> p[s].frame]]
    /\ \A s \in FrameSlots : p[s].references \in Nat
FrameShape(f) ==
    f = [view |-> f.view, generation |-> f.generation, body |-> f.body, mark |-> f.mark,
         region |-> f.region, quality |-> f.quality]

Building == {"check", "reclaim", "send"}

ShapeInv ==
    /\ PoolShape(pool)
    /\ requests \in Seq(FrameSlots) /\ Len(requests) <= QueueLength
    /\ producer = [step |-> producer.step, slot |-> producer.slot]
    /\ renderer = [step |-> renderer.step, next |-> renderer.next,
                   quality |-> renderer.quality]
    /\ {producer.slot, renderer.next, latest, presented, guard} \subseteq Slots
    /\ producer.slot # NoSlot <=> producer.step \in Building
    /\ producer.slot # NoSlot => FrameShape(FrameOf(producer.slot))
    /\ producer.step = "send" => Len(requests) < QueueLength
    /\ renderer.next # NoSlot => renderer.step \in {"drain", "draw", "present", "drop"}
    /\ renderer.step \in {"draw", "present", "drop"} => renderer.next # NoSlot
    /\ renderer.step = "drop" => presented = renderer.next
    /\ renderer.step = "drain" /\ renderer.next = NoSlot => ~ renderer.quality

Queued(s) == \E i \in DOMAIN requests : requests[i] = s
Count(b) == IF b THEN 1 ELSE 0

\* The hands that hold a slot.
Users(s) ==
    Count(s = producer.slot) + Count(Queued(s)) + Count(s = renderer.next)
    + Count(s = latest) + Count(s = presented) + Count(s = guard)

RefsInv == \A s \in FrameSlots : pool[s].references = Users(s)

\* In the hands of the renderer or of a touch.
Shown(s) == s # NoSlot /\ s \in {renderer.next, latest, presented, guard}
Older(s) == s # NoSlot /\ s \in {latest, presented, guard}

OrderInv ==
    /\ generations \in Nat /\ expected.generation = generations
    /\ \A s \in FrameSlots : Shown(s) \/ Queued(s) =>
           /\ Generation(s) \in Nat /\ Generation(s) <= generations
           /\ producer.step \in Building \cup {"open"} => Generation(s) < generations
    /\ producer.slot # NoSlot => Generation(producer.slot) = generations
    /\ \A i, j \in DOMAIN requests :
           i < j => Generation(requests[i]) < Generation(requests[j])
    /\ \A s, t \in FrameSlots : Shown(s) /\ Queued(t) => Generation(s) < Generation(t)
    /\ renderer.step \in {"drain", "draw", "present"} /\ renderer.next # NoSlot =>
           \A s \in FrameSlots : Older(s) => Generation(s) < Generation(renderer.next)

\* A wish that is owed is not in a frame that may yet be thrown away.
WishInv ==
    owed => \/ renderer.quality /\ renderer.step \in {"drain", "draw"}
            \/ \E i \in DOMAIN requests : FrameOf(requests[i]).quality
            \/ /\ \/ producer.step = "send"
                  \/ producer.step = "check" /\ Len(requests) < QueueLength
               /\ FrameOf(producer.slot).quality

PipelineInv == ShapeInv /\ RefsInv /\ OrderInv /\ WishInv

\* NoSlot is no slot of the pool.
LEMMA NoSlotFact == NoSlot \notin FrameSlots
  BY FrameAssumption DEF FrameAssumption, FrameSlots

\* ui_frame_pool_release and ui_frame_pool_retain, slot by slot.
LEMMA ReleaseFacts ==
    ASSUME NEW p, PoolShape(p), NEW s \in Slots, s # NoSlot => p[s].references > 0
    PROVE  /\ PoolShape(Released(p, s))
           /\ \A x \in FrameSlots :
                /\ Released(p, s)[x].references = p[x].references - Count(x = s)
                /\ Released(p, s)[x].references > 0 => Released(p, s)[x].frame = p[x].frame
<1>1. CASE s = NoSlot
  BY <1>1, NoSlotFact DEF Released, PoolShape, Count
<1>2. CASE s # NoSlot
  <2> DEFINE e == [references |-> p[s].references - 1,
                   frame |-> IF p[s].references = 1 THEN Nothing ELSE p[s].frame]
  <2>1. Released(p, s) = [p EXCEPT ![s] = e] /\ s \in FrameSlots
    BY <1>2 DEF Released, Slots
  <2>2. e.references \in Nat /\ e.references = p[s].references - 1
        /\ (e.references > 0 => e.frame = p[s].frame)
        /\ e = [references |-> e.references, frame |-> e.frame]
    BY <1>2, <2>1 DEF PoolShape
  <2> HIDE DEF e
  <2>3. \A x \in FrameSlots : Released(p, s)[x] = IF x = s THEN e ELSE p[x]
    BY <2>1 DEF PoolShape
  <2>4. PoolShape(Released(p, s))
    BY <2>1, <2>2, <2>3 DEF PoolShape
  <2> QED
    BY <2>2, <2>3, <2>4 DEF PoolShape, Count
<1> QED
  BY <1>1, <1>2

\* A slot that is retained has one hand more, and what is in it stays.
LEMMA RetainFacts ==
    ASSUME NEW p, PoolShape(p), NEW s \in FrameSlots
    PROVE  /\ PoolShape(Retained(p, s))
           /\ \A x \in FrameSlots :
                /\ Retained(p, s)[x].references = p[x].references + Count(x = s)
                /\ Retained(p, s)[x].frame = p[x].frame
<1>1. PICK o : o = p[s] /\ o = [references |-> o.references, frame |-> o.frame]
  BY DEF PoolShape
<1>2. PICK e : e = [o EXCEPT !.references = @ + 1]
  OBVIOUS
<1>3. e.references = p[s].references + 1 /\ e.frame = p[s].frame
      /\ e = [references |-> e.references, frame |-> e.frame]
  BY <1>1, <1>2
<1>4. Retained(p, s) = [p EXCEPT ![s] = e]
  BY <1>1, <1>2 DEF Retained, PoolShape
<1>5. \A x \in FrameSlots : Retained(p, s)[x] = IF x = s THEN e ELSE p[x]
  BY <1>4 DEF PoolShape
<1>6. PoolShape(Retained(p, s))
  BY <1>3, <1>4, <1>5 DEF PoolShape
<1> QED
  BY <1>3, <1>5, <1>6 DEF PoolShape, Count

\* The oldest request leaves the queue.
LEMMA TailFacts ==
    ASSUME requests \in Seq(FrameSlots), requests # <<>>, requests' = Tail(requests),
           \A i, j \in DOMAIN requests : i < j => requests[i] # requests[j]
    PROVE  /\ requests' \in Seq(FrameSlots) /\ Len(requests') = Len(requests) - 1
           /\ Len(requests) \in Nat \ {0} /\ Head(requests) = requests[1]
           /\ Head(requests) \in FrameSlots /\ Queued(Head(requests))
           /\ \A i \in DOMAIN requests' : /\ i \in Nat /\ i + 1 \in DOMAIN requests
                                          /\ requests'[i] = requests[i + 1]
           /\ \A s : Queued(s)' <=> Queued(s) /\ s # Head(requests)
<1>1. /\ Head(requests) \in FrameSlots /\ Tail(requests) \in Seq(FrameSlots)
      /\ Len(Tail(requests)) = Len(requests) - 1
      /\ \A i \in 1 .. Len(Tail(requests)) : Tail(requests)[i] = requests[i + 1]
  BY HeadTailProperties
<1>2. Len(requests) \in Nat \ {0} /\ Head(requests) = requests[1]
      /\ DOMAIN requests = 1 .. Len(requests)
  OBVIOUS
<1>3. DOMAIN requests' = 1 .. Len(requests) - 1
  BY <1>1
<1>4. \A i \in DOMAIN requests' : /\ i \in Nat /\ i + 1 \in DOMAIN requests
                                  /\ requests'[i] = requests[i + 1]
  BY <1>1, <1>2, <1>3
<1>5. ASSUME NEW s, Queued(s)' PROVE Queued(s) /\ s # Head(requests)
  <2>1. PICK i \in DOMAIN requests' : requests'[i] = s
    BY <1>5 DEF Queued
  <2>2. /\ 1 \in DOMAIN requests /\ i + 1 \in DOMAIN requests /\ 1 < i + 1
        /\ requests[i + 1] = s
    BY <1>2, <1>3, <1>4, <2>1
  <2> QED
    BY <1>2, <2>2 DEF Queued
<1>6. ASSUME NEW s, Queued(s), s # Head(requests) PROVE Queued(s)'
  <2>1. PICK k \in DOMAIN requests : requests[k] = s
    BY <1>6 DEF Queued
  <2>2. k \in 2 .. Len(requests)
    BY <1>2, <1>6, <2>1
  <2>3. k - 1 \in DOMAIN requests' /\ k - 1 + 1 = k
    BY <1>2, <1>3, <2>2
  <2>4. requests'[k - 1] = s
    BY <1>4, <2>1, <2>3
  <2> QED
    BY <2>3, <2>4 DEF Queued
<1>7. Queued(Head(requests))
  BY <1>2 DEF Queued
<1> QED
  BY <1>1, <1>2, <1>4, <1>5, <1>6, <1>7

\* A frame is queued.
LEMMA AppendFacts ==
    ASSUME requests \in Seq(FrameSlots), NEW s \in FrameSlots,
           requests' = Append(requests, s)
    PROVE  /\ requests' \in Seq(FrameSlots) /\ Len(requests') = Len(requests) + 1
           /\ Len(requests) \in Nat
           /\ DOMAIN requests = 1 .. Len(requests)
           /\ DOMAIN requests' = 1 .. Len(requests) + 1
           /\ \A i \in DOMAIN requests : requests'[i] = requests[i]
           /\ requests'[Len(requests) + 1] = s
           /\ \A x : Queued(x)' <=> Queued(x) \/ x = s
<1>1. /\ requests' \in Seq(FrameSlots) /\ Len(requests') = Len(requests) + 1
      /\ Len(requests) \in Nat
      /\ DOMAIN requests = 1 .. Len(requests)
      /\ DOMAIN requests' = 1 .. Len(requests) + 1
      /\ \A i \in DOMAIN requests : requests'[i] = requests[i]
      /\ requests'[Len(requests) + 1] = s
  OBVIOUS
<1>2. \A i \in DOMAIN requests' : i \in DOMAIN requests \/ i = Len(requests) + 1
  BY <1>1
<1>3. DOMAIN requests \subseteq DOMAIN requests' /\ Len(requests) + 1 \in DOMAIN requests'
  BY <1>1
<1> QED
  BY <1>1, <1>2, <1>3 DEF Queued

\* No slot is queued twice, and a queued one is in no other hand.
LEMMA QueuedAlone ==
    ASSUME PipelineInv
    PROVE  /\ \A i, j \in DOMAIN requests : i < j => requests[i] # requests[j]
           /\ \A s : Queued(s) =>
                 /\ s \in FrameSlots /\ ~ Shown(s) /\ s # producer.slot
                 /\ Generation(s) \in Nat
<1>1. \A s : Queued(s) => s \in FrameSlots /\ Generation(s) \in Nat
  <2>1. \A s : Queued(s) => s \in FrameSlots
    BY DEF PipelineInv, ShapeInv, Queued
  <2> QED
    BY <2>1 DEF PipelineInv, OrderInv
<1>2. ASSUME NEW i \in DOMAIN requests, NEW j \in DOMAIN requests, i < j
      PROVE  requests[i] # requests[j]
  <2>1. Generation(requests[i]) < Generation(requests[j])
    BY <1>2 DEF PipelineInv, OrderInv
  <2>2. Generation(requests[i]) \in Nat
    BY <1>1 DEF Queued
  <2> HIDE DEF Generation
  <2> QED
    BY <2>1, <2>2
<1>3. ASSUME NEW s, Queued(s) PROVE ~ Shown(s)
  <2>1. Shown(s) => Generation(s) < Generation(s)
    BY <1>1, <1>3 DEF PipelineInv, OrderInv
  <2> QED
    BY <1>1, <1>3, <2>1
<1>4. ASSUME NEW s, Queued(s) PROVE s # producer.slot
  <2>1. s = producer.slot => Generation(s) = generations /\ Generation(s) < generations
    <3>1. s \in FrameSlots /\ s # NoSlot
      BY <1>1, <1>4, NoSlotFact
    <3>2. s = producer.slot => producer.step \in Building
      BY <3>1 DEF PipelineInv, ShapeInv
    <3> QED
      BY <1>4, <3>1, <3>2 DEF PipelineInv, OrderInv
  <2> QED
    BY <1>1, <1>4, <2>1
<1> QED
  BY <1>1, <1>2, <1>3, <1>4

\* A slot in a hand is counted.
LEMMA HandsCounted ==
    ASSUME PipelineInv, NEW s \in FrameSlots,
           s = producer.slot \/ Shown(s) \/ Queued(s)
    PROVE  pool[s].references > 0
  BY DEF PipelineInv, RefsInv, Users, Count, Shown

\* A step that moves no handle leaves every hand and frame as it is.
Still ==
    /\ UNCHANGED <<pool, requests, latest, presented, guard>>
    /\ renderer'.next = renderer.next /\ producer'.slot = producer.slot

\* A step that leaves pool and hands alone leaves frames and counts as they are.
LEMMA StillFacts ==
    ASSUME PipelineInv, Still
    PROVE  /\ RefsInv' /\ PoolShape(pool)'
           /\ \A s : /\ Shown(s)' <=> Shown(s)
                     /\ Older(s)' <=> Older(s)
                     /\ Queued(s)' <=> Queued(s)
                     /\ FrameOf(s)' = FrameOf(s) /\ Generation(s)' = Generation(s)
<1>1. ASSUME NEW s
      PROVE  /\ Shown(s)' <=> Shown(s)
             /\ Older(s)' <=> Older(s)
             /\ Queued(s)' <=> Queued(s)
             /\ FrameOf(s)' = FrameOf(s) /\ Generation(s)' = Generation(s)
  <2>1. (Shown(s)' <=> Shown(s)) /\ (Older(s)' <=> Older(s))
    BY DEF Still, Shown, Older
  <2>2. Queued(s)' <=> Queued(s)
    BY DEF Still, Queued
  <2>3. FrameOf(s)' = FrameOf(s) /\ Generation(s)' = Generation(s)
    BY DEF Still, FrameOf, Generation
  <2> QED
    BY <2>1, <2>2, <2>3
<1>2. RefsInv'
  BY <1>1 DEF Still, PipelineInv, RefsInv, Users, Count
<1>3. PoolShape(pool)'
  BY DEF Still, PipelineInv, ShapeInv, PoolShape
<1> QED
  BY <1>1, <1>2, <1>3

\* The renderer between two handles.
LEMMA RendererStill ==
    ASSUME PipelineInv, Wake \/ DrainDone \/ DrawFrame \/ RefreshStatus
    PROVE  PipelineInv'
<1> USE DEF PipelineInv, ShapeInv
<1>1. /\ UNCHANGED <<producer, expected, generations, requests, latest, presented, guard,
                      pool>>
      /\ renderer' = [step |-> renderer'.step, next |-> renderer'.next,
                      quality |-> renderer'.quality]
      /\ renderer'.next = renderer.next
  <2>1. CASE Wake
    BY <2>1 DEF Wake, rendererOnly
  <2>2. CASE DrainDone
    BY <2>2 DEF DrainDone, rendererOnly
  <2>3. CASE DrawFrame
    BY <2>3 DEF DrawFrame, rendererOnly
  <2>4. CASE RefreshStatus
    BY <2>4 DEF RefreshStatus, rendererOnly
  <2> QED
    BY <2>1, <2>2, <2>3, <2>4
<1>0. /\ renderer'.step \in {"wait", "status", "drain", "draw", "present"}
      /\ renderer'.step \in {"wait", "status"} => renderer.next = NoSlot
      /\ renderer'.step \in {"draw", "present"} => renderer.next # NoSlot
      /\ renderer'.step \in {"drain", "draw", "present"} /\ renderer.next # NoSlot =>
             renderer.step \in {"drain", "draw"}
      /\ owed' => owed /\ (renderer.quality /\ renderer.step \in {"drain", "draw"}
                           => renderer'.quality /\ renderer'.step \in {"drain", "draw"})
      /\ renderer'.step = "drain" => ~ renderer'.quality
  <2>1. CASE Wake
    BY <2>1 DEF Wake
  <2>2. CASE DrainDone
    <3>1. /\ renderer'.step = IF renderer.next = NoSlot THEN "status" ELSE "draw"
          /\ renderer'.quality = renderer.quality
          /\ renderer.step = "drain" /\ UNCHANGED owed
      BY <2>2 DEF DrainDone
    <3>2. \/ renderer'.step = "status" /\ renderer.next = NoSlot
          \/ renderer'.step = "draw" /\ renderer.next # NoSlot
      BY <3>1
    <3> QED
      BY <3>1, <3>2
  <2>3. CASE DrawFrame
    BY <2>3 DEF DrawFrame
  <2>4. CASE RefreshStatus
    BY <2>4 DEF RefreshStatus
  <2> QED
    BY <2>1, <2>2, <2>3, <2>4
<1>2. Still
  BY <1>1 DEF Still
<1>3. ShapeInv'
  BY <1>0, <1>1, <1>2, StillFacts DEF FrameShape
<1>4. OrderInv'
  BY <1>0, <1>1, <1>2, StillFacts DEF OrderInv
<1>5. WishInv'
  BY <1>0, <1>1, <1>2, StillFacts DEF WishInv
<1> QED
  BY <1>2, <1>3, <1>4, <1>5, StillFacts

\* The main loop between two handles: a new view makes every frame an older one.
LEMMA MainStill ==
    ASSUME PipelineInv, SelectView \/ CheckQueue \/ AcquireFails \/ StatusNews
    PROVE  PipelineInv'
<1> USE DEF PipelineInv, ShapeInv
<1>1. /\ UNCHANGED <<renderer, requests, latest, presented, guard, pool, owed>>
      /\ producer' = [step |-> producer'.step, slot |-> producer'.slot]
      /\ producer'.slot = producer.slot
  <2>1. CASE SelectView
    BY <2>1 DEF SelectView, mainOnly, Building
  <2>2. CASE CheckQueue
    BY <2>2 DEF CheckQueue, mainOnly
  <2>3. CASE StatusNews
    BY <2>3 DEF StatusNews
  <2>4. CASE AcquireFails
    BY <2>4 DEF AcquireFails, Refused, mainOnly, Building
  <2> QED
    BY <2>1, <2>2, <2>3, <2>4
<1>2. Still
  BY <1>1 DEF Still
<1>3. Len(requests) \in Nat /\ QueueLength \in Nat
  BY FrameAssumption DEF FrameAssumption
<1>4. CASE SelectView
  <2>1. /\ producer.step \in {"idle", "retry"} /\ producer'.step = "open"
        /\ generations' = generations + 1 /\ expected'.generation = generations + 1
        /\ producer.slot = NoSlot
    BY <1>4 DEF SelectView, Building
  <2>2. ShapeInv'
    BY <1>1, <1>2, <2>1, StillFacts DEF Building
  <2>3. OrderInv'
    BY <1>1, <1>2, <2>1, StillFacts DEF OrderInv, Building
  <2>4. WishInv'
    BY <1>1, <1>2, <2>1, StillFacts DEF WishInv
  <2> QED
    BY <1>2, <2>2, <2>3, <2>4, StillFacts
<1>5. CASE CheckQueue
  <2>1. /\ producer.step = "check" /\ UNCHANGED <<generations, expected>>
        /\ \/ producer'.step = "reclaim" /\ Len(requests) = QueueLength
           \/ producer'.step = "send" /\ Len(requests) < QueueLength
    BY <1>3, <1>5 DEF CheckQueue
  <2>2. ShapeInv'
    BY <1>1, <1>2, <2>1, StillFacts DEF Building, FrameShape
  <2>3. OrderInv'
    BY <1>1, <1>2, <2>1, StillFacts DEF OrderInv, Building
  <2>4. WishInv'
    BY <1>1, <1>2, <1>3, <2>1, StillFacts DEF WishInv
  <2> QED
    BY <1>2, <2>2, <2>3, <2>4, StillFacts
<1>6. CASE StatusNews
  <2>1. UNCHANGED <<producer, generations, expected>>
    BY <1>6 DEF StatusNews
  <2>2. ShapeInv'
    BY <1>1, <1>2, <2>1, StillFacts DEF FrameShape
  <2>3. OrderInv'
    BY <1>1, <1>2, <2>1, StillFacts DEF OrderInv
  <2>4. WishInv'
    BY <1>1, <1>2, <2>1, StillFacts DEF WishInv
  <2> QED
    BY <1>2, <2>2, <2>3, <2>4, StillFacts
<1>7. CASE AcquireFails
  <2>1. /\ producer.step \notin Building /\ producer.slot = NoSlot
        /\ producer'.step \in {"retry", "idle"} /\ UNCHANGED <<generations, expected>>
    BY <1>7 DEF AcquireFails, Refused, Building
  <2>2. ShapeInv'
    BY <1>1, <1>2, <2>1, StillFacts DEF Building
  <2>3. OrderInv'
    BY <1>1, <1>2, <2>1, StillFacts DEF OrderInv, Building
  <2>4. WishInv'
    BY <1>1, <1>2, <2>1, StillFacts DEF WishInv, Building
  <2> QED
    BY <1>2, <2>2, <2>3, <2>4, StillFacts
<1> QED
  BY <1>4, <1>5, <1>6, <1>7

\* When the counts still tell the hands, who has a slot has its frame: only the
\* release of its last reference changes it.
FramesKeptBy(p) ==
    \A s \in FrameSlots : p[s].references > 0 => p[s].frame = pool[s].frame

\* A frame in a hand is counted, so it is kept.
LEMMA InHand ==
    ASSUME RefsInv', FramesKeptBy(pool')
    PROVE  \A s \in FrameSlots :
               (s = producer.slot \/ Shown(s) \/ Queued(s))' =>
                   FrameOf(s)' = FrameOf(s) /\ Generation(s)' = Generation(s)
<1> SUFFICES ASSUME NEW s \in FrameSlots, (s = producer.slot \/ Shown(s) \/ Queued(s))'
             PROVE  FrameOf(s)' = FrameOf(s) /\ Generation(s)' = Generation(s)
  OBVIOUS
<1>1. Users(s)' > 0
  BY DEF Users, Count, Shown
<1>2. pool'[s].references > 0
  BY <1>1 DEF RefsInv
<1> QED
  BY <1>2 DEF FramesKeptBy, FrameOf, Generation

\* A hand of the renderer or of a touch lets go of a slot, or takes one that another
\* of them holds.
HandsMove ==
    /\ UNCHANGED <<producer, expected, generations, requests>>
    /\ renderer' = [step |-> renderer'.step, next |-> renderer'.next,
                    quality |-> renderer'.quality]
    /\ {renderer.next, latest, presented, guard}' \subseteq Slots
    /\ \A s : Shown(s)' => Shown(s)
    /\ renderer'.step \in {"drain", "draw", "present"} /\ renderer'.next # NoSlot =>
           /\ renderer.step \in {"drain", "draw", "present"}
           /\ renderer'.next = renderer.next
           /\ \A s : Older(s)' => Older(s)
    /\ renderer'.next # NoSlot => renderer'.step \in {"drain", "draw", "present", "drop"}
    /\ renderer'.step \in {"draw", "present", "drop"} => renderer'.next # NoSlot
    /\ renderer'.step = "drop" => presented' = renderer'.next
    /\ renderer'.step = "drain" /\ renderer'.next = NoSlot => ~ renderer'.quality
    /\ owed' => owed /\ (renderer.quality /\ renderer.step \in {"drain", "draw"}
                         => renderer'.quality /\ renderer'.step \in {"drain", "draw"})

\* A frame passes from one hand to another.
LEMMA MoveKeeps ==
    ASSUME PipelineInv, HandsMove, PoolShape(pool'), FramesKeptBy(pool'), RefsInv'
    PROVE  PipelineInv'
<1>1. \A s \in FrameSlots :
          (s = producer.slot \/ Shown(s) \/ Queued(s))' =>
              FrameOf(s)' = FrameOf(s) /\ Generation(s)' = Generation(s)
  BY InHand
<1>2. \A s : Queued(s)' <=> Queued(s)
  BY DEF HandsMove, Queued
<1>3. ShapeInv'
  <2>1. producer.slot # NoSlot => FrameOf(producer.slot)' = FrameOf(producer.slot)
    BY <1>1 DEF PipelineInv, ShapeInv, HandsMove, Slots
  <2>2. producer.slot # NoSlot => FrameShape(FrameOf(producer.slot))'
    BY <2>1 DEF PipelineInv, ShapeInv, FrameShape, HandsMove
  <2> QED
    BY <2>2 DEF PipelineInv, ShapeInv, HandsMove
<1>4. OrderInv'
  <2>1. \A i \in DOMAIN requests : requests[i] \in FrameSlots /\ Queued(requests[i])
    BY DEF PipelineInv, ShapeInv, Queued
  <2>2. \A i \in DOMAIN requests : Generation(requests[i])' = Generation(requests[i])
    BY <1>1, <1>2, <2>1 DEF HandsMove
  <2>3. producer.slot # NoSlot => Generation(producer.slot)' = Generation(producer.slot)
    BY <1>1 DEF PipelineInv, ShapeInv, HandsMove, Slots
  <2>4. \A s : Older(s)' => Shown(s)'
    BY DEF Older, Shown
  <2>5. /\ renderer'.step \in {"drain", "draw", "present"} /\ renderer'.next # NoSlot =>
              /\ Generation(renderer.next)' = Generation(renderer.next)
              /\ \A s \in FrameSlots : Older(s)' =>
                     Older(s) /\ Generation(s)' = Generation(s)
    <3>1. renderer'.next # NoSlot => renderer'.next \in FrameSlots /\ Shown(renderer.next)'
      BY DEF HandsMove, Slots, Shown
    <3> QED
      BY <1>1, <2>4, <3>1 DEF HandsMove
  <2> QED
    BY <1>1, <1>2, <2>2, <2>3, <2>5 DEF PipelineInv, OrderInv, HandsMove
<1>5. WishInv'
  <2>1. \A i \in DOMAIN requests : FrameOf(requests[i])' = FrameOf(requests[i])
    BY <1>1, <1>2 DEF PipelineInv, ShapeInv, Queued, HandsMove
  <2>2. producer.slot # NoSlot => FrameOf(producer.slot)' = FrameOf(producer.slot)
    BY <1>1 DEF PipelineInv, ShapeInv, HandsMove, Slots
  <2>3. producer.step \in {"send", "check"} => producer.slot # NoSlot
    BY DEF PipelineInv, ShapeInv, Building
  <2> QED
    BY <2>1, <2>2, <2>3 DEF PipelineInv, WishInv, HandsMove
<1> QED
  BY <1>3, <1>4, <1>5 DEF PipelineInv

\* A held slot is one of the pool's, and counted.
LEMMA HeldFacts ==
    ASSUME PipelineInv
    PROVE  /\ PoolShape(pool)
           /\ \A s \in {latest, presented, guard, renderer.next} :
                 /\ s \in Slots
                 /\ s # NoSlot => s \in FrameSlots /\ pool[s].references > 0
  BY HandsCounted DEF Shown, PipelineInv, ShapeInv, Slots

\* The renderer drops the frame it had, or fails to draw it.
LEMMA RendererMoves ==
    ASSUME PipelineInv, DropLatest \/ FrameFails
    PROVE  PipelineInv'
<1>1. PICK h \in {latest, renderer.next} :
        /\ h = IF DropLatest THEN latest ELSE renderer.next
        /\ pool' = Released(pool, h)
  BY DEF DropLatest, FrameFails
<1>2. /\ PoolShape(pool')
      /\ \A x \in FrameSlots : pool'[x].references = pool[x].references - Count(x = h)
      /\ FramesKeptBy(pool')
  BY <1>1, HeldFacts, ReleaseFacts DEF FramesKeptBy
<1>3. /\ UNCHANGED <<producer, expected, generations, requests, presented, guard>>
      /\ renderer' = [step |-> "status", next |-> NoSlot, quality |-> renderer'.quality]
      /\ latest' = IF DropLatest THEN renderer.next ELSE latest
      /\ owed' => owed /\ renderer.step = "drop"
  <2>1. CASE DropLatest
    BY <2>1 DEF DropLatest, rendererOnly, PipelineInv, ShapeInv
  <2>2. CASE ~ DropLatest
    <3>1. FrameFails
      BY <2>2
    <3>2. /\ UNCHANGED <<producer, expected, generations, requests, presented, guard, latest>>
          /\ renderer' = [step |-> "status", next |-> NoSlot, quality |-> FALSE]
          /\ ~ owed'
      BY <3>1 DEF FrameFails, rendererOnly
    <3> QED
      BY <2>2, <3>2
  <2> QED
    BY <2>1, <2>2
<1>4. RefsInv'
  <2>1. \A s : Queued(s)' <=> Queued(s)
    BY <1>3 DEF Queued
  <2> QED
    BY <1>1, <1>2, <1>3, <2>1, NoSlotFact DEF PipelineInv, RefsInv, Users, Count
<1>5. HandsMove
  <2>1. \A s : Shown(s)' => Shown(s)
    BY <1>3 DEF Shown
  <2>2. {renderer.next, latest, presented, guard}' \subseteq Slots
    BY <1>3, HeldFacts DEF Slots
  <2> QED
    BY <1>3, <2>1, <2>2 DEF HandsMove
<1> QED
  BY <1>2, <1>4, <1>5, MoveKeeps

\* The renderer presents the frame it has drawn.
LEMMA Presents ==
    ASSUME PipelineInv, PresentFrame
    PROVE  PipelineInv'
<1>0. PICK kept : kept = Retained(pool, renderer.next)
  OBVIOUS
<1>1. /\ renderer.step = "present" /\ presented' = renderer.next
      /\ pool' = Released(kept, presented)
      /\ renderer' = [step |-> "drop", next |-> renderer.next, quality |-> renderer.quality]
      /\ UNCHANGED <<producer, expected, generations, requests, latest, guard, owed>>
  BY <1>0 DEF PresentFrame, rendererOnly, PipelineInv, ShapeInv
<1>2. renderer.next # NoSlot /\ renderer.next \in FrameSlots
  BY <1>1 DEF PipelineInv, ShapeInv, Slots
<1>3. /\ PoolShape(kept)
      /\ \A x \in FrameSlots : /\ kept[x].references
                                  = pool[x].references + Count(x = renderer.next)
                               /\ kept[x].frame = pool[x].frame
  BY <1>0, <1>2, HeldFacts, RetainFacts
<1>4. presented # NoSlot => kept[presented].references > 0
  BY <1>3, HeldFacts DEF PoolShape, Count
<1>5. /\ PoolShape(pool')
      /\ \A x \in FrameSlots : /\ pool'[x].references
                                  = kept[x].references - Count(x = presented)
                               /\ pool'[x].references > 0 => pool'[x].frame = kept[x].frame
  BY <1>1, <1>3, <1>4, HeldFacts, ReleaseFacts
<1>6. FramesKeptBy(pool')
  BY <1>3, <1>5 DEF FramesKeptBy
<1>7. RefsInv'
  <2>1. \A s : Queued(s)' <=> Queued(s)
    BY <1>1 DEF Queued
  <2> QED
    BY <1>1, <1>3, <1>5, <2>1, NoSlotFact DEF PipelineInv, RefsInv, Users, Count
<1>8. HandsMove
  <2>1. \A s : Shown(s)' => Shown(s)
    BY <1>1 DEF Shown
  <2>2. {renderer.next, latest, presented, guard}' \subseteq Slots
    BY <1>1, HeldFacts DEF Slots
  <2>3. owed => ~ (renderer.step \in {"drain", "draw"})
    BY <1>1
  <2> QED
    BY <1>1, <1>2, <2>1, <2>2, <2>3 DEF HandsMove
<1> QED
  BY <1>5, <1>6, <1>7, <1>8, MoveKeeps

\* A touch takes the presented frame and lets it go.
LEMMA TouchMoves ==
    ASSUME PipelineInv, ReadPresented \/ EndRead
    PROVE  PipelineInv'
<1>1. /\ UNCHANGED <<producer, expected, generations, requests, latest, presented, renderer,
                      owed>>
      /\ renderer = [step |-> renderer.step, next |-> renderer.next,
                     quality |-> renderer.quality]
  BY DEF ReadPresented, EndRead, PipelineInv, ShapeInv
<1>2. \A s : Queued(s)' <=> Queued(s)
  BY <1>1 DEF Queued
<1>3. CASE ReadPresented
  <2>1. /\ presented \in FrameSlots /\ guard = NoSlot /\ guard' = presented
        /\ pool' = Retained(pool, presented)
    BY <1>3, HeldFacts DEF ReadPresented, Slots
  <2>2. /\ PoolShape(pool')
        /\ \A x \in FrameSlots :
               pool'[x].references = pool[x].references + Count(x = presented)
        /\ FramesKeptBy(pool')
    BY <2>1, HeldFacts, RetainFacts DEF FramesKeptBy
  <2>3. RefsInv'
    BY <1>1, <1>2, <2>1, <2>2, NoSlotFact DEF PipelineInv, RefsInv, Users, Count
  <2>4. HandsMove
    <3>1. \A s : (Shown(s)' => Shown(s)) /\ (Older(s)' => Older(s))
      BY <1>1, <2>1 DEF Shown, Older
    <3>2. {renderer.next, latest, presented, guard}' \subseteq Slots
      BY <1>1, <2>1, HeldFacts DEF Slots
    <3> QED
      BY <1>1, <3>1, <3>2 DEF HandsMove, PipelineInv, ShapeInv
  <2> QED
    BY <2>2, <2>3, <2>4, MoveKeeps
<1>4. CASE EndRead
  <2>1. guard # NoSlot /\ guard' = NoSlot /\ pool' = Released(pool, guard)
    BY <1>4 DEF EndRead
  <2>2. /\ PoolShape(pool')
        /\ \A x \in FrameSlots : pool'[x].references = pool[x].references - Count(x = guard)
        /\ FramesKeptBy(pool')
    BY <2>1, HeldFacts, ReleaseFacts DEF FramesKeptBy
  <2>3. RefsInv'
    BY <1>1, <1>2, <2>1, <2>2, NoSlotFact DEF PipelineInv, RefsInv, Users, Count
  <2>4. HandsMove
    <3>1. \A s : (Shown(s)' => Shown(s)) /\ (Older(s)' => Older(s))
      BY <1>1, <2>1 DEF Shown, Older
    <3>2. {renderer.next, latest, presented, guard}' \subseteq Slots
      BY <1>1, <2>1, HeldFacts DEF Slots
    <3> QED
      BY <1>1, <3>1, <3>2 DEF HandsMove, PipelineInv, ShapeInv
  <2> QED
    BY <2>2, <2>3, <2>4, MoveKeeps
<1> QED
  BY <1>3, <1>4

\* The renderer takes the oldest request, and drops the one it superseded.
LEMMA Drains ==
    ASSUME PipelineInv, DrainOne
    PROVE  PipelineInv'
<1>0. PICK h : h = Head(requests)
  OBVIOUS
<1>1. /\ renderer.step = "drain" /\ requests # <<>>
      /\ pool' = Released(pool, renderer.next) /\ requests' = Tail(requests)
      /\ renderer' = [step |-> "drain", next |-> h,
                      quality |-> renderer.quality \/ FrameOf(h).quality]
      /\ UNCHANGED <<producer, expected, generations, latest, presented, guard, owed>>
  BY <1>0 DEF DrainOne, rendererOnly, PipelineInv, ShapeInv
<1>2. /\ requests' \in Seq(FrameSlots) /\ Len(requests') = Len(requests) - 1
      /\ Len(requests) \in Nat \ {0} /\ h = requests[1]
      /\ h \in FrameSlots /\ Queued(h) /\ 1 \in DOMAIN requests
      /\ \A i \in DOMAIN requests' : /\ i \in Nat /\ i + 1 \in DOMAIN requests
                                     /\ requests'[i] = requests[i + 1]
      /\ \A s : Queued(s)' <=> Queued(s) /\ s # h
  BY <1>0, <1>1, TailFacts, QueuedAlone DEF PipelineInv, ShapeInv
<1>3. ~ Shown(h) /\ h # producer.slot /\ h # NoSlot
  BY <1>2, QueuedAlone, NoSlotFact
<1>4. /\ PoolShape(pool')
      /\ \A x \in FrameSlots :
             pool'[x].references = pool[x].references - Count(x = renderer.next)
      /\ FramesKeptBy(pool')
  BY <1>1, HeldFacts, ReleaseFacts DEF FramesKeptBy
<1>5. RefsInv'
  BY <1>1, <1>2, <1>3, <1>4, NoSlotFact DEF PipelineInv, RefsInv, Users, Count
<1>6. \A s \in FrameSlots :
          (s = producer.slot \/ Shown(s) \/ Queued(s))' =>
              FrameOf(s)' = FrameOf(s) /\ Generation(s)' = Generation(s)
  BY <1>4, <1>5, InHand
<1>7. \A s : /\ Shown(s)' => s = h \/ Shown(s)
             /\ Older(s)' => Older(s)
             /\ Older(s) => Shown(s)
  BY <1>1 DEF Shown, Older
<1>8. Shown(h)' /\ FrameOf(h)' = FrameOf(h) /\ Generation(h)' = Generation(h)
  <2>1. Shown(h)'
    BY <1>1, <1>3 DEF Shown
  <2> QED
    BY <1>2, <1>6, <2>1
<1>9. ShapeInv'
  <2>1. producer.slot # NoSlot => FrameOf(producer.slot)' = FrameOf(producer.slot)
    BY <1>1, <1>6 DEF PipelineInv, ShapeInv, Slots
  <2>2. producer.slot # NoSlot => FrameShape(FrameOf(producer.slot))'
    BY <1>1, <2>1 DEF PipelineInv, ShapeInv, FrameShape
  <2>3. /\ Len(requests') <= QueueLength
        /\ producer.step = "send" => Len(requests') < QueueLength
    BY <1>2, FrameAssumption DEF PipelineInv, ShapeInv, FrameAssumption
  <2> QED
    BY <1>1, <1>2, <1>3, <1>4, <2>2, <2>3 DEF PipelineInv, ShapeInv, Slots
<1>10. \A i \in DOMAIN requests' :
          /\ requests'[i] \in FrameSlots
          /\ Generation(requests'[i]) \in Nat
          /\ Generation(h) < Generation(requests'[i])
          /\ Queued(requests[i])'
          /\ FrameOf(requests[i])' = FrameOf(requests'[i])
          /\ Generation(requests[i])' = Generation(requests'[i])
  <2> SUFFICES ASSUME NEW i \in DOMAIN requests'
               PROVE  /\ requests'[i] \in FrameSlots
                      /\ Generation(requests'[i]) \in Nat
                      /\ Generation(h) < Generation(requests'[i])
                      /\ Queued(requests[i])'
                      /\ FrameOf(requests[i])' = FrameOf(requests'[i])
                      /\ Generation(requests[i])' = Generation(requests'[i])
    OBVIOUS
  <2>1. i + 1 \in DOMAIN requests /\ 1 < i + 1 /\ requests'[i] = requests[i + 1]
    <3>1. i \in Nat /\ i # 0
      BY <1>2
    <3> QED
      BY <1>2, <3>1
  <2>2. Queued(requests'[i])
    BY <2>1 DEF Queued
  <2>3. Queued(requests[i])'
    BY DEF Queued
  <2>4. Generation(h) < Generation(requests'[i])
    BY <1>2, <2>1 DEF PipelineInv, OrderInv
  <2> QED
    BY <1>6, <2>2, <2>3, <2>4, QueuedAlone
<1>11. OrderInv'
  <2>0. h \in FrameSlots /\ Queued(h) /\ \A s : Queued(s)' => Queued(s)
    BY <1>2
  <2>1. \A i, j \in DOMAIN requests' : i < j =>
            Generation(requests'[i]) < Generation(requests'[j])
    <3> SUFFICES ASSUME NEW i \in DOMAIN requests', NEW j \in DOMAIN requests', i < j
                 PROVE  Generation(requests'[i]) < Generation(requests'[j])
      OBVIOUS
    <3>1. i + 1 \in DOMAIN requests /\ j + 1 \in DOMAIN requests /\ i + 1 < j + 1
      BY <1>2
    <3>2. Generation(requests[i + 1]) < Generation(requests[j + 1])
      BY <3>1 DEF PipelineInv, OrderInv
    <3> QED
      BY <1>2, <3>2
  <2>2. \A i, j \in DOMAIN requests' : i < j =>
            Generation(requests[i])' < Generation(requests[j])'
    BY <1>10, <2>1
  <2>3. \A s \in FrameSlots : Shown(s)' \/ Queued(s)' =>
           /\ Generation(s)' = Generation(s)
           /\ Shown(s) \/ Queued(s)
    BY <1>6, <1>7, <2>0
  <2>4. \A s, u \in FrameSlots : Shown(s)' /\ Queued(u)' =>
           Generation(s) < Generation(u)
    <3> SUFFICES ASSUME NEW s \in FrameSlots, NEW u \in FrameSlots, Shown(s)', Queued(u)'
                 PROVE  Generation(s) < Generation(u)
      OBVIOUS
    <3>1. CASE s = h
      <4>1. PICK i \in DOMAIN requests' : requests'[i] = u
        BY DEF Queued
      <4> QED
        BY <1>10, <3>1, <4>1
    <3>2. CASE s # h
      BY <1>7, <2>0, <3>2 DEF PipelineInv, OrderInv
    <3> QED
      BY <3>1, <3>2
  <2>5. \A s \in FrameSlots : Older(s)' => Generation(s) < Generation(h)
    BY <1>7, <2>0 DEF PipelineInv, OrderInv
  <2>6. \A s \in FrameSlots : Older(s)' => Generation(s)' = Generation(s)
    BY <1>6 DEF Older, Shown
  <2>7. producer.slot # NoSlot => Generation(producer.slot)' = Generation(producer.slot)
    BY <1>1, <1>6 DEF PipelineInv, ShapeInv, Slots
  <2> QED
    BY <1>1, <1>8, <2>2, <2>3, <2>4, <2>5, <2>6, <2>7 DEF PipelineInv, OrderInv
<1>12. WishInv'
  <2>1. producer.step \in {"send", "check"} => FrameOf(producer.slot)' = FrameOf(producer.slot)
    BY <1>1, <1>6 DEF PipelineInv, ShapeInv, Slots, Building
  <2>2. \A i \in DOMAIN requests : FrameOf(requests[i]).quality =>
            \/ FrameOf(h).quality
            \/ \E j \in DOMAIN requests' : FrameOf(requests[j])'.quality
    <3> SUFFICES ASSUME NEW i \in DOMAIN requests, FrameOf(requests[i]).quality, i # 1
                 PROVE  \E j \in DOMAIN requests' : FrameOf(requests[j])'.quality
      BY <1>2
    <3>1. requests[i] # h
      BY <1>2, QueuedAlone
    <3>2. PICK j \in DOMAIN requests' : requests'[j] = requests[i]
      BY <1>2, <3>1 DEF Queued
    <3> QED
      BY <1>10, <3>2
  <2>3. Len(requests') < Len(requests) /\ Len(requests') \in Nat /\ Len(requests) \in Nat
        /\ QueueLength \in Nat
    BY <1>2, FrameAssumption DEF FrameAssumption
  <2>4. \/ ~ owed
        \/ renderer.quality
        \/ FrameOf(h).quality
        \/ \E j \in DOMAIN requests' : FrameOf(requests[j])'.quality
        \/ /\ \/ producer.step = "send"
              \/ producer.step = "check" /\ Len(requests') < QueueLength
           /\ FrameOf(producer.slot)'.quality
    BY <2>1, <2>2, <2>3 DEF PipelineInv, WishInv
  <2>5. renderer'.step = "drain"
        /\ (renderer'.quality <=> renderer.quality \/ FrameOf(h).quality)
    BY <1>1
  <2> QED
    BY <1>1, <2>4, <2>5 DEF WishInv
<1> QED
  BY <1>5, <1>9, <1>11, <1>12 DEF PipelineInv

\* submit_request: the frame that was built is the newest of the queue.
LEMMA Sends == ASSUME PipelineInv, SendRequest PROVE PipelineInv'
<1>1. PICK h : h = producer.slot
  OBVIOUS
<1>2. /\ UNCHANGED <<pool, expected, generations, renderer, latest, presented, guard>>
      /\ producer' = [step |-> "idle", slot |-> NoSlot]
      /\ producer.step = "send" /\ requests' = Append(requests, h)
      /\ owed' = (owed \/ FrameOf(h).quality)
  BY <1>1 DEF SendRequest, mainOnly
<1>3. h \in FrameSlots /\ h # NoSlot /\ Generation(h) = generations /\ generations \in Nat
      /\ requests \in Seq(FrameSlots)
  BY <1>1, <1>2 DEF PipelineInv, ShapeInv, OrderInv, Slots, Building
<1>4. /\ requests' \in Seq(FrameSlots) /\ Len(requests') = Len(requests) + 1
      /\ Len(requests) \in Nat
      /\ DOMAIN requests = 1 .. Len(requests)
      /\ DOMAIN requests' = 1 .. Len(requests) + 1
      /\ \A i \in DOMAIN requests : requests'[i] = requests[i]
      /\ requests'[Len(requests) + 1] = h
      /\ \A x : Queued(x)' <=> Queued(x) \/ x = h
  BY <1>2, <1>3, AppendFacts
<1>5. ~ Queued(h) /\ \A s : Queued(s) => Generation(s) < generations
  BY <1>1, <1>2, QueuedAlone DEF PipelineInv, OrderInv, Building
<1>6. \A s : /\ Shown(s)' <=> Shown(s)
             /\ Older(s)' <=> Older(s)
             /\ FrameOf(s)' = FrameOf(s) /\ Generation(s)' = Generation(s)
  BY <1>2 DEF Shown, Older, FrameOf, Generation
<1>7. RefsInv'
  BY <1>1, <1>2, <1>3, <1>4, <1>5, NoSlotFact DEF PipelineInv, RefsInv, Users, Count
<1>8. ShapeInv'
  <2>1. Len(requests') <= QueueLength
    BY <1>2, <1>4, FrameAssumption DEF PipelineInv, ShapeInv, FrameAssumption
  <2>2. PoolShape(pool)'
    BY <1>2 DEF PipelineInv, ShapeInv, PoolShape
  <2> QED
    BY <1>2, <1>4, <2>1, <2>2 DEF PipelineInv, ShapeInv, Slots, Building
<1>9. OrderInv'
  <2>1. \A i, j \in DOMAIN requests' : i < j =>
            Generation(requests'[i]) < Generation(requests'[j])
    <3> SUFFICES ASSUME NEW i \in DOMAIN requests', NEW j \in DOMAIN requests', i < j
                 PROVE  Generation(requests'[i]) < Generation(requests'[j])
      OBVIOUS
    <3>1. i \in DOMAIN requests /\ requests'[i] = requests[i]
      BY <1>4
    <3>2. CASE j \in DOMAIN requests
      BY <1>4, <3>1, <3>2 DEF PipelineInv, OrderInv
    <3>3. CASE j = Len(requests) + 1
      BY <1>3, <1>4, <1>5, <3>1, <3>3 DEF Queued
    <3> QED
      BY <1>4, <3>2, <3>3
  <2>2. \A i, j \in DOMAIN requests' : i < j =>
            Generation(requests[i])' < Generation(requests[j])'
    BY <1>6, <2>1
  <2>3. \A s \in FrameSlots : Shown(s)' \/ Queued(s)' =>
            Generation(s) \in Nat /\ Generation(s) <= generations
    BY <1>3, <1>4, <1>6 DEF PipelineInv, OrderInv
  <2>4. \A s, u \in FrameSlots : Shown(s)' /\ Queued(u)' => Generation(s) < Generation(u)
    BY <1>2, <1>3, <1>4, <1>6 DEF PipelineInv, OrderInv, Building
  <2> QED
    BY <1>2, <1>6, <2>2, <2>3, <2>4 DEF PipelineInv, OrderInv, Building
<1>10. WishInv'
  <2>1. \A i \in DOMAIN requests : i \in DOMAIN requests' /\ requests'[i] = requests[i]
    BY <1>4
  <2>2. Len(requests) + 1 \in DOMAIN requests' /\ requests'[Len(requests) + 1] = h
    BY <1>4
  <2>3. owed' => \/ renderer.quality /\ renderer.step \in {"drain", "draw"}
                 \/ \E i \in DOMAIN requests' : FrameOf(requests'[i]).quality
    BY <1>1, <1>2, <2>1, <2>2 DEF PipelineInv, WishInv
  <2>4. \A i \in DOMAIN requests' : FrameOf(requests[i])' = FrameOf(requests'[i])
    BY <1>6
  <2> QED
    BY <1>2, <2>3, <2>4 DEF WishInv
<1> QED
  BY <1>7, <1>8, <1>9, <1>10 DEF PipelineInv

\* A slot nobody holds, or the oldest request's, becomes the frame that is built:
\* with f.quality if that request had it.
Acquires(s, f) ==
    /\ pool' = [pool EXCEPT ![s] = [references |-> 1, frame |-> f]]
    /\ FrameShape(f) /\ f.generation = generations' /\ expected'.generation = generations'
    /\ producer' = [step |-> "check", slot |-> s]
    /\ \/ generations' = generations /\ producer.step = "open"
       \/ generations' = generations + 1 /\ producer.step \in {"idle", "retry"}
    /\ \/ requests' = requests /\ pool[s].references = 0
       \/ /\ requests # <<>> /\ s = Head(requests) /\ requests' = Tail(requests)
          /\ FrameOf(s).quality => f.quality
    /\ UNCHANGED <<owed, renderer, latest, presented, guard>>

\* The main loop finds a slot that no hand holds, for a frame of a new generation.
LEMMA AcquireFacts ==
    ASSUME PipelineInv, NEW opened \in BOOLEAN, NEW region, NEW view, NEW body, NEW mark,
           Acquire(opened, region, view, body, mark),
           producer.step \in IF opened THEN {"open"} ELSE {"idle", "retry"}
    PROVE  \E s, f : s \in FrameSlots /\ Acquires(s, f)
<1>1. PICK inherits \in BOOLEAN : inherits <=> Free = {} /\ Reclaimed.quality
  OBVIOUS
<1>2. PICK g : g = IF opened THEN expected.generation ELSE generations + 1
  OBVIOUS
<1>3. PICK s : s = IF Free = {} THEN Reclaimed.slot ELSE CHOOSE x \in Free : TRUE
  OBVIOUS
<1>4. PICK q \in BOOLEAN : q <=> inherits \/ (opened /\ view = "reader")
  OBVIOUS
<1>5. PICK r : r = IF opened \/ inherits THEN "full" ELSE region
  OBVIOUS
<1>6. PICK f : f = [view |-> view, generation |-> g, body |-> body, mark |-> mark,
                    region |-> r, quality |-> q]
  OBVIOUS
<1>7. /\ FrameShape(f) /\ f.generation = g /\ (inherits => f.quality)
  BY <1>4, <1>6 DEF FrameShape
<1>8. /\ pool' = [pool EXCEPT ![s] = [references |-> 1, frame |-> f]]
      /\ producer' = [step |-> "check", slot |-> s]
  BY <1>1, <1>2, <1>3, <1>4, <1>5, <1>6 DEF Acquire
<1>9. /\ expected'.generation = g
      /\ generations' = IF opened THEN generations ELSE g
      /\ expected.generation = generations
  BY <1>2 DEF Acquire, Awaits, PipelineInv, OrderInv
<1>10. s \in FrameSlots
       /\ \/ requests' = requests /\ pool[s].references = 0
          \/ /\ requests # <<>> /\ s = Head(requests) /\ requests' = Tail(requests)
             /\ FrameOf(s).quality => f.quality
  <2>1. CASE Free = {}
    <3>1. requests # <<>> /\ s = Head(requests) /\ requests' = Tail(requests)
          /\ (FrameOf(s).quality => inherits)
      BY <1>1, <1>3, <2>1 DEF Acquire, Reclaimed
    <3>2. Head(requests) \in FrameSlots
      BY <3>1 DEF PipelineInv, ShapeInv
    <3> QED
      BY <1>7, <3>1, <3>2
  <2>2. CASE Free # {}
    <3>1. s \in Free
      BY <1>3, <2>2
    <3> QED
      BY <2>2, <3>1 DEF Free, Acquire
  <2> QED
    BY <2>1, <2>2
<1>11. UNCHANGED <<owed, renderer, latest, presented, guard>>
  BY DEF Acquire, mainOnly
<1> QED
  BY <1>2, <1>7, <1>8, <1>9, <1>10, <1>11 DEF Acquires

\* The main loop builds a frame: on opening, for a change, or again after a refusal.
LEMMA Builds == ASSUME PipelineInv, OpenFrame \/ ChangeBody \/ ChangeMark \/ Resubmit
                PROVE  PipelineInv'
<1>1. PICK s, f : s \in FrameSlots /\ Acquires(s, f)
  <2>1. CASE OpenFrame
    BY <2>1, AcquireFacts DEF OpenFrame
  <2>2. CASE ChangeBody
    BY <2>2, AcquireFacts DEF ChangeBody
  <2>3. CASE ChangeMark
    BY <2>3, AcquireFacts DEF ChangeMark
  <2>4. CASE Resubmit
    BY <2>4, AcquireFacts DEF Resubmit
  <2> QED
    BY <2>1, <2>2, <2>3, <2>4
<1>2. /\ s \in FrameSlots /\ s # NoSlot /\ producer.slot = NoSlot
      /\ producer.step \in {"open", "idle", "retry"}
      /\ requests \in Seq(FrameSlots) /\ PoolShape(pool) /\ Len(requests) <= QueueLength
      /\ Len(requests) \in Nat /\ QueueLength \in Nat /\ generations \in Nat
  BY <1>1, NoSlotFact, FrameAssumption
     DEF PipelineInv, ShapeInv, OrderInv, Acquires, Building, FrameAssumption
<1>3. /\ \A x \in FrameSlots :
             pool'[x] = IF x = s THEN [references |-> 1, frame |-> f] ELSE pool[x]
      /\ PoolShape(pool')
  BY <1>1, <1>2 DEF PoolShape, Acquires
<1>4. /\ FrameOf(s)' = f /\ Generation(s)' = generations' /\ FrameShape(f)
      /\ \A x \in FrameSlots : x # s =>
             FrameOf(x)' = FrameOf(x) /\ Generation(x)' = Generation(x)
  BY <1>1, <1>3 DEF FrameOf, Generation, Acquires
<1>5. /\ UNCHANGED <<renderer, latest, presented, guard, owed>>
      /\ producer' = [step |-> "check", slot |-> s]
      /\ \A x : (Shown(x)' <=> Shown(x)) /\ (Older(x)' <=> Older(x))
  BY <1>1 DEF Acquires, Shown, Older
<1>6. /\ ~ Shown(s)
      /\ \A x : Queued(x)' <=> Queued(x) /\ x # s
      /\ requests' \in Seq(FrameSlots)
      /\ \/ /\ requests' = requests
            /\ ~ Queued(s)
         \/ /\ Queued(s) /\ Len(requests') = Len(requests) - 1
            /\ FrameOf(s).quality => f.quality
            /\ \A i \in DOMAIN requests' : /\ i \in Nat /\ i + 1 \in DOMAIN requests
                                           /\ requests'[i] = requests[i + 1]
  <2>1. CASE requests' = requests /\ pool[s].references = 0
    <3>1. ~ Shown(s) /\ ~ Queued(s)
      BY <1>2, <2>1, HandsCounted
    <3> QED
      BY <1>2, <2>1, <3>1 DEF Queued
  <2>2. CASE /\ requests # <<>> /\ s = Head(requests) /\ requests' = Tail(requests)
             /\ FrameOf(s).quality => f.quality
    BY <1>2, <2>2, QueuedAlone, TailFacts
  <2> QED
    BY <1>1, <2>1, <2>2 DEF Acquires
<1>7. RefsInv'
  <2>1. pool'[s].references = 1
    BY <1>2, <1>3
  <2>2. Users(s)' = 1
    BY <1>2, <1>5, <1>6 DEF Users, Count, Shown
  <2>3. ASSUME NEW x \in FrameSlots, x # s
        PROVE  pool'[x].references = pool[x].references /\ Users(x)' = Users(x)
    <3>1. pool'[x] = pool[x]
      BY <1>3, <2>3
    <3>2. (Queued(x)' <=> Queued(x)) /\ x # producer.slot /\ x # producer'.slot
      BY <1>2, <1>5, <1>6, <2>3, NoSlotFact
    <3> QED
      BY <1>5, <3>1, <3>2 DEF Users, Count
  <2> QED
    BY <2>1, <2>2, <2>3 DEF PipelineInv, RefsInv
<1>8. ShapeInv'
  <2>1. Len(requests') <= QueueLength
    BY <1>2, <1>6
  <2> QED
    BY <1>2, <1>3, <1>4, <1>5, <1>6, <2>1 DEF PipelineInv, ShapeInv, Slots, Building
<1>9. \A x \in FrameSlots : Shown(x)' \/ Queued(x)' =>
          /\ x # s /\ (Shown(x) \/ Queued(x))
          /\ Generation(x)' = Generation(x) /\ Generation(x) \in Nat
          /\ Generation(x) < generations'
  BY <1>1, <1>2, <1>4, <1>5, <1>6 DEF PipelineInv, OrderInv, Acquires
<1>10. \A i \in DOMAIN requests' :
          /\ requests'[i] \in FrameSlots /\ requests'[i] # s
          /\ Generation(requests[i])' = Generation(requests'[i])
  <2> SUFFICES ASSUME NEW i \in DOMAIN requests'
               PROVE  /\ requests'[i] \in FrameSlots /\ requests'[i] # s
                      /\ Generation(requests[i])' = Generation(requests'[i])
    OBVIOUS
  <2>1. Queued(requests[i])'
    BY DEF Queued
  <2>2. requests'[i] \in FrameSlots
    BY <1>6
  <2> QED
    BY <1>4, <1>6, <2>1, <2>2
<1>11. OrderInv'
  <2>1. \A i, j \in DOMAIN requests' : i < j =>
            Generation(requests'[i]) < Generation(requests'[j])
    <3> SUFFICES ASSUME NEW i \in DOMAIN requests', NEW j \in DOMAIN requests', i < j
                 PROVE  Generation(requests'[i]) < Generation(requests'[j])
      OBVIOUS
    <3>1. CASE requests' = requests
      BY <3>1 DEF PipelineInv, OrderInv
    <3>2. CASE \A k \in DOMAIN requests' : /\ k \in Nat /\ k + 1 \in DOMAIN requests
                                           /\ requests'[k] = requests[k + 1]
      <4>1. i + 1 \in DOMAIN requests /\ j + 1 \in DOMAIN requests /\ i + 1 < j + 1
        BY <3>2
      <4>2. Generation(requests[i + 1]) < Generation(requests[j + 1])
        BY <4>1 DEF PipelineInv, OrderInv
      <4> QED
        BY <3>2, <4>2
    <3> QED
      BY <1>6, <3>1, <3>2
  <2>2. \A i, j \in DOMAIN requests' : i < j =>
            Generation(requests[i])' < Generation(requests[j])'
    BY <1>10, <2>1
  <2>3. generations' \in Nat /\ expected'.generation = generations'
    BY <1>1, <1>2 DEF Acquires
  <2>4. \A x, y \in FrameSlots : Shown(x)' /\ Queued(y)' =>
            Generation(x)' < Generation(y)'
    BY <1>5, <1>6, <1>9 DEF PipelineInv, OrderInv
  <2>5. renderer.step \in {"drain", "draw", "present"} /\ renderer.next # NoSlot =>
           \A x \in FrameSlots : Older(x)' => Generation(x)' < Generation(renderer.next)'
    <3> SUFFICES ASSUME renderer.step \in {"drain", "draw", "present"},
                        renderer.next # NoSlot, NEW x \in FrameSlots, Older(x)'
                 PROVE  Generation(x)' < Generation(renderer.next)'
      BY <1>5
    <3>1. /\ Older(x) /\ Shown(x)' /\ Shown(renderer.next)'
          /\ renderer.next \in FrameSlots
      BY <1>5 DEF Older, Shown, PipelineInv, ShapeInv, Slots
    <3>2. Generation(x)' = Generation(x)
          /\ Generation(renderer.next)' = Generation(renderer.next)
      BY <1>5, <1>9, <3>1
    <3> QED
      BY <3>1, <3>2 DEF PipelineInv, OrderInv
  <2> QED
    BY <1>4, <1>5, <1>9, <2>2, <2>3, <2>4, <2>5 DEF OrderInv
<1>12. WishInv'
  <2>1. \A i \in DOMAIN requests : FrameOf(requests[i]).quality =>
            \/ f.quality /\ Len(requests') < QueueLength
            \/ \E j \in DOMAIN requests' : FrameOf(requests[j])'.quality
    <3> SUFFICES ASSUME NEW i \in DOMAIN requests, FrameOf(requests[i]).quality
                 PROVE  \/ f.quality /\ Len(requests') < QueueLength
                        \/ \E j \in DOMAIN requests' : FrameOf(requests[j])'.quality
      OBVIOUS
    <3>1. Queued(requests[i]) /\ requests[i] \in FrameSlots
      BY <1>2 DEF Queued
    <3>2. CASE requests[i] = s
      BY <1>2, <1>6, <3>1, <3>2
    <3>3. CASE requests[i] # s
      <4>1. PICK j \in DOMAIN requests' : requests'[j] = requests[i]
        BY <1>6, <3>1, <3>3 DEF Queued
      <4>2. FrameOf(requests[j])' = FrameOf(requests[i])
        BY <1>4, <3>1, <3>3, <4>1
      <4> QED
        BY <4>1, <4>2
    <3> QED
      BY <3>2, <3>3
  <2> QED
    BY <1>2, <1>4, <1>5, <2>1 DEF PipelineInv, WishInv
<1> QED
  BY <1>7, <1>8, <1>11, <1>12 DEF PipelineInv

\* submit_request with the queue full: the oldest request gives its place, and its
\* wish for quality to the frame that was built.
LEMMA GivesWay ==
    ASSUME PipelineInv, ReclaimRequest, requests # <<>>, NEW h, h = producer.slot,
           NEW s, s = Head(requests)
    PROVE  /\ h \in FrameSlots /\ s \in FrameSlots /\ h # s
           /\ PoolShape(pool')
           /\ \A x \in FrameSlots :
                  /\ pool'[x].references = pool[x].references - Count(x = s)
                  /\ pool'[x].references > 0 /\ x # h => FrameOf(x)' = FrameOf(x)
           /\ FrameShape(FrameOf(h))' /\ Generation(h)' = Generation(h)
           /\ FrameOf(s).quality => FrameOf(h)'.quality
<1>1. /\ h \in FrameSlots /\ PoolShape(pool) /\ FrameShape(FrameOf(h))
  BY DEF PipelineInv, ShapeInv, ReclaimRequest, Building, Slots
<1>2. s \in FrameSlots /\ Queued(s)
  BY DEF PipelineInv, ShapeInv, Queued
<1>3. h # s /\ pool[s].references > 0 /\ pool[h].references > 0
  BY <1>1, <1>2, QueuedAlone, HandsCounted
<1>4. PICK kept : kept = Released(pool, s)
  OBVIOUS
<1>5. /\ PoolShape(kept)
      /\ \A x \in FrameSlots :
             /\ kept[x].references = pool[x].references - Count(x = s)
             /\ kept[x].references > 0 => kept[x].frame = FrameOf(x)
  BY <1>1, <1>2, <1>3, <1>4, ReleaseFacts DEF Slots, FrameOf
<1>6. kept[h].frame = FrameOf(h)
  <2>1. kept[h].references = pool[h].references /\ pool[h].references \in Nat
    BY <1>1, <1>3, <1>5 DEF Count, PoolShape
  <2> QED
    BY <1>1, <1>3, <1>5, <2>1
<1>7. CASE ~ FrameOf(s).quality
  <2>1. pool' = kept
    BY <1>4, <1>7 DEF ReclaimRequest, Reclaimed
  <2>2. FrameOf(h)' = FrameOf(h)
    BY <1>6, <2>1 DEF FrameOf
  <2> QED
    BY <1>1, <1>2, <1>3, <1>5, <1>7, <2>1, <2>2 DEF FrameOf, Generation, FrameShape
<1>8. CASE FrameOf(s).quality
  <2>1. PICK f : f = [kept[h].frame EXCEPT !.quality = TRUE, !.region = "full"]
    OBVIOUS
  <2>2. PICK e : e = [kept[h] EXCEPT !.frame = f]
    OBVIOUS
  <2>3. pool' = [kept EXCEPT ![h].frame = [@ EXCEPT !.quality = TRUE, !.region = "full"]]
    BY <1>4, <1>8 DEF ReclaimRequest, Reclaimed
  <2>4. pool' = [kept EXCEPT ![h] = e]
    BY <2>1, <2>2, <2>3
  <2>5. FrameShape(f) /\ f.quality /\ f.generation = Generation(h)
    <3>1. PICK o : o = FrameOf(h)
      OBVIOUS
    <3>2. FrameShape(o) /\ f = [o EXCEPT !.quality = TRUE, !.region = "full"]
      BY <1>1, <1>6, <2>1, <3>1
    <3>3. FrameShape(f) /\ f.quality /\ f.generation = o.generation
      BY <3>2 DEF FrameShape
    <3> QED
      BY <3>1, <3>3 DEF Generation
  <2>6. /\ e = [references |-> e.references, frame |-> e.frame] /\ e.frame = f
        /\ e.references = kept[h].references
    BY <1>1, <1>5, <2>2 DEF PoolShape
  <2>7. \A x \in FrameSlots : pool'[x] = IF x = h THEN e ELSE kept[x]
    BY <1>5, <2>4 DEF PoolShape
  <2>8. PoolShape(pool')
    BY <1>5, <2>4, <2>6, <2>7 DEF PoolShape
  <2>9. FrameOf(h)' = f
    BY <1>1, <2>6, <2>7 DEF FrameOf
  <2>10. \A x \in FrameSlots : pool'[x].references = kept[x].references
    BY <2>6, <2>7
  <2>11. \A x \in FrameSlots : x # h => pool'[x] = kept[x]
    BY <2>7
  <2> QED
    BY <1>1, <1>2, <1>3, <1>5, <2>5, <2>8, <2>9, <2>10, <2>11 DEF FrameOf, Generation, FrameShape
<1> QED
  BY <1>7, <1>8

\* A full queue gives up a frame for the one under construction, or that one is given up.
LEMMA Reclaims == ASSUME PipelineInv, ReclaimRequest PROVE PipelineInv'
<1>1. PICK h : h = producer.slot
  OBVIOUS
<1>2. /\ UNCHANGED <<expected, generations, owed, renderer, latest, presented, guard>>
      /\ producer.step = "reclaim"
      /\ \A x : (Shown(x)' <=> Shown(x)) /\ (Older(x)' <=> Older(x))
  BY DEF ReclaimRequest, mainOnly, Shown, Older
<1>3. h \in FrameSlots /\ h # NoSlot /\ pool[h].references > 0 /\ ~ Shown(h) /\ ~ Queued(h)
  <2>1. h \in FrameSlots /\ h # NoSlot /\ Generation(h) = generations
    BY <1>1, <1>2 DEF PipelineInv, ShapeInv, OrderInv, Building, Slots
  <2>2. ~ Shown(h)
    BY <1>2, <2>1 DEF PipelineInv, OrderInv, Building
  <2> QED
    BY <1>1, <2>1, <2>2, QueuedAlone, HandsCounted
<1>4. CASE requests = <<>>
  <2>1. /\ pool' = Released(pool, h) /\ UNCHANGED requests
        /\ producer' = [step |-> producer'.step, slot |-> NoSlot]
        /\ producer'.step \in {"retry", "idle"}
    BY <1>1, <1>4 DEF ReclaimRequest, Refused
  <2>2. /\ PoolShape(pool')
        /\ \A x \in FrameSlots : pool'[x].references = pool[x].references - Count(x = h)
        /\ FramesKeptBy(pool')
    BY <1>3, <2>1, ReleaseFacts DEF FramesKeptBy, PipelineInv, ShapeInv, Slots
  <2>3. \A x : ~ Queued(x) /\ ~ Queued(x)'
    BY <1>4, <2>1 DEF Queued
  <2>4. RefsInv'
    BY <1>1, <1>2, <1>3, <2>1, <2>2, <2>3, NoSlotFact
       DEF PipelineInv, RefsInv, Users, Count
  <2>5. \A x \in FrameSlots : Shown(x)' => Generation(x)' = Generation(x)
    BY <2>2, <2>4, InHand
  <2>6. ShapeInv'
    BY <1>2, <2>1, <2>2 DEF PipelineInv, ShapeInv, Building, Slots
  <2>7. OrderInv'
    <3>1. renderer.step \in {"drain", "draw", "present"} /\ renderer.next # NoSlot =>
             \A x \in FrameSlots : Older(x)' => Generation(x)' < Generation(renderer.next)'
      <4> SUFFICES ASSUME renderer.step \in {"drain", "draw", "present"},
                          renderer.next # NoSlot, NEW x \in FrameSlots, Older(x)'
                   PROVE  Generation(x)' < Generation(renderer.next)'
        BY <1>2
      <4>1. /\ Older(x) /\ Shown(x)' /\ Shown(renderer.next)'
            /\ renderer.next \in FrameSlots
        BY <1>2 DEF Older, Shown, PipelineInv, ShapeInv, Slots
      <4>2. Generation(x)' = Generation(x)
            /\ Generation(renderer.next)' = Generation(renderer.next)
        BY <1>2, <2>5, <4>1
      <4> QED
        BY <4>1, <4>2 DEF PipelineInv, OrderInv
    <3> QED
      BY <1>2, <1>4, <2>1, <2>3, <2>5, <3>1 DEF PipelineInv, OrderInv, Building
  <2>8. WishInv'
    BY <1>2, <1>4, <2>1 DEF PipelineInv, WishInv
  <2> QED
    BY <2>4, <2>6, <2>7, <2>8 DEF PipelineInv
<1>5. CASE requests # <<>>
  <2>1. PICK s : s = Head(requests)
    OBVIOUS
  <2>2. /\ requests' = Tail(requests)
        /\ producer' = [step |-> "send", slot |-> h]
    BY <1>1, <1>5 DEF ReclaimRequest, PipelineInv, ShapeInv
  <2>3. /\ s \in FrameSlots /\ h # s
        /\ PoolShape(pool')
        /\ \A x \in FrameSlots :
               /\ pool'[x].references = pool[x].references - Count(x = s)
               /\ pool'[x].references > 0 /\ x # h => FrameOf(x)' = FrameOf(x)
        /\ FrameShape(FrameOf(h))' /\ Generation(h)' = Generation(h)
        /\ FrameOf(s).quality => FrameOf(h)'.quality
    BY <1>1, <1>5, <2>1, GivesWay
  <2>4. /\ requests' \in Seq(FrameSlots) /\ Len(requests') = Len(requests) - 1
        /\ Len(requests) \in Nat \ {0} /\ s = requests[1]
        /\ Queued(s)
        /\ \A i \in DOMAIN requests' : /\ i \in Nat /\ i + 1 \in DOMAIN requests
                                       /\ requests'[i] = requests[i + 1]
        /\ \A x : Queued(x)' <=> Queued(x) /\ x # s
    BY <1>5, <2>1, <2>2, QueuedAlone, TailFacts DEF PipelineInv, ShapeInv
  <2>5. ~ Shown(s)
    BY <2>4, QueuedAlone
  <2>6. RefsInv'
    BY <1>1, <1>2, <2>2, <2>3, <2>4, NoSlotFact DEF PipelineInv, RefsInv, Users, Count
  <2>7. \A x \in FrameSlots : Shown(x)' \/ Queued(x)' =>
            /\ x # h /\ FrameOf(x)' = FrameOf(x) /\ Generation(x)' = Generation(x)
            /\ Shown(x) \/ Queued(x)
    <3> SUFFICES ASSUME NEW x \in FrameSlots, Shown(x)' \/ Queued(x)'
                 PROVE  /\ x # h /\ FrameOf(x)' = FrameOf(x)
                        /\ Generation(x)' = Generation(x)
                        /\ Shown(x) \/ Queued(x)
      OBVIOUS
    <3>1. (Shown(x) \/ Queued(x)) /\ x # h
      BY <1>2, <1>3, <2>4
    <3>2. Users(x)' > 0
      BY DEF Users, Count, Shown
    <3>3. FrameOf(x)' = FrameOf(x)
      BY <2>3, <2>6, <3>1, <3>2 DEF RefsInv
    <3> QED
      BY <3>1, <3>3 DEF Generation
  <2>8. Len(requests') < QueueLength /\ Len(requests') <= QueueLength
    BY <2>4, FrameAssumption DEF PipelineInv, ShapeInv, FrameAssumption
  <2>9. ShapeInv'
    BY <1>2, <1>3, <2>2, <2>3, <2>4, <2>8 DEF PipelineInv, ShapeInv, Building, Slots
  <2>10. \A i \in DOMAIN requests' :
             /\ FrameOf(requests[i])' = FrameOf(requests'[i])
             /\ Generation(requests[i])' = Generation(requests'[i])
    <3> SUFFICES ASSUME NEW i \in DOMAIN requests'
                 PROVE  /\ FrameOf(requests[i])' = FrameOf(requests'[i])
                        /\ Generation(requests[i])' = Generation(requests'[i])
      OBVIOUS
    <3>1. Queued(requests[i])' /\ requests'[i] \in FrameSlots
      BY <2>4 DEF Queued
    <3> QED
      BY <2>7, <3>1
  <2>11. OrderInv'
    <3>1. \A i, j \in DOMAIN requests' : i < j =>
              Generation(requests'[i]) < Generation(requests'[j])
      <4> SUFFICES ASSUME NEW i \in DOMAIN requests', NEW j \in DOMAIN requests', i < j
                   PROVE  Generation(requests'[i]) < Generation(requests'[j])
        OBVIOUS
      <4>1. i + 1 \in DOMAIN requests /\ j + 1 \in DOMAIN requests /\ i + 1 < j + 1
        BY <2>4
      <4>2. Generation(requests[i + 1]) < Generation(requests[j + 1])
        BY <4>1 DEF PipelineInv, OrderInv
      <4> QED
        BY <2>4, <4>2
    <3>2. \A i, j \in DOMAIN requests' : i < j =>
              Generation(requests[i])' < Generation(requests[j])'
      BY <2>10, <3>1
    <3>3. \A x, y \in FrameSlots : Shown(x)' /\ Queued(y)' =>
              Generation(x)' < Generation(y)'
      BY <1>2, <2>4, <2>7 DEF PipelineInv, OrderInv
    <3>4. renderer.step \in {"drain", "draw", "present"} /\ renderer.next # NoSlot =>
             \A x \in FrameSlots : Older(x)' => Generation(x)' < Generation(renderer.next)'
      <4> SUFFICES ASSUME renderer.step \in {"drain", "draw", "present"},
                          renderer.next # NoSlot, NEW x \in FrameSlots, Older(x)'
                   PROVE  Generation(x)' < Generation(renderer.next)'
        BY <1>2
      <4>1. /\ Older(x) /\ Shown(x)' /\ Shown(renderer.next)'
            /\ renderer.next \in FrameSlots
        BY <1>2 DEF Older, Shown, PipelineInv, ShapeInv, Slots
      <4>2. Generation(x)' = Generation(x)
            /\ Generation(renderer.next)' = Generation(renderer.next)
        BY <1>2, <2>7, <4>1
      <4> QED
        BY <4>1, <4>2 DEF PipelineInv, OrderInv
    <3>5. Generation(producer.slot)' = generations
      BY <1>1, <1>2, <1>3, <2>2, <2>3 DEF PipelineInv, OrderInv
    <3>6. \A x \in FrameSlots : Shown(x)' \/ Queued(x)' =>
              /\ Generation(x)' \in Nat /\ Generation(x)' <= generations
              /\ Generation(x)' < generations
      BY <1>2, <2>7 DEF PipelineInv, OrderInv, Building
    <3> QED
      BY <1>2, <3>2, <3>3, <3>4, <3>5, <3>6 DEF PipelineInv, OrderInv
  <2>12. WishInv'
    <3>1. \A i \in DOMAIN requests : FrameOf(requests[i]).quality =>
              \/ FrameOf(h)'.quality
              \/ \E j \in DOMAIN requests' : FrameOf(requests[j])'.quality
      <4> SUFFICES ASSUME NEW i \in DOMAIN requests, FrameOf(requests[i]).quality,
                          requests[i] # s
                   PROVE  \E j \in DOMAIN requests' : FrameOf(requests[j])'.quality
        BY <2>3
      <4>1. PICK j \in DOMAIN requests' : requests'[j] = requests[i]
        BY <2>4 DEF Queued
      <4> QED
        BY <2>10, <4>1
    <3>2. producer'.step = "send" /\ producer'.slot = h
      BY <2>2
    <3> QED
      BY <1>2, <3>1, <3>2 DEF PipelineInv, WishInv
  <2> QED
    BY <2>6, <2>9, <2>11, <2>12 DEF PipelineInv
<1> QED
  BY <1>4, <1>5

\* The invariant holds at the start.
LEMMA Starts == ASSUME FramesInit PROVE PipelineInv
<1> USE DEF FramesInit
<1>1. PoolShape(pool) /\ \A s \in FrameSlots : pool[s].references = 0
  BY DEF PoolShape
<1>2. \A s : ~ Queued(s) /\ ~ Shown(s) /\ ~ Older(s)
  BY DEF Queued, Shown, Older
<1>3. RefsInv
  BY <1>1, <1>2, NoSlotFact DEF RefsInv, Users, Count
<1>4. ShapeInv
  BY <1>1, FrameAssumption DEF ShapeInv, Slots, Building, FrameAssumption
<1>5. OrderInv
  BY <1>2 DEF OrderInv
<1> QED
  BY <1>3, <1>4, <1>5 DEF PipelineInv, WishInv

\* PipelineInv gives what is promised of the frames.
LEMMA Keeps == ASSUME PipelineInv PROVE FramesKept
<1>1. QualityKept
  BY DEF PipelineInv, WishInv, QualityKept, ShapeInv, Building
<1>2. ReadyIsNewest
  <2> SUFFICES ASSUME InputReady
               PROVE  /\ requests = <<>> /\ producer.slot = NoSlot
                      /\ renderer.next \in {NoSlot, presented}
    BY DEF ReadyIsNewest
  <2>1. /\ presented \in FrameSlots /\ Shown(presented) /\ Older(presented)
        /\ Generation(presented) = generations /\ generations \in Nat
    BY DEF InputReady, PipelineInv, ShapeInv, OrderInv, Slots, Shown, Older, Generation
  <2>2. producer.slot = NoSlot
    BY <2>1 DEF PipelineInv, ShapeInv, OrderInv
  <2>3. requests = <<>>
    <3> SUFFICES ASSUME requests # <<>> PROVE FALSE
      OBVIOUS
    <3>1. requests[1] \in FrameSlots /\ Queued(requests[1])
      BY DEF PipelineInv, ShapeInv, Queued
    <3> QED
      BY <2>1, <3>1 DEF PipelineInv, OrderInv
  <2>4. renderer.next \in {NoSlot, presented}
    <3> SUFFICES ASSUME renderer.next # NoSlot, renderer.next # presented PROVE FALSE
      OBVIOUS
    <3>1. renderer.next \in FrameSlots /\ Shown(renderer.next)
          /\ renderer.step # "drop"
      BY DEF PipelineInv, ShapeInv, Slots, Shown
    <3>2. renderer.step \in {"drain", "draw", "present"}
      BY <3>1 DEF PipelineInv, ShapeInv
    <3> QED
      BY <2>1, <3>1, <3>2 DEF PipelineInv, OrderInv
  <2> QED
    BY <2>2, <2>3, <2>4
<1> QED
  BY <1>1, <1>2 DEF FramesKept

\* A step of another component.
LEMMA Stutters == ASSUME PipelineInv, UNCHANGED frameVars PROVE PipelineInv'
<1>1. Still /\ UNCHANGED <<producer, renderer, expected, generations, owed>>
  BY DEF frameVars, Still
<1>2. ShapeInv'
  BY <1>1, StillFacts DEF PipelineInv, ShapeInv, Still, FrameShape
<1>3. OrderInv'
  BY <1>1, StillFacts DEF PipelineInv, OrderInv, Still
<1>4. WishInv'
  BY <1>1, StillFacts DEF PipelineInv, WishInv, Still
<1> QED
  BY <1>1, <1>2, <1>3, <1>4, StillFacts DEF PipelineInv

\* Whatever the pool's size, the queue's length and the interleaving of the main
\* loop, the renderer task and a touch's guard: a full refresh that was asked for
\* is not lost with the frame that asked for it, and ui_presentation_input_ready
\* says yes only when no frame newer than the presented one is being built, queued
\* or drawn (ui_frame_pool_*, submit_request, renderer_task).
THEOREM FramesStayKept == FramesSpec => []FramesKept
<1>1. FramesInit => PipelineInv
  BY Starts
<1>2. PipelineInv /\ [FramesNext]_frameVars => PipelineInv'
  <2> SUFFICES ASSUME PipelineInv, [FramesNext]_frameVars PROVE PipelineInv'
    OBVIOUS
  <2>1. CASE SelectView \/ CheckQueue \/ AcquireFails \/ StatusNews
    BY <2>1, MainStill
  <2>2. CASE OpenFrame \/ ChangeBody \/ ChangeMark \/ Resubmit
    BY <2>2, Builds
  <2>3. CASE ReclaimRequest
    BY <2>3, Reclaims
  <2>4. CASE SendRequest
    BY <2>4, Sends
  <2>5. CASE ReadPresented \/ EndRead
    BY <2>5, TouchMoves
  <2>6. CASE Wake \/ DrainDone \/ DrawFrame \/ RefreshStatus
    BY <2>6, RendererStill
  <2>7. CASE DrainOne
    BY <2>7, Drains
  <2>8. CASE FrameFails \/ DropLatest
    BY <2>8, RendererMoves
  <2>9. CASE PresentFrame
    BY <2>9, Presents
  <2>10. CASE UNCHANGED frameVars
    BY <2>10, Stutters
  <2> QED
    BY <2>1, <2>2, <2>3, <2>4, <2>5, <2>6, <2>7, <2>8, <2>9, <2>10
       DEF FramesNext, RendererStep
<1>3. PipelineInv => FramesKept
  BY Keeps
<1> QED
  BY <1>1, <1>2, <1>3, PTL DEF FramesSpec

-----------------------------------------------------------------------------
(* GhostingBounded, for all limits.  A fast refresh is due after at most   *)
(* FastestLimit - 1 fastest ones that leave a ghost, and clears their      *)
(* count; so the ghosts of a region are paid for by its fast refreshes and *)
(* by the fastest ones counted since.  A press may run the count of the    *)
(* fastest ones up to its limit without leaving a ghost, hence the minimum. *)

\* The fastest refreshes counted since the last fast one, as far as they ghost.
Counted(dues) == IF dues.fastest < FastestLimit THEN dues.fastest ELSE FastestLimit - 1

\* What a region may have ghosted.
Paid(dues) == (FastestLimit - 1) * dues.fast + Counted(dues)

OwedType == [fastest : 0 .. FastestLimit, fast : 0 .. FastLimit, text : Nat]

DebtInv ==
    /\ DebtTypeOK
    /\ \A r \in DebtRegions : /\ debt[r].fast < FastLimit /\ debt[r].text < TextLimit
                              /\ ghosts[r] <= Paid(debt[r])

\* A frame that is not quality leaves the counts of fast and text refreshes below
\* their limits, and pays for the ghost it makes.
LEMMA RecordedPays ==
    ASSUME DebtAssumption, NEW dues \in OwedType, NEW mode \in {"fastest", "fast", "text"},
           NEW g \in Nat, NEW h \in {g, g + 1},
           dues.fast < FastLimit, dues.text < TextLimit, g <= Paid(dues),
           h = g + 1 => mode = "fastest" /\ dues.fastest + 1 < FastestLimit,
           mode = "fast" => dues.fast + 1 < FastLimit,
           mode = "text" => dues.text + 1 < TextLimit
    PROVE  /\ Recorded(dues, mode) \in OwedType
           /\ Recorded(dues, mode).fast < FastLimit /\ Recorded(dues, mode).text < TextLimit
           /\ h <= Paid(Recorded(dues, mode))
<1> USE DEF OwedType, DebtAssumption
<1>1. CASE mode = "fastest"
  <2>1. Recorded(dues, mode) = IF dues.fastest < FastestLimit
                               THEN [dues EXCEPT !.fastest = @ + 1] ELSE dues
    BY <1>1 DEF Recorded
  <2>2. Recorded(dues, mode) \in OwedType /\ Recorded(dues, mode).fast = dues.fast
        /\ Recorded(dues, mode).text = dues.text
    BY <2>1
  <2>3. h - g <= Counted(Recorded(dues, mode)) - Counted(dues)
    BY <1>1, <2>1 DEF Counted
  <2>4. (FastestLimit - 1) * dues.fast \in Int /\ Counted(dues) \in Int
        /\ Counted(Recorded(dues, mode)) \in Int
    BY <2>2 DEF Counted
  <2> QED
    BY <2>2, <2>3, <2>4 DEF Paid
<1>2. CASE mode = "fast"
  <2>1. Recorded(dues, mode) =
            [fastest |-> 0, fast |-> dues.fast + 1, text |-> dues.text]
    <3>1. Recorded(dues, mode) =
              [dues EXCEPT !.fastest = 0, !.fast = IF @ < FastLimit THEN @ + 1 ELSE @]
      BY <1>2 DEF Recorded
    <3> QED
      BY <3>1
  <2>2. /\ Recorded(dues, mode) \in OwedType
        /\ Recorded(dues, mode).fast = dues.fast + 1 /\ Recorded(dues, mode).fastest = 0
        /\ Recorded(dues, mode).text = dues.text
    BY <1>2, <2>1
  <2>3. Counted(Recorded(dues, mode)) = 0 /\ Counted(dues) <= FastestLimit - 1
        /\ Counted(dues) \in Int
    BY <2>2 DEF Counted
  <2>4. (FastestLimit - 1) * (dues.fast + 1) =
            (FastestLimit - 1) * dues.fast + (FastestLimit - 1)
    OBVIOUS
  <2>5. (FastestLimit - 1) * dues.fast \in Int
    OBVIOUS
  <2>6. h = g
    BY <1>2
  <2> QED
    BY <1>2, <2>2, <2>3, <2>4, <2>5, <2>6 DEF Paid
<1>3. CASE mode = "text"
  <2>1. Recorded(dues, mode) = [dues EXCEPT !.text = @ + 1]
    BY <1>3 DEF Recorded
  <2>2. /\ Recorded(dues, mode) \in OwedType
        /\ Recorded(dues, mode).fast = dues.fast
        /\ Recorded(dues, mode).fastest = dues.fastest
        /\ Recorded(dues, mode).text = dues.text + 1
    BY <2>1
  <2>3. Paid(Recorded(dues, mode)) = Paid(dues)
    BY <2>2 DEF Paid, Counted
  <2> QED
    BY <1>3, <2>2, <2>3
<1> QED
  BY <1>1, <1>2, <1>3

\* A cleaned panel owes nothing.
LEMMA NothingOwed ==
    ASSUME DebtAssumption
    PROVE  /\ NoDebt \in [DebtRegions -> OwedType] /\ NoGhosts \in [DebtRegions -> Nat]
           /\ \A r \in DebtRegions : /\ NoDebt[r].fast < FastLimit
                                     /\ NoDebt[r].text < TextLimit
                                     /\ NoGhosts[r] <= Paid(NoDebt[r])
<1> USE DEF DebtAssumption
<1>1. [fastest |-> 0, fast |-> 0, text |-> 0] \in OwedType
  BY DEF OwedType
<1>2. Paid([fastest |-> 0, fast |-> 0, text |-> 0]) = 0
  BY DEF Paid, Counted
<1> QED
  BY <1>1, <1>2 DEF NoDebt, NoGhosts

\* A refresh of one region, with the mode resolve_mode gave it or that of a press.
LEMMA RefreshStep ==
    ASSUME DebtAssumption, DebtInv, NEW region \in DebtRegions, NEW mode \in Modes,
           NEW counted \in BOOLEAN, Refresh(region, mode, counted),
           mode = "fastest" /\ counted => debt[region].fastest + 1 < FastestLimit,
           mode = "fast" => debt[region].fast + 1 < FastLimit,
           mode = "text" => debt[region].text + 1 < TextLimit
    PROVE  DebtInv'
<1> USE DEF DebtInv
<1>1. CASE UNCHANGED debtVars
  BY <1>1 DEF debtVars, DebtTypeOK
<1>2. CASE /\ debt' = NoDebt /\ bar' = [count |-> 0, due |-> FALSE]
           /\ ghosts' = NoGhosts /\ cleaned' = TRUE
  BY <1>2, NothingOwed DEF DebtTypeOK, OwedType
<1>3. CASE /\ mode # "quality"
           /\ debt' = [debt EXCEPT ![region] = Recorded(@, mode)]
           /\ ghosts' = IF counted /\ mode = "fastest"
                        THEN [ghosts EXCEPT ![region] = @ + 1] ELSE ghosts
           /\ UNCHANGED <<bar, cleaned>>
  <2>1. debt \in [DebtRegions -> OwedType] /\ ghosts \in [DebtRegions -> Nat]
    BY DEF DebtTypeOK, OwedType
  <2> DEFINE h == ghosts'[region]
  <2>2. /\ h \in {ghosts[region], ghosts[region] + 1}
        /\ h = ghosts[region] + 1 => counted /\ mode = "fastest"
        /\ ghosts' \in [DebtRegions -> Nat]
    BY <1>3, <2>1
  <2>0. \A r \in DebtRegions : r # region => ghosts'[r] = ghosts[r]
    BY <1>3, <2>1
  <2> HIDE DEF h
  <2>3. LET dues == Recorded(debt[region], mode)
        IN  /\ dues \in OwedType /\ dues.fast < FastLimit /\ dues.text < TextLimit
            /\ h <= Paid(dues)
    BY <1>3, <2>1, <2>2, RecordedPays DEF Modes
  <2>4. h \in Nat
    BY <2>1, <2>2
  <2>5. \A r \in DebtRegions :
            /\ debt'[r] = IF r = region THEN Recorded(debt[region], mode) ELSE debt[r]
            /\ ghosts'[r] = IF r = region THEN h ELSE ghosts[r]
    BY <1>3, <2>0, <2>1 DEF h
  <2>6. DebtTypeOK'
    BY <1>3, <2>1, <2>2, <2>3, <2>4 DEF DebtTypeOK, OwedType
  <2> QED
    BY <2>3, <2>5, <2>6
<1> QED
  BY <1>1, <1>2, <1>3 DEF Refresh

\* The mode resolve_mode gives leaves every count below its limit.
LEMMA CleanerBounds ==
    ASSUME DebtAssumption, DebtInv, NEW region \in DebtRegions, NEW asked \in Modes
    PROVE  LET mode == Cleaner(region, asked)
           IN  /\ mode \in Modes
               /\ mode = "fastest" => debt[region].fastest + 1 < FastestLimit
               /\ mode = "fast" => debt[region].fast + 1 < FastLimit
               /\ mode = "text" => debt[region].text + 1 < TextLimit
<1>1. debt[region] \in OwedType
  BY DEF DebtInv, DebtTypeOK, OwedType
<1> QED
  BY <1>1 DEF Cleaner, Modes, OwedType, DebtAssumption

\* Nothing is owed at first,
LEMMA DebtInitInv == DebtInit => DebtInv
<1> SUFFICES ASSUME DebtInit PROVE DebtInv
  OBVIOUS
<1>1. debt = NoDebt /\ ghosts = NoGhosts
  BY DEF DebtInit
<1>2. bar \in [count : Nat, due : BOOLEAN] /\ cleaned \in BOOLEAN
  BY DEF DebtInit
<1> QED
  BY <1>1, <1>2, NothingOwed, DebtAssumption DEF DebtInv, DebtTypeOK, OwedType

\* every step keeps the counts,
LEMMA DebtStepInv == DebtInv /\ [DebtNext]_debtVars => DebtInv'
<1> SUFFICES ASSUME DebtInv, [DebtNext]_debtVars PROVE DebtInv'
  OBVIOUS
<1> USE DebtAssumption
<1>1. CASE RefreshFrame
  <2>1. PICK region \in DebtRegions, asked \in Modes :
            Refresh(region, Cleaner(region, IF bar.due THEN "quality" ELSE asked), TRUE)
    BY <1>1 DEF RefreshFrame
  <2>2. (IF bar.due THEN "quality" ELSE asked) \in Modes
    BY DEF Modes
  <2> QED
    BY <2>1, <2>2, CleanerBounds, RefreshStep
<1>2. CASE ShowPressed
  <2>1. "control" \in DebtRegions /\ "fastest" \in Modes
    BY DEF DebtRegions, Modes
  <2> QED
    BY <1>2, <2>1, RefreshStep DEF ShowPressed
<1>3. CASE ShowReleased
  <2>1. "control" \in DebtRegions /\ "fastest" \in Modes
    BY DEF DebtRegions, Modes
  <2> QED
    BY <1>3, <2>1, CleanerBounds, RefreshStep DEF ShowReleased
<1>4. CASE RefreshBar
  <2>1. CASE UNCHANGED <<debt, ghosts>>
    <3> DEFINE count == IF bar.due THEN bar.count ELSE bar.count + 1
               due == bar.due \/ bar.count + 1 >= StatusLimit
    <3>1. count \in Nat
      BY DEF DebtInv, DebtTypeOK
    <3>2. due \in BOOLEAN
      OBVIOUS
    <3>3. bar' \in {[count |-> count, due |-> due], [count |-> 0, due |-> FALSE]}
          /\ cleaned' = cleaned
      BY <1>4 DEF RefreshBar
    <3> HIDE DEF count, due
    <3>4. [count |-> count, due |-> due] \in [count : Nat, due : BOOLEAN]
      BY <3>1, <3>2, Zenon
    <3>5. [count |-> 0, due |-> FALSE] \in [count : Nat, due : BOOLEAN]
      OBVIOUS
    <3>6. bar' \in [count : Nat, due : BOOLEAN]
      BY <3>3, <3>4, <3>5
    <3> QED
      BY <2>1, <3>3, <3>6 DEF DebtInv, DebtTypeOK
  <2>2. CASE debt' = NoDebt /\ bar' = [count |-> 0, due |-> FALSE] /\ ghosts' = NoGhosts
    BY <1>4, <2>2, NothingOwed DEF RefreshBar, DebtInv, DebtTypeOK, OwedType
  <2> QED
    BY <1>4, <2>1, <2>2 DEF RefreshBar
<1>5. CASE NextTurn
  BY <1>5 DEF NextTurn, DebtInv, DebtTypeOK
<1>6. CASE UNCHANGED debtVars
  BY <1>6 DEF debtVars, DebtInv, DebtTypeOK
<1> QED
  BY <1>1, <1>2, <1>3, <1>4, <1>5, <1>6 DEF DebtNext

\* and they bound the ghosts.
LEMMA InvBounds == DebtInv => GhostingBounded
<1> SUFFICES ASSUME DebtInv, NEW r \in DebtRegions
             PROVE  ghosts[r] <= (FastestLimit - 1) * FastLimit
  BY DEF DebtInv, GhostingBounded
<1>1. debt[r] \in OwedType /\ ghosts[r] \in Nat /\ ghosts[r] <= Paid(debt[r])
      /\ debt[r].fast < FastLimit
  BY DEF DebtInv, DebtTypeOK, OwedType
<1> DEFINE most == FastestLimit - 1
<1>2. most \in Nat /\ FastLimit \in Nat /\ debt[r].fast \in Nat
  BY <1>1, DebtAssumption DEF DebtAssumption, OwedType
<1>3. Counted(debt[r]) \in Int /\ Counted(debt[r]) <= most
  BY <1>1, DebtAssumption DEF DebtAssumption, OwedType, Counted
<1>4. Paid(debt[r]) = most * debt[r].fast + Counted(debt[r])
  BY DEF Paid
<1> HIDE DEF most
<1>5. most * debt[r].fast + most = most * (debt[r].fast + 1)
  BY <1>2
<1>6. most * (debt[r].fast + 1) <= most * FastLimit
  BY <1>1, <1>2
<1>7. most * debt[r].fast \in Int /\ most * (debt[r].fast + 1) \in Int /\ most * FastLimit \in Int
  BY <1>2
<1> DEFINE paid == most * debt[r].fast
           next == most * (debt[r].fast + 1)
           all == most * FastLimit
<1>8. ghosts[r] <= paid + Counted(debt[r]) /\ paid + most = next /\ next <= all
  BY <1>1, <1>4, <1>5, <1>6
<1>9. {paid, next, all} \subseteq Int
  BY <1>7
<1> HIDE DEF paid, next, all
<1>10. ghosts[r] <= all
  BY <1>1, <1>2, <1>3, <1>8, <1>9
<1> QED
  BY <1>10 DEF most, all

\* However frames, presses, releases and upgrades of the panel alternate, a region is
\* cleaned before it has ghosted without end, for all limits.
THEOREM GhostingStaysBounded == DebtSpec => []GhostingBounded
  BY DebtInitInv, DebtStepInv, InvBounds, PTL DEF DebtSpec

-----------------------------------------------------------------------------
(* PanelSafe, for all images and levels: a partial refresh starts from     *)
(* what the glass shows, a muted light stays off, and no one is given the  *)
(* bus with the charger on it.  Three arguments that share the types: who  *)
(* holds the bus, for what the light is suspended, what a baseline says.   *)

\* The holder of the bus is told by where the two tasks stand.
HolderInv ==
    /\ bus.holder = "renderer" <=> draw.step \in {"resetting", "recovering"}
    /\ bus.holder = "battery" <=> charger.step \in {"connect", "attached", "recovering"}
    /\ draw.step = "resetting" => bus.state = "healthy"
    /\ charger.step \in {"connect", "attached"} => bus.state = "healthy"
    /\ ChargerDetached

RefreshSteps == {"mute", "begin", "reset", "resetting", "setup", "write", "drive",
                 "recover", "recovering"}

\* A refresh for which the light was suspended.
Muting(d) == d.step = "unmute" \/ (d.step \in RefreshSteps /\ d.muted)

\* The light is suspended from the muting of a refresh to its restoring; then only
\* a setting that has still to look again may have lit it.
MuteInv ==
    /\ light.suspended <=> Muting(draw)
    /\ light.suspended /\ draw.step # "mute" /\ setter.step \notin {"recheck", "dim"}
           /\ ~ light.missed => light.level = 0

\* A baseline stands for a memory 2 that knows the glass, except while another
\* kind of refresh has rewritten it; a partial refresh began with a baseline.
BaselineInv ==
    /\ driver.baseline /\ (draw.step = "drive" => draw.kind = "partial") =>
           panel.glass \in {"unknown", panel.ram2}
    /\ draw.kind = "partial" /\ draw.step \in {"reset", "resetting", "setup", "write", "drive"}
           => driver.baseline
    /\ draw.step = "drive" /\ draw.kind = "full" /\ ~ panel.asleep =>
           panel.ram2 = draw.image

PanelInv == PanelTypeOK /\ HolderInv /\ MuteInv /\ BaselineInv

\* What a refresh goes on with once it has ended: the light it muted is restored, or
\* the bus is recovered first.
Ends == {Ended(TRUE, FALSE), Ended(FALSE, TRUE), Ended(FALSE, FALSE)}

\* The third arm of Ended.
Rested(o) == [Resting EXCEPT !.ok = o, !.step = IF draw.muted THEN "unmute" ELSE "sleep"]

\* Which arm of Ended is taken, for the arguments it is called with.
LEMMA EndedCases ==
    ASSUME PanelTypeOK
    PROVE  /\ ~ draw.muted => Ended(TRUE, FALSE) = Resting
           /\ draw.muted => Ended(TRUE, FALSE) = Rested(TRUE)
           /\ ~ draw.retried => Ended(FALSE, TRUE) = [draw EXCEPT !.step = "recover"]
           /\ draw.retried => Ended(FALSE, TRUE) = Rested(FALSE)
           /\ Ended(FALSE, FALSE) = Rested(FALSE)
<1>1. draw.muted \in BOOLEAN /\ draw.retried \in BOOLEAN
  BY DEF PanelTypeOK, DrawType
<1> QED
  BY <1>1, Zenon DEF Ended, Rested

\* The light stays suspended until it is restored, and the bus is not held.
LEMMA EndedFacts ==
    ASSUME PanelTypeOK
    PROVE  /\ Ended(TRUE, FALSE) \in Ends /\ Ended(FALSE, TRUE) \in Ends
           /\ Ended(FALSE, FALSE) \in Ends
           /\ \A e \in Ends :
                /\ e.step \in {"idle", "recover", "unmute", "sleep"}
                /\ Muting(e) <=> draw.muted
<1>1. draw.muted \in BOOLEAN /\ draw.retried \in BOOLEAN
  BY DEF PanelTypeOK, DrawType
<1>2. \A o \in BOOLEAN :
          /\ Rested(o).step = IF draw.muted THEN "unmute" ELSE "sleep"
          /\ ~ Rested(o).muted
  BY DEF Resting, Rested
<1>3. Resting.step = "idle" /\ ~ Resting.muted
  BY DEF Resting
<1>4. LET e == [draw EXCEPT !.step = "recover"]
      IN  e.step = "recover" /\ e.muted = draw.muted
  BY DEF PanelTypeOK, DrawType
<1>5. ASSUME NEW e \in Ends
      PROVE  /\ e.step \in {"idle", "recover", "unmute", "sleep"}
             /\ Muting(e) <=> draw.muted
  BY <1>1, <1>2, <1>3, <1>4, EndedCases DEF Ends, Muting, RefreshSteps
<1> QED
  BY <1>5 DEF Ends

\* What the renderer's step and the driver's flags are set to has their types.
LEMMA TypeFacts ==
    ASSUME PanelTypeOK
    PROVE  /\ Resting \in DrawType /\ Rested(FALSE) \in DrawType
           /\ Ended(TRUE, FALSE) \in DrawType /\ Ended(FALSE, TRUE) \in DrawType
           /\ Ended(FALSE, FALSE) \in DrawType
           /\ \A step \in DrawSteps : [draw EXCEPT !.step = step] \in DrawType
           /\ After(TRUE) \in DriverType /\ After(FALSE) \in DriverType
           /\ Unlocked \in BusType /\ FaultedBus \in BusType
<1>1. (CHOOSE i \in Images : TRUE) \in Images
  BY PanelAssumption DEF PanelAssumption
<1>2. Resting \in DrawType
  BY <1>1, PanelAssumption DEF PanelAssumption, Resting, DrawType, DrawSteps, Kinds
<1>3. Rested(TRUE) \in DrawType /\ Rested(FALSE) \in DrawType
  BY <1>2 DEF Rested, DrawType, DrawSteps
<1>4. \A step \in DrawSteps : [draw EXCEPT !.step = step] \in DrawType
  BY DEF PanelTypeOK, DrawType
<1>5. [draw EXCEPT !.step = "recover"] \in DrawType
  BY <1>4 DEF DrawSteps
<1>6. draw.muted \in BOOLEAN /\ draw.retried \in BOOLEAN
  BY DEF PanelTypeOK, DrawType
<1>7. /\ Ended(TRUE, FALSE) \in DrawType /\ Ended(FALSE, TRUE) \in DrawType
      /\ Ended(FALSE, FALSE) \in DrawType
  BY <1>2, <1>3, <1>5, <1>6, EndedCases
<1>8. /\ After(TRUE).baseline \in BOOLEAN /\ After(FALSE).baseline \in BOOLEAN
      /\ After(TRUE).awake \in BOOLEAN /\ After(FALSE).awake \in BOOLEAN
  BY DEF PanelTypeOK, DriverType, After
<1>9. After(TRUE) \in DriverType /\ After(FALSE) \in DriverType
  BY DEF PanelTypeOK, DriverType, After
<1>10. Unlocked \in BusType /\ FaultedBus \in BusType
  BY DEF PanelTypeOK, BusType, Clients, Unlocked, FaultedBus
<1> QED
  BY <1>2, <1>3, <1>4, <1>7, <1>9, <1>10

\* However a recovery ends, nobody holds the bus; a bus that works has no charger on it.
LEMMA RecoveryEnded ==
    ASSUME PanelTypeOK, NEW works \in BOOLEAN, NEW step, RecoveryEnds(works, step)
    PROVE  /\ bus'.holder = "nobody" /\ charger'.step = step
           /\ works => bus'.state = "healthy" /\ ~ charger'.attached
           /\ ~ works => bus'.state = "faulted"
<1>1. bus' = [state |-> IF works THEN "healthy" ELSE "faulted", holder |-> "nobody"]
  BY DEF RecoveryEnds
<1>2. PICK cut \in BOOLEAN :
        /\ works => cut
        /\ charger' = [step |-> step, attached |-> charger.attached /\ ~ cut]
  BY Zenon DEF RecoveryEnds
<1>3. charger'.step = step
  BY <1>2
<1>4. ASSUME works PROVE ~ charger'.attached
  <2>1. cut
    BY <1>2, <1>4
  <2>2. charger' = [step |-> step, attached |-> FALSE]
    BY <1>2, <2>1
  <2> QED
    BY <2>2
<1> QED
  BY <1>1, <1>3, <1>4

\* The two clients pass the bus on between them, and the charger off it.
LEMMA HolderStep ==
    PanelTypeOK /\ HolderInv /\ [PanelNext]_panelVars => HolderInv'
<1> SUFFICES ASSUME PanelTypeOK, HolderInv, [PanelNext]_panelVars
             PROVE  HolderInv'
  OBVIOUS
<1> USE DEF PanelTypeOK, DrawType, BusType, ChargerType
<1>1. CASE StartRefresh
  BY <1>1
     DEF HolderInv, ChargerDetached, StartRefresh, NativeKind
<1>2. CASE Mute
  BY <1>2
     DEF HolderInv, ChargerDetached, Mute, Lit
<1>3. CASE BeginDriver
  BY <1>3
     DEF HolderInv, ChargerDetached, BeginDriver, ActualKind
<1>4. CASE ResetPanel
  BY EndedFacts, <1>4
     DEF HolderInv, ChargerDetached, ResetPanel, Locks, LockRefused
<1>5. CASE ReleaseReset
  <2>1. CASE bus' = Unlocked /\ draw' = [draw EXCEPT !.step = "setup"]
    BY <1>5, <2>1 DEF HolderInv, ChargerDetached, ReleaseReset, Unlocked
  <2>2. CASE bus' = FaultedBus /\ draw' = Ended(FALSE, TRUE)
    BY <1>5, <2>2, EndedFacts DEF HolderInv, ChargerDetached, ReleaseReset, FaultedBus
  <2> QED
    BY <1>5, <2>1, <2>2 DEF ReleaseReset
<1>6. CASE SetUpMono
  BY EndedFacts, <1>6
     DEF HolderInv, ChargerDetached, SetUpMono, SetsUp
<1>7. CASE SetUpGray
  BY EndedFacts, <1>7
     DEF HolderInv, ChargerDetached, SetUpGray, SetsUp
<1>8. CASE PreparePartial
  BY EndedFacts, <1>8
     DEF HolderInv, ChargerDetached, PreparePartial, SetsUp
<1>9. CASE WriteMemory
  BY EndedFacts, <1>9
     DEF HolderInv, ChargerDetached, WriteMemory, Written, Spoilt
<1>10. CASE DrivePanel
  BY EndedFacts, <1>10
     DEF HolderInv, ChargerDetached, DrivePanel, Driven
<1>11. CASE RecoverBus
  <2>1. CASE RecoveryBegins("renderer") /\ draw' = [draw EXCEPT !.step = "recovering", !.retried = TRUE]
    BY <1>11, <2>1 DEF HolderInv, ChargerDetached, RecoverBus, RecoveryBegins
  <2>2. CASE UNCHANGED bus /\ draw' = Ended(FALSE, FALSE)
    BY <1>11, <2>2, EndedFacts DEF HolderInv, ChargerDetached, RecoverBus
  <2> QED
    BY <1>11, <2>1, <2>2 DEF RecoverBus
<1>12. CASE RecoveredBus
  <2>1. CASE RecoveryEnds(TRUE, charger.step) /\ draw'.step \in {"begin", "mute"}
    BY <1>12, <2>1, RecoveryEnded DEF HolderInv, ChargerDetached, RecoveredBus
  <2>2. CASE RecoveryEnds(FALSE, charger.step) /\ draw' = Ended(FALSE, FALSE)
    BY <1>12, <2>2, EndedFacts, RecoveryEnded DEF HolderInv, ChargerDetached, RecoveredBus
  <2> QED
    BY <1>12, <2>1, <2>2 DEF RecoveredBus
<1>13. CASE Unmute
  BY <1>13
     DEF HolderInv, ChargerDetached, Unmute
<1>14. CASE LoadLevel
  BY <1>14
     DEF HolderInv, ChargerDetached, LoadLevel
<1>15. CASE RestoreLight
  BY <1>15
     DEF HolderInv, ChargerDetached, RestoreLight, Resting, Lit
<1>16. CASE SleepPanel
  BY <1>16
     DEF HolderInv, ChargerDetached, SleepPanel, Resting
<1>17. CASE AlreadyAsleep
  BY <1>17
     DEF HolderInv, ChargerDetached, AlreadyAsleep, Resting
<1>18. CASE SetLight
  BY <1>18
     DEF HolderInv, ChargerDetached, SetLight
<1>19. CASE CheckSuspended
  BY <1>19
     DEF HolderInv, ChargerDetached, CheckSuspended
<1>20. CASE ApplyLevel
  BY <1>20
     DEF HolderInv, ChargerDetached, ApplyLevel, Lit
<1>21. CASE RecheckSuspended
  BY <1>21
     DEF HolderInv, ChargerDetached, RecheckSuspended, Rechecked
<1>22. CASE DimAgain
  BY <1>22
     DEF HolderInv, ChargerDetached, DimAgain, Lit
<1>23. CASE TakeBus
  BY <1>23
     DEF HolderInv, ChargerDetached, TakeBus, Locks
<1>24. CASE ConnectCharger
  BY <1>24
     DEF HolderInv, ChargerDetached, ConnectCharger, FaultedBus
<1>25. CASE DisconnectCharger
  BY <1>25
     DEF HolderInv, ChargerDetached, DisconnectCharger, Unlocked, FaultedBus
<1>26. CASE CheckBus
  BY <1>26
     DEF HolderInv, ChargerDetached, CheckBus, RecoveryBegins
<1>27. CASE EndRecovery
  <2>1. PICK works \in BOOLEAN : RecoveryEnds(works, "idle")
    BY <1>27 DEF EndRecovery
  <2> QED
    BY <1>27, <2>1, RecoveryEnded DEF HolderInv, ChargerDetached, EndRecovery
<1>28. CASE UNCHANGED panelVars
  BY <1>28 DEF HolderInv, ChargerDetached, panelVars
<1> QED
  BY <1>1, <1>2, <1>3, <1>4, <1>5, <1>6, <1>7, <1>8, <1>9, <1>10, <1>11, <1>12, <1>13, <1>14,
     <1>15, <1>16, <1>17, <1>18, <1>19, <1>20, <1>21, <1>22, <1>23, <1>24, <1>25, <1>26, <1>27,
     <1>28
     DEF PanelNext, RendererActs, SetterActs, BatteryActs

\* A muted light stays off until it is restored.
LEMMA MuteStep ==
    PanelTypeOK /\ MuteInv /\ [PanelNext]_panelVars => MuteInv'
<1> SUFFICES ASSUME PanelTypeOK, MuteInv, [PanelNext]_panelVars
             PROVE  MuteInv'
  OBVIOUS
<1> USE DEF PanelTypeOK, DrawType, LightType, SetterType
<1>1. CASE StartRefresh
  BY <1>1
     DEF MuteInv, Muting, RefreshSteps, StartRefresh, NativeKind
<1>2. CASE Mute
  BY <1>2
     DEF MuteInv, Muting, RefreshSteps, Mute, Lit
<1>3. CASE BeginDriver
  BY <1>3
     DEF MuteInv, Muting, RefreshSteps, BeginDriver, ActualKind
<1>4. CASE ResetPanel
  <2>1. /\ draw.step = "reset" /\ UNCHANGED <<light, setter>>
        /\ draw' = [draw EXCEPT !.step = "resetting"] \/ draw' \in Ends
    BY <1>4, EndedFacts DEF ResetPanel
  <2> QED
    BY <2>1, EndedFacts DEF MuteInv, Muting, RefreshSteps
<1>5. CASE ReleaseReset
  <2>1. /\ draw.step = "resetting" /\ UNCHANGED <<light, setter>>
        /\ draw' = [draw EXCEPT !.step = "setup"] \/ draw' \in Ends
    BY <1>5, EndedFacts DEF ReleaseReset
  <2> QED
    BY <2>1, EndedFacts DEF MuteInv, Muting, RefreshSteps
<1>6. CASE SetUpMono
  <2>1. /\ draw.step = "setup" /\ UNCHANGED <<light, setter>>
        /\ draw' = [draw EXCEPT !.step = "write"] \/ draw' \in Ends
    BY <1>6, EndedFacts DEF SetUpMono, SetsUp
  <2> QED
    BY <2>1, EndedFacts DEF MuteInv, Muting, RefreshSteps
<1>7. CASE SetUpGray
  <2>1. /\ draw.step = "setup" /\ UNCHANGED <<light, setter>>
        /\ draw' = [draw EXCEPT !.step = "write"] \/ draw' \in Ends
    BY <1>7, EndedFacts DEF SetUpGray, SetsUp
  <2> QED
    BY <2>1, EndedFacts DEF MuteInv, Muting, RefreshSteps
<1>8. CASE PreparePartial
  <2>1. /\ draw.step = "setup" /\ UNCHANGED <<light, setter>>
        /\ draw' = [draw EXCEPT !.step = "write"] \/ draw' \in Ends
    BY <1>8, EndedFacts DEF PreparePartial, SetsUp
  <2> QED
    BY <2>1, EndedFacts DEF MuteInv, Muting, RefreshSteps
<1>9. CASE WriteMemory
  <2>1. /\ draw.step = "write" /\ UNCHANGED <<light, setter>>
        /\ draw' = [draw EXCEPT !.step = "drive"] \/ draw' \in Ends
    BY <1>9, EndedFacts DEF WriteMemory
  <2> QED
    BY <2>1, EndedFacts DEF MuteInv, Muting, RefreshSteps
<1>10. CASE DrivePanel
  <2>1. draw.step = "drive" /\ draw' \in Ends /\ UNCHANGED <<light, setter>>
    BY <1>10, EndedFacts DEF DrivePanel
  <2> QED
    BY <2>1, EndedFacts DEF MuteInv, Muting, RefreshSteps
<1>11. CASE RecoverBus
  <2>1. /\ draw.step = "recover" /\ UNCHANGED <<light, setter>>
        /\ \/ draw' = [draw EXCEPT !.step = "recovering", !.retried = TRUE]
           \/ draw' \in Ends
    BY <1>11, EndedFacts DEF RecoverBus
  <2> QED
    BY <2>1, EndedFacts DEF MuteInv, Muting, RefreshSteps
<1>12. CASE RecoveredBus
  <2>1. CASE /\ draw'.step = (IF draw.muted THEN "begin" ELSE "mute") /\ draw'.muted
             /\ light' = [light EXCEPT !.suspended = TRUE] /\ UNCHANGED setter
    BY <1>12, <2>1 DEF RecoveredBus, MuteInv, Muting, RefreshSteps
  <2>2. CASE draw' = Ended(FALSE, FALSE) /\ UNCHANGED <<light, setter>>
    BY <1>12, <2>2, EndedFacts DEF RecoveredBus, MuteInv, Muting, RefreshSteps
  <2> QED
    BY <1>12, <2>1, <2>2 DEF RecoveredBus
<1>13. CASE Unmute
  BY <1>13
     DEF MuteInv, Muting, RefreshSteps, Unmute
<1>14. CASE LoadLevel
  BY <1>14
     DEF MuteInv, Muting, RefreshSteps, LoadLevel
<1>15. CASE RestoreLight
  BY <1>15
     DEF MuteInv, Muting, RefreshSteps, RestoreLight, Resting, Lit
<1>16. CASE SleepPanel
  BY <1>16
     DEF MuteInv, Muting, RefreshSteps, SleepPanel, Resting
<1>17. CASE AlreadyAsleep
  BY <1>17
     DEF MuteInv, Muting, RefreshSteps, AlreadyAsleep, Resting
<1>18. CASE SetLight
  BY <1>18
     DEF MuteInv, Muting, RefreshSteps, SetLight
<1>19. CASE CheckSuspended
  BY <1>19
     DEF MuteInv, Muting, RefreshSteps, CheckSuspended
<1>20. CASE ApplyLevel
  BY <1>20
     DEF MuteInv, Muting, RefreshSteps, ApplyLevel, Lit
<1>21. CASE RecheckSuspended
  BY <1>21
     DEF MuteInv, Muting, RefreshSteps, RecheckSuspended, Rechecked
<1>22. CASE DimAgain
  BY <1>22
     DEF MuteInv, Muting, RefreshSteps, DimAgain, Lit
<1>23. CASE TakeBus
  BY <1>23
     DEF MuteInv, Muting, RefreshSteps, TakeBus, Locks
<1>24. CASE ConnectCharger
  BY <1>24
     DEF MuteInv, Muting, RefreshSteps, ConnectCharger, FaultedBus
<1>25. CASE DisconnectCharger
  BY <1>25
     DEF MuteInv, Muting, RefreshSteps, DisconnectCharger, Unlocked, FaultedBus
<1>26. CASE CheckBus
  BY <1>26
     DEF MuteInv, Muting, RefreshSteps, CheckBus, RecoveryBegins
<1>27. CASE EndRecovery
  BY <1>27
     DEF MuteInv, Muting, RefreshSteps, EndRecovery, RecoveryEnds
<1>28. CASE UNCHANGED panelVars
  BY <1>28 DEF MuteInv, Muting, RefreshSteps, panelVars
<1> QED
  BY <1>1, <1>2, <1>3, <1>4, <1>5, <1>6, <1>7, <1>8, <1>9, <1>10, <1>11, <1>12, <1>13, <1>14,
     <1>15, <1>16, <1>17, <1>18, <1>19, <1>20, <1>21, <1>22, <1>23, <1>24, <1>25, <1>26, <1>27,
     <1>28
     DEF PanelNext, RendererActs, SetterActs, BatteryActs

\* The baseline is given up whenever memory 2 may differ from the glass.
LEMMA BaselineStep ==
    PanelTypeOK /\ BaselineInv /\ [PanelNext]_panelVars => BaselineInv'
<1> SUFFICES ASSUME PanelTypeOK, BaselineInv, [PanelNext]_panelVars
             PROVE  BaselineInv'
  OBVIOUS
<1> USE DEF PanelTypeOK, PanelType, DriverType, DrawType
<1>1. CASE StartRefresh
  BY <1>1
     DEF BaselineInv, Kinds, StartRefresh, NativeKind
<1>2. CASE Mute
  BY <1>2
     DEF BaselineInv, Kinds, Mute, Lit
<1>3. CASE BeginDriver
  BY <1>3
     DEF BaselineInv, Kinds, BeginDriver, ActualKind
<1>4. CASE ResetPanel
  BY EndedFacts, <1>4
     DEF BaselineInv, Kinds, ResetPanel, Locks, LockRefused, After
<1>5. CASE ReleaseReset
  BY EndedFacts, <1>5
     DEF BaselineInv, Kinds, ReleaseReset, Woken, Unlocked, FaultedBus, After
<1>6. CASE SetUpMono
  BY EndedFacts, <1>6
     DEF BaselineInv, Kinds, SetUpMono, SetsUp, After
<1>7. CASE SetUpGray
  BY EndedFacts, <1>7
     DEF BaselineInv, Kinds, SetUpGray, SetsUp, After
<1>8. CASE PreparePartial
  BY EndedFacts, <1>8
     DEF BaselineInv, Kinds, PreparePartial, SetsUp, After
<1>9. CASE WriteMemory
  <2>1. CASE /\ panel' = IF panel.asleep THEN panel ELSE Written
             /\ draw' = [draw EXCEPT !.step = "drive"] /\ UNCHANGED driver
    <3>1. CASE panel.asleep
      BY <1>9, <2>1, <3>1 DEF BaselineInv, WriteMemory
    <3>2. CASE ~ panel.asleep
      BY <1>9, <2>1, <3>2 DEF BaselineInv, Kinds, WriteMemory, Written
    <3> QED
      BY <3>1, <3>2
  <2>2. CASE draw' = Ended(FALSE, FALSE) /\ driver' = After(FALSE)
    BY <2>2, EndedFacts DEF BaselineInv, After
  <2> QED
    BY <1>9, <2>1, <2>2 DEF WriteMemory
<1>10. CASE DrivePanel
  <2>1. CASE draw' = Ended(TRUE, FALSE) /\ ~ panel.asleep /\ panel' = Driven
                /\ driver' = After(TRUE)
    <3>1. draw'.step # "drive" /\ driver'.baseline = (draw.kind # "gray")
      BY <2>1, EndedFacts DEF After
    <3>2. draw.kind = "full" => panel'.glass = draw.image /\ panel'.ram2 = panel.ram2
      BY <2>1 DEF Driven
    <3>3. draw.kind = "partial" =>
            panel'.glass \in {"unknown", draw.image} /\ panel'.ram2 = draw.image
      BY <1>10, <2>1 DEF Driven, BaselineInv, DrivePanel
    <3> QED
      BY <1>10, <2>1, <3>1, <3>2, <3>3, EndedFacts
         DEF BaselineInv, Kinds, DrivePanel
  <2>2. CASE draw' = Ended(FALSE, FALSE) /\ driver' = After(FALSE)
    BY <2>2, EndedFacts DEF BaselineInv, After
  <2> QED
    BY <1>10, <2>1, <2>2 DEF DrivePanel
<1>11. CASE RecoverBus
  BY EndedFacts, <1>11
     DEF BaselineInv, Kinds, RecoverBus, RecoveryBegins, After
<1>12. CASE RecoveredBus
  BY EndedFacts, <1>12
     DEF BaselineInv, Kinds, RecoveredBus, RecoveryEnds, After
<1>13. CASE Unmute
  BY <1>13
     DEF BaselineInv, Kinds, Unmute
<1>14. CASE LoadLevel
  BY <1>14
     DEF BaselineInv, Kinds, LoadLevel
<1>15. CASE RestoreLight
  BY <1>15
     DEF BaselineInv, Kinds, RestoreLight, Resting, Lit
<1>16. CASE SleepPanel
  BY <1>16
     DEF BaselineInv, Kinds, SleepPanel, Resting
<1>17. CASE AlreadyAsleep
  BY <1>17
     DEF BaselineInv, Kinds, AlreadyAsleep, Resting
<1>18. CASE SetLight
  BY <1>18
     DEF BaselineInv, Kinds, SetLight
<1>19. CASE CheckSuspended
  BY <1>19
     DEF BaselineInv, Kinds, CheckSuspended
<1>20. CASE ApplyLevel
  BY <1>20
     DEF BaselineInv, Kinds, ApplyLevel, Lit
<1>21. CASE RecheckSuspended
  BY <1>21
     DEF BaselineInv, Kinds, RecheckSuspended, Rechecked
<1>22. CASE DimAgain
  BY <1>22
     DEF BaselineInv, Kinds, DimAgain, Lit
<1>23. CASE TakeBus
  BY <1>23
     DEF BaselineInv, Kinds, TakeBus, Locks
<1>24. CASE ConnectCharger
  BY <1>24
     DEF BaselineInv, Kinds, ConnectCharger, FaultedBus
<1>25. CASE DisconnectCharger
  BY <1>25
     DEF BaselineInv, Kinds, DisconnectCharger, Unlocked, FaultedBus
<1>26. CASE CheckBus
  BY <1>26
     DEF BaselineInv, Kinds, CheckBus, RecoveryBegins
<1>27. CASE EndRecovery
  BY <1>27
     DEF BaselineInv, Kinds, EndRecovery, RecoveryEnds
<1>28. CASE UNCHANGED panelVars
  BY <1>28 DEF BaselineInv, Kinds, panelVars
<1> QED
  BY <1>1, <1>2, <1>3, <1>4, <1>5, <1>6, <1>7, <1>8, <1>9, <1>10, <1>11, <1>12, <1>13, <1>14,
     <1>15, <1>16, <1>17, <1>18, <1>19, <1>20, <1>21, <1>22, <1>23, <1>24, <1>25, <1>26, <1>27,
     <1>28
     DEF PanelNext, RendererActs, SetterActs, BatteryActs

\* A recovery keeps the types of what it sets.
LEMMA RecoveryTypes ==
    ASSUME PanelTypeOK, NEW works \in BOOLEAN, NEW step \in ChargerSteps,
           RecoveryEnds(works, step)
    PROVE  bus' \in BusType /\ charger' \in ChargerType
<1>1. bus' = [state |-> IF works THEN "healthy" ELSE "faulted", holder |-> "nobody"]
  BY DEF RecoveryEnds
<1>2. PICK cut \in BOOLEAN :
        charger' = [step |-> step, attached |-> charger.attached /\ ~ cut]
  BY Zenon DEF RecoveryEnds
<1>3. (charger.attached /\ ~ cut) \in BOOLEAN
  OBVIOUS
<1> QED
  BY <1>1, <1>2, <1>3 DEF BusType, Clients, ChargerType

\* Every step keeps the types.
LEMMA TypeStep ==
    PanelTypeOK /\ [PanelNext]_panelVars => PanelTypeOK'
<1> SUFFICES ASSUME PanelTypeOK, [PanelNext]_panelVars
             PROVE  PanelTypeOK'
  OBVIOUS
<1> USE DEF PanelTypeOK
<1>1. CASE StartRefresh
  <2>1. draw' \in DrawType
    BY <1>1 DEF StartRefresh, NativeKind, Images, Kinds, DrawSteps, DrawType
  <2>2. light' \in LightType
    BY <1>1 DEF StartRefresh, LightType
  <2> QED
    BY <1>1, <2>1, <2>2 DEF StartRefresh
<1>2. CASE Mute
  <2>1. draw' \in DrawType
    BY TypeFacts, <1>2 DEF Mute, DrawSteps
  <2>2. light' \in LightType
    BY PanelAssumption, <1>2 DEF Mute, Lit, LightType, PanelAssumption
  <2> QED
    BY <1>2, <2>1, <2>2 DEF Mute
<1>3. CASE BeginDriver
  <2>1. draw' \in DrawType
    BY <1>3 DEF BeginDriver, ActualKind, DrawType, DrawSteps, Kinds
  <2> QED
    BY <1>3, <2>1 DEF BeginDriver
<1>4. CASE ResetPanel
  <2>1. draw' \in DrawType
    BY TypeFacts, <1>4 DEF ResetPanel, DrawSteps
  <2>2. bus' \in BusType
    BY <1>4 DEF ResetPanel, Locks, BusType, Clients
  <2>3. driver' \in DriverType
    BY TypeFacts, <1>4 DEF ResetPanel
  <2> QED
    BY <1>4, <2>1, <2>2, <2>3 DEF ResetPanel
<1>5. CASE ReleaseReset
  <2>1. draw' \in DrawType
    BY TypeFacts, <1>5 DEF ReleaseReset, DrawSteps
  <2>2. bus' \in BusType
    BY TypeFacts, <1>5 DEF ReleaseReset
  <2>3. driver' \in DriverType
    BY TypeFacts, <1>5 DEF ReleaseReset
  <2>4. panel' \in PanelType
    BY <1>5 DEF ReleaseReset, Woken, PanelType
  <2> QED
    BY <1>5, <2>1, <2>2, <2>3, <2>4 DEF ReleaseReset
<1>6. CASE SetUpMono
  <2>1. draw' \in DrawType
    BY TypeFacts, <1>6 DEF SetUpMono, SetsUp, DrawSteps
  <2>2. driver' \in DriverType
    BY TypeFacts, <1>6 DEF SetUpMono, SetsUp, DriverType
  <2> QED
    BY <1>6, <2>1, <2>2 DEF SetUpMono, SetsUp
<1>7. CASE SetUpGray
  <2>1. draw' \in DrawType
    BY TypeFacts, <1>7 DEF SetUpGray, SetsUp, DrawSteps
  <2>2. driver' \in DriverType
    BY TypeFacts, <1>7 DEF SetUpGray, SetsUp, DriverType
  <2> QED
    BY <1>7, <2>1, <2>2 DEF SetUpGray, SetsUp
<1>8. CASE PreparePartial
  <2>1. draw' \in DrawType
    BY TypeFacts, <1>8 DEF PreparePartial, SetsUp, DrawSteps
  <2>2. driver' \in DriverType
    BY TypeFacts, <1>8 DEF PreparePartial, SetsUp, DriverType
  <2> QED
    BY <1>8, <2>1, <2>2 DEF PreparePartial, SetsUp
<1>9. CASE WriteMemory
  <2>1. draw' \in DrawType
    BY TypeFacts, <1>9 DEF WriteMemory, DrawSteps
  <2>2. driver' \in DriverType
    BY TypeFacts, <1>9 DEF WriteMemory
  <2>3. panel' \in PanelType
    BY <1>9 DEF WriteMemory, Written, Spoilt, PanelType, Memory, DrawType, Kinds
  <2> QED
    BY <1>9, <2>1, <2>2, <2>3 DEF WriteMemory
<1>10. CASE DrivePanel
  <2>1. draw' \in DrawType
    BY TypeFacts, <1>10 DEF DrivePanel
  <2>2. driver' \in DriverType
    BY TypeFacts, <1>10 DEF DrivePanel
  <2>3. panel' \in PanelType
    BY <1>10 DEF DrivePanel, Driven, PanelType, Memory, Glass, DrawType
  <2> QED
    BY <1>10, <2>1, <2>2, <2>3 DEF DrivePanel
<1>11. CASE RecoverBus
  <2>1. draw' \in DrawType
    <3>1. [draw EXCEPT !.step = "recovering", !.retried = TRUE] \in DrawType
      BY DEF DrawType, DrawSteps
    <3> QED
      BY TypeFacts, <3>1, <1>11 DEF RecoverBus
  <2>2. bus' \in BusType
    <3>1. [state |-> "recovering", holder |-> "renderer"] \in BusType
      BY DEF BusType, Clients
    <3> QED
      BY <3>1, <1>11 DEF RecoverBus, RecoveryBegins
  <2> QED
    BY <1>11, <2>1, <2>2 DEF RecoverBus
<1>12. CASE RecoveredBus
  <2>1. draw' \in DrawType
    <3>1. [draw EXCEPT !.kind = IF @ = "gray" THEN @ ELSE "full", !.muted = TRUE,
                      !.step = IF draw.muted THEN "begin" ELSE "mute"] \in DrawType
      BY DEF DrawType, DrawSteps, Kinds
    <3> QED
      BY TypeFacts, <3>1, <1>12 DEF RecoveredBus
  <2>2. light' \in LightType
    BY <1>12 DEF RecoveredBus, LightType
  <2>3. bus' \in BusType /\ charger' \in ChargerType
    BY RecoveryTypes, <1>12 DEF RecoveredBus, ChargerType
  <2> QED
    BY <1>12, <2>1, <2>2, <2>3 DEF RecoveredBus
<1>13. CASE Unmute
  <2>1. draw' \in DrawType
    BY TypeFacts, <1>13 DEF Unmute, DrawSteps
  <2>2. light' \in LightType
    BY <1>13 DEF Unmute, LightType
  <2> QED
    BY <1>13, <2>1, <2>2 DEF Unmute
<1>14. CASE LoadLevel
  <2>1. draw' \in DrawType
    BY <1>14 DEF LoadLevel, DrawType, DrawSteps, LightType
  <2> QED
    BY <1>14, <2>1 DEF LoadLevel
<1>15. CASE RestoreLight
  <2>1. draw' \in DrawType
    <3>1. Resting \in DrawType
      BY TypeFacts
    <3>2. [Resting EXCEPT !.ok = FALSE, !.step = "sleep"] \in DrawType
      BY <3>1 DEF DrawType, DrawSteps
    <3> QED
      BY <3>1, <3>2, <1>15 DEF RestoreLight
  <2>2. light' \in LightType
    BY <1>15 DEF RestoreLight, Lit, LightType, DrawType
  <2> QED
    BY <1>15, <2>1, <2>2 DEF RestoreLight
<1>16. CASE SleepPanel
  <2>1. draw' \in DrawType
    BY TypeFacts, <1>16 DEF SleepPanel
  <2>2. panel' \in PanelType
    BY <1>16 DEF SleepPanel, PanelType
  <2>3. driver' \in DriverType
    BY <1>16 DEF SleepPanel, DriverType
  <2> QED
    BY <1>16, <2>1, <2>2, <2>3 DEF SleepPanel
<1>17. CASE AlreadyAsleep
  <2>1. draw' \in DrawType
    BY TypeFacts, <1>17 DEF AlreadyAsleep
  <2> QED
    BY <1>17, <2>1 DEF AlreadyAsleep
<1>18. CASE SetLight
  <2>1. setter' \in SetterType
    BY <1>18 DEF SetLight, SetterType, SetterSteps
  <2>2. light' \in LightType
    BY <1>18 DEF SetLight, LightType
  <2> QED
    BY <1>18, <2>1, <2>2 DEF SetLight
<1>19. CASE CheckSuspended
  <2>1. setter' \in SetterType
    BY PanelAssumption, <1>19 DEF CheckSuspended, SetterType, SetterSteps, PanelAssumption
  <2> QED
    BY <1>19, <2>1 DEF CheckSuspended
<1>20. CASE ApplyLevel
  <2>1. setter' \in SetterType
    BY PanelAssumption, <1>20 DEF ApplyLevel, SetterType, SetterSteps, PanelAssumption
  <2>2. light' \in LightType
    BY <1>20 DEF ApplyLevel, Lit, LightType, SetterType
  <2> QED
    BY <1>20, <2>1, <2>2 DEF ApplyLevel
<1>21. CASE RecheckSuspended
  <2>1. setter' \in SetterType
    BY <1>21 DEF RecheckSuspended, Rechecked, SetterType, SetterSteps
  <2> QED
    BY <1>21, <2>1 DEF RecheckSuspended
<1>22. CASE DimAgain
  <2>1. setter' \in SetterType
    BY <1>22 DEF DimAgain, SetterType, SetterSteps
  <2>2. light' \in LightType
    BY PanelAssumption, <1>22 DEF DimAgain, Lit, LightType, PanelAssumption
  <2> QED
    BY <1>22, <2>1, <2>2 DEF DimAgain
<1>23. CASE TakeBus
  <2>1. bus' \in BusType
    BY <1>23 DEF TakeBus, Locks, BusType, Clients
  <2>2. charger' \in ChargerType
    BY <1>23 DEF TakeBus, ChargerType, ChargerSteps
  <2> QED
    BY <1>23, <2>1, <2>2 DEF TakeBus
<1>24. CASE ConnectCharger
  <2>1. bus' \in BusType
    BY <1>24 DEF ConnectCharger, FaultedBus, BusType, Clients
  <2>2. charger' \in ChargerType
    BY <1>24 DEF ConnectCharger, ChargerType, ChargerSteps
  <2> QED
    BY <1>24, <2>1, <2>2 DEF ConnectCharger
<1>25. CASE DisconnectCharger
  <2>1. bus' \in BusType
    BY <1>25 DEF DisconnectCharger, Unlocked, FaultedBus, BusType, Clients
  <2>2. charger' \in ChargerType
    <3>1. /\ [step |-> "check", attached |-> FALSE] \in ChargerType
          /\ [charger EXCEPT !.step = "check"] \in ChargerType
      BY DEF ChargerType, ChargerSteps
    <3> QED
      BY <3>1, <1>25 DEF DisconnectCharger
  <2> QED
    BY <1>25, <2>1, <2>2 DEF DisconnectCharger
<1>26. CASE CheckBus
  <2>1. bus' \in BusType
    BY <1>26 DEF CheckBus, RecoveryBegins, BusType, Clients
  <2>2. charger' \in ChargerType
    BY <1>26 DEF CheckBus, ChargerType, ChargerSteps
  <2> QED
    BY <1>26, <2>1, <2>2 DEF CheckBus
<1>27. CASE EndRecovery
  <2>1. bus' \in BusType /\ charger' \in ChargerType
    BY RecoveryTypes, <1>27 DEF EndRecovery, ChargerSteps
  <2> QED
    BY <1>27, <2>1 DEF EndRecovery
<1>28. CASE UNCHANGED panelVars
  BY <1>28 DEF panelVars
<1> QED
  BY <1>1, <1>2, <1>3, <1>4, <1>5, <1>6, <1>7, <1>8, <1>9, <1>10, <1>11, <1>12, <1>13, <1>14,
     <1>15, <1>16, <1>17, <1>18, <1>19, <1>20, <1>21, <1>22, <1>23, <1>24, <1>25, <1>26, <1>27,
     <1>28
     DEF PanelNext, RendererActs, SetterActs, BatteryActs

\* It holds when hal_display_init has succeeded,
LEMMA InitInv == PanelInit => PanelInv
<1> SUFFICES ASSUME PanelInit PROVE PanelInv
  OBVIOUS
<1> USE PanelAssumption
<1>1. (CHOOSE i \in Images : TRUE) \in Images
  BY DEF PanelAssumption
<1>2. PanelTypeOK
  BY <1>1 DEF PanelAssumption, PanelInit, PanelTypeOK, PanelType, DriverType, DrawType,
              LightType, SetterType, BusType, ChargerType, Resting, WhiteBaseline, DriverReady,
              BusReady, DrawSteps, SetterSteps, ChargerSteps, Clients, Kinds, Glass, Memory
<1>3. HolderInv
  BY DEF PanelInit, HolderInv, ChargerDetached, Resting, BusReady
<1>4. MuteInv
  BY DEF PanelInit, MuteInv, Muting, RefreshSteps, Resting
<1>5. BaselineInv
  BY DEF PanelInit, BaselineInv, Resting, WhiteBaseline
<1> QED
  BY <1>2, <1>3, <1>4, <1>5 DEF PanelInv

\* every step keeps it,
LEMMA StepInv == PanelInv /\ [PanelNext]_panelVars => PanelInv'
  BY TypeStep, HolderStep, MuteStep, BaselineStep DEF PanelInv

\* and it says what has to be shown.
LEMMA InvSafe == PanelInv => PanelSafe
  BY DEF PanelInv, HolderInv, MuteInv, BaselineInv, PanelSafe, DifferenceKnown,
         DarkWhenMuted, RefreshSteps, Muting

\* Whatever refreshes, sleeps, resets, transfers and recoveries fail, in whatever order
\* the tasks take the bus and the light: partial waveforms start from the glass, a
\* muted light that nobody is setting is off, and a working bus has no charger on it.
THEOREM PanelStaysSafe == PanelSpec => []PanelSafe
  BY InitInv, StepInv, InvSafe, PTL DEF PanelSpec
==============================================================================
