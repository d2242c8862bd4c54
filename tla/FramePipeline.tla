---------------------------- MODULE FramePipeline ----------------------------
(***************************************************************************)
(* How a view reaches the screen: the frame pool                           *)
(* (src/ui/paper_mono/ui_frame_pool.cpp), the two-entry request queue and  *)
(* the renderer task (ui_renderer.cpp), and the record of what the screen  *)
(* presents (src/ui/ui_presentation.cpp).                                  *)
(*                                                                         *)
(* The main loop builds a frame in a pool slot and queues its handle; the  *)
(* renderer keeps the newest queued frame and drops the others.  Both      *)
(* tasks, and the guard through which touches read the presented frame,    *)
(* share slots by counted references.  A frame stands for its view, its    *)
(* generation, the region it asks to redraw, and two parts of its          *)
(* content: the body and a mark drawn over it (a focused row, a menu).     *)
(***************************************************************************)
EXTENDS Naturals, FiniteSets, Sequences

CONSTANTS
    PoolCapacity,    \* UI_FRAME_POOL_CAPACITY
    QueueLength,     \* DISPLAY_REQUEST_QUEUE_LENGTH
    MaxFrames,       \* bound: generations allocated
    MaxFailures,     \* bound: refreshes that fail
    MaxNews,         \* bound: changes of the status bar
    NoSlot, Nothing  \* no handle; content nobody can rely on

ASSUME FrameAssumption ==
    PoolCapacity \in Nat \ {0} /\ QueueLength \in Nat \ {0} /\ NoSlot \notin Nat

FrameSlots == 1 .. PoolCapacity
Views == {"file", "reader"}
Regions == {"full", "content", "mark"}

FrameType == [view : Views, generation : 1 .. MaxFrames, region : Regions,
              quality : BOOLEAN, body : {0, 1}, mark : {0, 1}]

VARIABLES
    pool,       \* slots: the references of each and its frame
    requests,   \* request_queue
    notified,   \* the renderer's task notification
    producer,   \* the main loop's call of ui_render_*
    content,    \* what the foreground app would draw now
    expected,   \* expected_view and expected_generation
    generations,\* next_generation
    accepted,   \* generation of the last frame that was queued
    renderer,   \* renderer_task: step, next_handle, quality_pending
    latest,     \* latest_handle, kept for partial updates and controls
    hasFrame,   \* has_frame
    presented,  \* presented_handle
    guard,      \* the slot a touch reads through ui_presentation_read_guard
    screen,     \* what the panel shows: the view, its body and its mark
    owed,       \* a full refresh was asked for and has not been made
    failed,     \* generation of the last frame whose refresh failed
    failures,   \* refreshes that failed so far
    news,       \* the status bar's contents, and what the screen shows of it
    idleDirt    \* the last status refresh failed

frameVars == <<pool, requests, notified, producer, content, expected, generations,
               accepted, renderer, latest, hasFrame, presented, guard, screen,
               owed, failed, failures, news, idleDirt>>

FramesTypeOK ==
    /\ \A s \in FrameSlots : /\ pool[s].references \in 0 .. 5
                             /\ pool[s].frame \in FrameType \cup {Nothing}
    /\ requests \in Seq(FrameSlots) /\ Len(requests) <= QueueLength
    /\ notified \in BOOLEAN /\ hasFrame \in BOOLEAN /\ owed \in BOOLEAN
    /\ producer.step \in {"idle", "open", "check", "reclaim", "send", "retry"}
    /\ {producer.slot, latest, presented, guard, renderer.next} \subseteq FrameSlots \cup {NoSlot}
    /\ renderer.step \in {"wait", "drain", "draw", "present", "drop", "status"}
    /\ {expected.generation, generations, accepted, failed} \subseteq 0 .. MaxFrames

FramesInit ==
    /\ pool = [s \in FrameSlots |-> [references |-> 0, frame |-> Nothing]]
    /\ requests = <<>> /\ notified = FALSE
    /\ producer = [step |-> "open", slot |-> NoSlot]
    /\ content = [view |-> "file", body |-> 0, mark |-> 0]
    /\ expected = [view |-> "file", generation |-> 1]
    /\ generations = 1 /\ accepted = 0
    /\ renderer = [step |-> "wait", next |-> NoSlot, quality |-> FALSE]
    /\ latest = NoSlot /\ hasFrame = FALSE /\ presented = NoSlot /\ guard = NoSlot
    /\ screen = [view |-> Nothing, body |-> Nothing, mark |-> Nothing]
    /\ owed = FALSE /\ failed = 0 /\ failures = 0
    /\ news = [now |-> 0, shown |-> Nothing, deferred |-> FALSE]
    /\ idleDirt = FALSE

FrameOf(slot) == pool[slot].frame

\* ui_frame_pool_retain
Retained(slots, s) == [slots EXCEPT ![s].references = @ + 1]

\* ui_frame_pool_release: the last reference frees the slot.
Released(slots, s) ==
    IF s = NoSlot THEN slots
    ELSE [slots EXCEPT ![s] =
            [references |-> @.references - 1,
             frame |-> IF @.references = 1 THEN Nothing ELSE @.frame]]

InputReady ==
    /\ presented # NoSlot
    /\ FrameOf(presented).view = expected.view
    /\ FrameOf(presented).generation = expected.generation

-----------------------------------------------------------------------------
(* The main loop.                                                          *)

mainOnly == <<renderer, latest, hasFrame, presented, guard, screen, failed,
              failures, news, idleDirt>>

\* apply_pending_switch: ui_presentation_select_view, then the app's on_open.
SelectView ==
    /\ producer.step \in {"idle", "retry"} /\ guard = NoSlot /\ generations < MaxFrames
    /\ \E view \in Views :
          /\ content' = [view |-> view, body |-> 0, mark |-> 0]
          /\ expected' = [view |-> view, generation |-> generations + 1]
    /\ generations' = generations + 1
    /\ producer' = [step |-> "open", slot |-> NoSlot]
    /\ UNCHANGED <<pool, requests, notified, accepted, owed, mainOnly>>

Free == {s \in FrameSlots : pool[s].references = 0}

\* Faulty variant: the full refresh of the reclaimed frame is forgotten.
ReclaimedPlain == [slot |-> Head(requests), quality |-> FALSE]

\* reclaim_queued_frame: the oldest request gives way, its quality is kept.
Reclaimed == [slot |-> Head(requests), quality |-> FrameOf(Head(requests)).quality]

\* prepare_frame: touches wait for this frame.
Awaits(opened, view, g) == [view |-> view, generation |-> g]

\* acquire_request: a free slot or the oldest request's, then prepare_frame: an
\* opening frame keeps the generation of its select_view.
Acquire(opened, region, view, body, mark) ==
    /\ Free # {} \/ requests # <<>>
    /\ opened \/ generations < MaxFrames
    /\ LET inherits == Free = {} /\ Reclaimed.quality
           s == IF Free = {} THEN Reclaimed.slot ELSE CHOOSE x \in Free : TRUE
           g == IF opened THEN expected.generation ELSE generations + 1
       IN  /\ pool' = [pool EXCEPT ![s] = [references |-> 1, frame |->
                   [view |-> view, generation |-> g, body |-> body, mark |-> mark,
                    region |-> IF opened \/ inherits THEN "full" ELSE region,
                    quality |-> inherits \/ (opened /\ view = "reader")]]]
           /\ producer' = [step |-> "check", slot |-> s]
           /\ expected' = Awaits(opened, view, g)
           /\ generations' = IF opened THEN generations ELSE g
    /\ requests' = IF Free = {} THEN Tail(requests) ELSE requests
    /\ content' = [view |-> view, body |-> body, mark |-> mark]
    /\ UNCHANGED <<notified, accepted, owed, mainOnly>>

\* The frame was not queued: the Reader's on_running will submit it again.
Refused == [step |-> IF content.view = "reader" THEN "retry" ELSE "idle", slot |-> NoSlot]

\* acquire_request finds the pool exhausted, and the renderer takes the requests
\* before one can be reclaimed.
AcquireFails ==
    /\ producer.step \in {"open", "idle", "retry"} /\ guard = NoSlot /\ Free = {}
    /\ \/ producer.step \in {"open", "retry"} /\ UNCHANGED content
       \/ /\ producer.step \in {"idle", "retry"}
          /\ content' \in {[content EXCEPT !.body = 1 - @], [content EXCEPT !.mark = 1 - @]}
    /\ producer' = Refused
    /\ UNCHANGED <<pool, requests, notified, expected, generations, accepted, owed, mainOnly>>

OpenFrame ==
    /\ producer.step = "open"
    /\ Acquire(TRUE, "full", content.view, content.body, content.mark)

\* content_changed
ChangeBody ==
    /\ producer.step \in {"idle", "retry"} /\ guard = NoSlot
    /\ Acquire(FALSE, "content", content.view, 1 - content.body, content.mark)

\* selection_changed (focus), popup_changed (reader_menu)
ChangeMark ==
    /\ producer.step \in {"idle", "retry"} /\ guard = NoSlot
    /\ Acquire(FALSE, "mark", content.view, content.body, 1 - content.mark)

\* submit_request: the queue is full, or has room.
CheckQueue ==
    /\ producer.step = "check"
    /\ producer' = [producer EXCEPT
          !.step = IF Len(requests) = QueueLength THEN "reclaim" ELSE "send"]
    /\ UNCHANGED <<pool, requests, notified, content, expected, generations, accepted,
                   owed, mainOnly>>

\* The oldest request gives way; if the renderer took it meanwhile the frame is
\* thrown away although there is room now.
ReclaimRequest ==
    /\ producer.step = "reclaim"
    /\ IF requests = <<>>
       THEN /\ pool' = Released(pool, producer.slot)
            /\ producer' = Refused /\ UNCHANGED requests
       ELSE /\ pool' = LET kept == Released(pool, Reclaimed.slot)
                       IN  IF Reclaimed.quality
                           THEN [kept EXCEPT ![producer.slot].frame =
                                   [@ EXCEPT !.quality = TRUE, !.region = "full"]]
                           ELSE kept
            /\ requests' = Tail(requests)
            /\ producer' = [producer EXCEPT !.step = "send"]
    /\ UNCHANGED <<notified, content, expected, generations, accepted, owed, mainOnly>>

\* publish, xQueueSend and the notification.
SendRequest ==
    /\ producer.step = "send"
    /\ requests' = Append(requests, producer.slot) /\ notified' = TRUE
    /\ accepted' = FrameOf(producer.slot).generation
    /\ owed' = (owed \/ FrameOf(producer.slot).quality)
    /\ producer' = [step |-> "idle", slot |-> NoSlot]
    /\ UNCHANGED <<pool, content, expected, generations, mainOnly>>

\* Reader's on_running submits a frame again that was not accepted.
Resubmit ==
    /\ producer.step = "retry" /\ guard = NoSlot
    /\ Acquire(FALSE, "content", content.view, content.body, content.mark)

\* acquire_presented_frame retains what is presented; it is checked again
\* outside the first critical section, and the guard's destructor releases it.
\* With a control captured a newer frame may be on its way.
ReadPresented ==
    /\ producer.step \in {"idle", "retry"} /\ guard = NoSlot
    /\ presented # NoSlot /\ FrameOf(presented).view = expected.view
    /\ guard' = presented /\ pool' = Retained(pool, presented)
    /\ UNCHANGED <<requests, notified, producer, content, expected, generations, accepted,
                   renderer, latest, hasFrame, presented, screen, owed, failed, failures,
                   news, idleDirt>>

EndRead ==
    /\ guard # NoSlot
    /\ guard' = NoSlot /\ pool' = Released(pool, guard)
    /\ UNCHANGED <<requests, notified, producer, content, expected, generations, accepted,
                   renderer, latest, hasFrame, presented, screen, owed, failed, failures,
                   news, idleDirt>>

\* The status bar's contents change and the renderer is notified.
StatusNews ==
    /\ news.now < MaxNews
    /\ news' = [news EXCEPT !.now = @ + 1] /\ notified' = TRUE
    /\ UNCHANGED <<pool, requests, producer, content, expected, generations, accepted,
                   renderer, latest, hasFrame, presented, guard, screen, owed, failed,
                   failures, idleDirt>>

-----------------------------------------------------------------------------
(* The renderer task.                                                      *)

rendererOnly == <<producer, content, expected, generations, accepted, guard>>

\* ulTaskNotifyTake clears the notification.
Wake ==
    /\ renderer.step = "wait" /\ notified /\ notified' = FALSE
    /\ renderer' = [step |-> "drain", next |-> NoSlot, quality |-> FALSE]
    /\ UNCHANGED <<pool, requests, latest, hasFrame, presented, screen, owed, failed,
                   failures, news, idleDirt, rendererOnly>>

\* Faulty variant: one request for each notification.
DrainOneOnly ==
    /\ renderer.step = "drain" /\ requests # <<>>
    /\ renderer' = [renderer EXCEPT !.step = "draw", !.next = Head(requests),
                                    !.quality = FrameOf(Head(requests)).quality]
    /\ requests' = Tail(requests)
    /\ UNCHANGED <<pool, notified, latest, hasFrame, presented, screen, owed, failed,
                   failures, news, idleDirt, rendererOnly>>

\* Keep the newest request; a superseded one passes on its quality.
DrainOne ==
    /\ renderer.step = "drain" /\ requests # <<>>
    /\ pool' = Released(pool, renderer.next)
    /\ renderer' = [renderer EXCEPT !.next = Head(requests),
                                    !.quality = @ \/ FrameOf(Head(requests)).quality]
    /\ requests' = Tail(requests)
    /\ UNCHANGED <<notified, latest, hasFrame, presented, screen, owed, failed, failures,
                   news, idleDirt, rendererOnly>>

DrainDone ==
    /\ renderer.step = "drain" /\ requests = <<>>
    /\ renderer' = [renderer EXCEPT !.step = IF renderer.next = NoSlot THEN "status" ELSE "draw"]
    /\ UNCHANGED <<pool, requests, notified, latest, hasFrame, presented, screen, owed,
                   failed, failures, news, idleDirt, rendererOnly>>

\* resolve_request_region: a mark over another view, or over a body of the
\* Reader that is not the one last shown, needs more than the mark.
ResolvedRegion(next) ==
    IF renderer.quality THEN "full"
    ELSE IF next.region # "mark" THEN next.region
    ELSE IF ~ hasFrame \/ FrameOf(latest).view # next.view
         THEN IF next.view = "reader" THEN "content" ELSE "full"
    ELSE IF next.view = "reader" /\ FrameOf(latest).body # next.body THEN "content"
    ELSE "mark"

\* draw, refresh; the ghosting debt or the driver may upgrade it to quality.
\* The status bar is drawn along with every frame.
DrawFrame ==
    /\ renderer.step = "draw"
    /\ \E quality \in {renderer.quality, TRUE} :
          LET next == FrameOf(renderer.next)
              region == ResolvedRegion(next)
              all == ~ hasFrame \/ quality \/ region = "full"
          IN  /\ screen' = [view |-> IF all THEN next.view ELSE screen.view,
                            body |-> IF all \/ region = "content" THEN next.body
                                     ELSE screen.body,
                            mark |-> next.mark]
              /\ owed' = (owed /\ ~ quality)
              /\ renderer' = [renderer EXCEPT !.step = "present", !.quality = quality]
    /\ hasFrame' = TRUE /\ idleDirt' = FALSE
    /\ news' = [now |-> news.now, shown |-> news.now, deferred |-> FALSE]
    /\ UNCHANGED <<pool, requests, notified, latest, presented, failed, failures,
                   rendererOnly>>

\* The refresh fails: the frame is dropped, the next one starts from nothing.
FrameFails ==
    /\ renderer.step = "draw" /\ failures < MaxFailures
    /\ failures' = failures + 1 /\ failed' = FrameOf(renderer.next).generation
    /\ screen' = [view |-> Nothing, body |-> Nothing, mark |-> Nothing]
    /\ hasFrame' = FALSE /\ owed' = FALSE
    /\ news' = [now |-> news.now, shown |-> Nothing, deferred |-> FALSE]
    /\ pool' = Released(pool, renderer.next)
    /\ renderer' = [step |-> "status", next |-> NoSlot, quality |-> FALSE]
    /\ UNCHANGED <<requests, notified, latest, presented, idleDirt, rendererOnly>>

\* ui_presentation_commit_frame
PresentFrame ==
    /\ renderer.step = "present"
    /\ presented' = renderer.next
    /\ pool' = Released(Retained(pool, renderer.next), presented)
    /\ renderer' = [renderer EXCEPT !.step = "drop"]
    /\ UNCHANGED <<requests, notified, latest, hasFrame, screen, owed, failed, failures,
                   news, idleDirt, rendererOnly>>

DropLatest ==
    /\ renderer.step = "drop"
    /\ latest' = renderer.next /\ pool' = Released(pool, latest)
    /\ renderer' = [renderer EXCEPT !.step = "status", !.next = NoSlot]
    /\ UNCHANGED <<requests, notified, hasFrame, presented, screen, owed, failed, failures,
                   news, idleDirt, rendererOnly>>

\* A status that is not shown yet is drawn by itself, unless a gray image would
\* be lost: then it waits for the next frame.
RefreshStatus ==
    /\ renderer.step = "status"
    /\ IF hasFrame /\ news.shown # news.now
       THEN \/ /\ news' = [news EXCEPT !.deferred = TRUE]
               /\ UNCHANGED <<failures, idleDirt>>
            \/ /\ ~ renderer.quality
               /\ news' = [now |-> news.now, shown |-> news.now, deferred |-> FALSE]
               /\ idleDirt' = FALSE /\ UNCHANGED failures
            \/ /\ ~ renderer.quality /\ failures < MaxFailures
               /\ failures' = failures + 1 /\ idleDirt' = TRUE /\ UNCHANGED news
       ELSE UNCHANGED <<news, failures, idleDirt>>
    /\ renderer' = [step |-> "wait", next |-> NoSlot, quality |-> FALSE]
    /\ UNCHANGED <<pool, requests, notified, latest, hasFrame, presented, screen, owed,
                   failed, rendererOnly>>

RendererStep ==
    \/ Wake \/ DrainOne \/ DrainDone \/ DrawFrame \/ FrameFails \/ PresentFrame
    \/ DropLatest \/ RefreshStatus

FramesNext ==
    \/ SelectView \/ OpenFrame \/ ChangeBody \/ ChangeMark \/ AcquireFails \/ CheckQueue
    \/ ReclaimRequest \/ SendRequest \/ Resubmit \/ ReadPresented \/ EndRead
    \/ StatusNews \/ RendererStep

FramesSpec == FramesInit /\ [][FramesNext]_frameVars

\* A call of ui_render_* runs to its end; the renderer task keeps running.
ProducerStep == CheckQueue \/ ReclaimRequest \/ SendRequest
-----------------------------------------------------------------------------
\* A full refresh somebody asked for is still on its way in a request, in the
\* frame being built or drawn: reclaiming and superseding frames never lose it
\* (reclaim_queued_frame, submit_request, renderer_task).
QualityKept ==
    owed => \/ renderer.quality
            \/ \E i \in DOMAIN requests : FrameOf(requests[i]).quality
            \/ producer.slot # NoSlot /\ FrameOf(producer.slot).quality

\* ui_presentation_input_ready says yes only when what is presented is the newest
\* frame: none is being built, queued or drawn, however the two tasks interleave.
\* Under it a press is taken while nothing is captured, and a click acts in the
\* Reader; while a control is captured an older frame may be read
\* (ui_presentation_prepare_frame, ui_presentation_commit_frame).
ReadyIsNewest ==
    InputReady => /\ requests = <<>> /\ producer.slot = NoSlot
                  /\ renderer.next \in {NoSlot, presented}

\* Neither a wish for quality nor the order of frames is lost to a queue of two.
FramesKept == QualityKept /\ ReadyIsNewest

\* The newest frame that was queued comes to the screen unless a refresh fails,
\* however the two tasks' steps interleave (submit_request, renderer_task).
FrameShown ==
    accepted > 0 ~> \/ presented # NoSlot /\ FrameOf(presented).generation >= accepted
                    \/ failed >= accepted

=============================================================================
