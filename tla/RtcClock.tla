------------------------------- MODULE RtcClock -------------------------------
(***************************************************************************)
(* The clock: the task that reads and writes the chip on request           *)
(* (src/services/rtc/rtc_service.cpp), the cached time every turn of the   *)
(* main loop advances, and the app that sets the clock                     *)
(* (src/app/rtc_setting/rtc_setting_app.cpp).                              *)
(*                                                                         *)
(* Ticks are half seconds; the tick counter wraps.                         *)
(***************************************************************************)
EXTENDS Integers, Sequences

CONSTANTS
    RtcQueueLength,   \* request_queue_length and event_queue_length
    TickModulus,      \* bound: 2^32 milliseconds
    MaxTicks,         \* bound: time modelled
    MaxSessions,      \* bound: times the app is opened
    MaxWrites         \* bound: writes of the chip

ASSUME RtcAssumption ==
    RtcQueueLength \in Nat \ {0} /\ TickModulus \in Nat \ {0} /\ TickModulus % 2 = 0

NoRequest == [write |-> FALSE, session |-> 0, time |-> 0]
NewTime == 20   \* the time the user enters, in seconds

VARIABLES
    now,        \* ticks since the start; the counter shows them modulo TickModulus
    chip,       \* offset of the chip's time, in ticks
    rtcRequests,\* request_queue
    rtcTask,    \* rtc_task: its step, request and result
    rtcEvents,  \* event_queue
    cache,      \* cached_datetime, cached_tick_ms, cache_generation, cache_valid
    asking,     \* rtc_service_get_cached_datetime between its critical sections
    synced,     \* the chip's answer the cache stands for, and when it was cached
    setting,    \* the app's session and its loading, saving and available flags
    sessions, writes

rtcVars == <<now, chip, rtcRequests, rtcTask, rtcEvents, cache, asking, synced, setting,
             sessions, writes>>

RtcTypeOK ==
    /\ now \in 0 .. MaxTicks /\ chip \in Int
    /\ Len(rtcRequests) <= RtcQueueLength /\ Len(rtcEvents) <= RtcQueueLength
    /\ rtcTask.step \in {"idle", "access", "cache", "publish"}
    /\ cache.tick \in 0 .. TickModulus - 1 /\ cache.valid \in BOOLEAN
    /\ setting.loading \in BOOLEAN /\ setting.saving \in BOOLEAN
    /\ sessions \in 0 .. MaxSessions /\ writes \in 0 .. MaxWrites

NoSession == [session |-> 0, loading |-> FALSE, saving |-> FALSE, available |-> FALSE]

RtcIdle == [step |-> "idle", request |-> NoRequest, time |-> 0, success |-> FALSE]

RtcInit ==
    /\ now = 0 /\ chip = 3 /\ rtcRequests = <<NoRequest>>
    /\ rtcTask = RtcIdle /\ rtcEvents = <<>>
    /\ cache = [time |-> 0, tick |-> 0, generation |-> 0, valid |-> FALSE]
    /\ asking = [valid |-> FALSE] /\ synced = [time |-> 0, at |-> 0]
    /\ setting = NoSession /\ sessions = 0 /\ writes = 0

Ticks == now % TickModulus
ChipTime == (now + chip) \div 2

\* The main loop asks for the time at least once while the counter wraps.
TimePasses ==
    /\ now < MaxTicks /\ now' = now + 1
    /\ cache.valid => (now' - cache.tick) % TickModulus # 0
    /\ UNCHANGED <<chip, rtcRequests, rtcTask, rtcEvents, cache, asking, synced, setting,
                   sessions, writes>>

-----------------------------------------------------------------------------
(* rtc_task.                                                               *)

taskOnly == <<now, asking, setting, sessions, writes>>

TakeRequest ==
    /\ rtcTask.step = "idle" /\ rtcRequests # <<>>
    /\ rtcTask' = [rtcTask EXCEPT !.step = "access", !.request = Head(rtcRequests)]
    /\ rtcRequests' = Tail(rtcRequests)
    /\ UNCHANGED <<chip, rtcEvents, cache, synced, taskOnly>>

\* A read answers the chip's time; a write is read back.  Either may fail, the
\* second one after the chip was set.
AccessChip ==
    /\ rtcTask.step = "access"
    /\ LET request == rtcTask.request
           set == 2 * request.time - now
           done(success, time) ==
               rtcTask' = [rtcTask EXCEPT !.step = IF success THEN "cache" ELSE "publish",
                                          !.success = success, !.time = time]
       IN  IF request.write
           THEN \/ chip' = set /\ done(TRUE, request.time)
                \/ chip' = set /\ done(FALSE, 0)
                \/ UNCHANGED chip /\ done(FALSE, 0)
           ELSE UNCHANGED chip /\ (done(TRUE, ChipTime) \/ done(FALSE, 0))
    /\ UNCHANGED <<rtcRequests, rtcEvents, cache, synced, taskOnly>>

UpdateCache ==
    /\ rtcTask.step = "cache"
    /\ cache' = [time |-> rtcTask.time, tick |-> Ticks, generation |-> cache.generation + 1,
                 valid |-> TRUE]
    /\ synced' = [time |-> rtcTask.time, at |-> now]
    /\ rtcTask' = [rtcTask EXCEPT !.step = "publish"]
    /\ UNCHANGED <<chip, rtcRequests, rtcEvents, taskOnly>>

\* Faulty variant: an answer that finds the queue full is dropped.
KeptOldest(queue, event) ==
    IF Len(queue) = RtcQueueLength THEN queue ELSE Append(queue, event)

\* publish_event: the oldest answer of a full queue is dropped.
KeptNewest(queue, event) ==
    Append(IF Len(queue) = RtcQueueLength THEN Tail(queue) ELSE queue, event)

\* The first read of all answers nobody.
PublishAnswer ==
    /\ rtcTask.step = "publish"
    /\ rtcTask' = RtcIdle
    /\ rtcEvents' = IF rtcTask.request.session = 0 THEN rtcEvents
                    ELSE KeptNewest(rtcEvents, [write |-> rtcTask.request.write,
                                                session |-> rtcTask.request.session,
                                                success |-> rtcTask.success])
    /\ UNCHANGED <<chip, rtcRequests, cache, synced, taskOnly>>

RtcTaskStep == TakeRequest \/ AccessChip \/ UpdateCache \/ PublishAnswer

-----------------------------------------------------------------------------
(* The main loop.                                                          *)

\* rtc_service_get_cached_datetime copies the cache ...
AskTime ==
    /\ cache.valid /\ ~ asking.valid /\ asking' = cache
    /\ UNCHANGED <<now, chip, rtcRequests, rtcTask, rtcEvents, cache, synced, setting,
                   sessions, writes>>

\* Faulty variant: ... and the copy it advanced replaces whatever is there.
StillAnything(copy) == TRUE

\* ... and the advanced copy replaces it unless the task has updated it.
StillCached(copy) == cache.valid /\ copy.generation = cache.generation

AdvanceCache ==
    /\ asking.valid /\ asking' = [valid |-> FALSE]
    /\ LET elapsed == ((Ticks - asking.tick) % TickModulus) \div 2
       IN  cache' = IF elapsed > 0 /\ StillCached(asking)
                    THEN [cache EXCEPT !.time = asking.time + elapsed,
                                       !.tick = (@ + 2 * elapsed) % TickModulus]
                    ELSE cache
    /\ UNCHANGED <<now, chip, rtcRequests, rtcTask, rtcEvents, synced, setting, sessions,
                   writes>>

settingOnly == <<now, chip, rtcTask, cache, asking, synced>>

\* submit_request, unless the queue is full.
Submitted(request) == rtcRequests' = Append(rtcRequests, request)
RequestsFull == Len(rtcRequests) = RtcQueueLength

\* on_open
OpenSetting ==
    /\ setting.session = 0 /\ sessions < MaxSessions /\ sessions' = sessions + 1
    /\ setting' = [session |-> sessions + 1, loading |-> ~ RequestsFull, saving |-> FALSE,
                   available |-> FALSE]
    /\ IF RequestsFull THEN UNCHANGED rtcRequests
       ELSE Submitted([write |-> FALSE, session |-> sessions + 1, time |-> 0])
    /\ UNCHANGED <<rtcEvents, writes, settingOnly>>

\* on_close
CloseSetting ==
    /\ setting.session # 0 /\ setting' = NoSession
    /\ UNCHANGED <<rtcRequests, rtcEvents, sessions, writes, settingOnly>>

\* save_datetime, with digits that build_datetime accepts.
SaveDatetime ==
    /\ setting.available /\ ~ setting.loading /\ ~ setting.saving /\ writes < MaxWrites
    /\ writes' = writes + 1 /\ setting' = [setting EXCEPT !.saving = ~ RequestsFull]
    /\ IF RequestsFull THEN UNCHANGED rtcRequests
       ELSE Submitted([write |-> TRUE, session |-> setting.session, time |-> NewTime])
    /\ UNCHANGED <<rtcEvents, sessions, settingOnly>>

\* handle_rtc_event: an answer of another session is ignored; a clock that was
\* set closes the app.
TakeAnswer ==
    /\ rtcEvents # <<>> /\ rtcEvents' = Tail(rtcEvents)
    /\ LET answer == Head(rtcEvents)
       IN  setting' =
             IF answer.session # setting.session THEN setting
             ELSE IF ~ answer.write
             THEN [setting EXCEPT !.loading = FALSE, !.available = answer.success]
             ELSE IF answer.success THEN NoSession ELSE [setting EXCEPT !.saving = FALSE]
    /\ UNCHANGED <<rtcRequests, sessions, writes, settingOnly>>

RtcNext ==
    \/ TimePasses \/ RtcTaskStep \/ AskTime \/ AdvanceCache \/ OpenSetting
    \/ CloseSetting \/ SaveDatetime \/ TakeAnswer

RtcSpec == RtcInit /\ [][RtcNext]_rtcVars
-----------------------------------------------------------------------------
\* The cached time is the chip's last answer advanced by the whole seconds since
\* it was cached, however the task's updates and the main loop's advances
\* interleave and the tick counter wraps (update_cache,
\* rtc_service_get_cached_datetime).
ClockTrue ==
    cache.valid =>
        LET seconds == cache.time - synced.time
        IN  /\ seconds >= 0 /\ synced.at + 2 * seconds <= now
            /\ cache.tick = (synced.at + 2 * seconds) % TickModulus

\* The app never waits for an answer for ever, although the queue drops its
\* oldest answers and the app has no time-out: the task answers every request
\* it took and the app asks once at a time (publish_event, handle_rtc_event).
AnswerArrives ==
    setting.loading \/ setting.saving ~> ~ setting.loading /\ ~ setting.saving
=============================================================================
