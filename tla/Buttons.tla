------------------------------- MODULE Buttons -------------------------------
(***************************************************************************)
(* The two keys (src/services/input/button_state_machine.cpp): a short     *)
(* press of one moves the selection, a long press confirms or goes back,   *)
(* and both keys together mean nothing until they are released.  The keys  *)
(* bounce, and a scan may fail; time is counted in scans.                  *)
(***************************************************************************)
EXTENDS Naturals, Sequences

CONSTANTS
    DebounceTime,       \* BUTTON_DEBOUNCE_TIME_MS, in scans
    LongPressTime,      \* BUTTON_LONG_PRESS_TIME_MS, in scans
    ButtonQueueLength   \* BUTTON_EVENT_QUEUE_LENGTH

ASSUME ButtonsAssumption ==
    /\ DebounceTime \in Nat \ {0} /\ LongPressTime \in Nat /\ LongPressTime > DebounceTime
    /\ ButtonQueueLength \in Nat \ {0}

Keys == {"key1", "key2"}
NoKey == "none"
ShortOf(key) == IF key = "key1" THEN "previous" ELSE "next"
LongOf(key) == IF key = "key1" THEN "confirm" ELSE "back"

VARIABLES
    machine,    \* phase_, active_key_, and the time since phase_started_ms_ and
                \* press_started_ms_
    navigation, \* navigation_queue
    quiet,      \* both keys are up; for how long, and seen so after DebounceTime
    episode     \* since that was last seen before a press: the events published,
                \* both keys seen down, and an event published after that

buttonVars == <<machine, navigation, quiet, episode>>

Phases == {"idle", "debounce_press", "pressed", "debounce_release", "long_emitted",
           "debounce_long_release", "blocked", "debounce_blocked_release"}

ButtonsTypeOK ==
    /\ machine \in [phase : Phases, active : Keys \cup {NoKey},
                    since : 0 .. DebounceTime, held : 0 .. LongPressTime]
    /\ navigation \in Seq({"previous", "next", "confirm", "back"})
    /\ Len(navigation) <= ButtonQueueLength
    /\ quiet \in [up : BOOLEAN, time : 0 .. DebounceTime, rested : BOOLEAN]
    /\ episode \in [events : Nat, chord : BOOLEAN, late : BOOLEAN]

Reset == [phase |-> "idle", active |-> NoKey, since |-> 0, held |-> 0]
Blocked == [Reset EXCEPT !.phase = "blocked"]

NoEvents == [events |-> 0, chord |-> FALSE, late |-> FALSE]

ButtonsInit ==
    /\ machine = Reset /\ navigation = <<>> /\ episode = NoEvents
    /\ quiet = [up |-> TRUE, time |-> DebounceTime, rested |-> TRUE]

Least(a, b) == IF a < b THEN a ELSE b

\* The time passes between two scans.
Later == [machine EXCEPT !.since = Least(@ + 1, DebounceTime),
                         !.held = Least(@ + 1, LongPressTime)]

To(m, phase) == [m EXCEPT !.phase = phase]
Since(m, phase) == [m EXCEPT !.phase = phase, !.since = 0]

\* Faulty variant: a key that bounces after its long press starts a new one.
BouncedAgain(m, phase) == To(m, "pressed")

\* A key that is down again before its release was debounced.
Bounced(m, phase) == To(m, phase)

\* update, one key or none being down; the event is "none" or what it emits.
Updated(m, down) ==
    LET stays(n) == [machine |-> n, event |-> "none"]
        other == down # {} /\ down # {m.active}
        elapsed == m.since >= DebounceTime
    IN  CASE m.phase = "idle" ->
                 stays(IF down = {} THEN m
                       ELSE [phase |-> "debounce_press", active |-> CHOOSE k \in down : TRUE,
                             since |-> 0, held |-> 0])
          [] m.phase = "debounce_press" ->
                 stays(IF down = {} THEN Reset ELSE IF other THEN Blocked
                       ELSE IF elapsed THEN To(m, "pressed") ELSE m)
          [] m.phase = "pressed" ->
                 IF down = {} THEN stays(Since(m, "debounce_release"))
                 ELSE IF other THEN stays(Blocked)
                 ELSE IF m.held >= LongPressTime
                 THEN [machine |-> To(m, "long_emitted"), event |-> LongOf(m.active)]
                 ELSE stays(m)
          [] m.phase = "debounce_release" ->
                 IF other THEN stays(Blocked)
                 ELSE IF down # {} THEN stays(To(m, "pressed"))
                 ELSE IF elapsed THEN [machine |-> Reset, event |-> ShortOf(m.active)]
                 ELSE stays(m)
          [] m.phase = "long_emitted" ->
                 stays(IF down = {} THEN Since(m, "debounce_long_release")
                       ELSE IF other THEN Blocked ELSE m)
          [] m.phase = "debounce_long_release" ->
                 stays(IF other THEN Blocked
                       ELSE IF down # {} THEN Bounced(m, "long_emitted")
                       ELSE IF elapsed THEN Reset ELSE m)
          [] m.phase = "blocked" ->
                 stays(IF down = {} THEN Since(m, "debounce_blocked_release") ELSE m)
          [] m.phase = "debounce_blocked_release" ->
                 stays(IF down # {} THEN To(m, "blocked") ELSE IF elapsed THEN Reset ELSE m)

\* publish_navigation_event: the oldest event of a full queue is dropped.
Publish(event) ==
    IF event = "none" THEN navigation
    ELSE Append(IF Len(navigation) = ButtonQueueLength THEN Tail(navigation)
                ELSE navigation, event)

\* input_task, once a scan: the keys are any, whatever they were before.
ScanButtons(down) ==
    LET result == IF down = Keys THEN [machine |-> [Later EXCEPT !.phase = "blocked",
                                                                 !.active = NoKey],
                                       event |-> "none"]
                  ELSE Updated(Later, down)
        time == IF quiet.up THEN Least(quiet.time + 1, DebounceTime) ELSE 0
        before == IF quiet.rested /\ down # {} THEN NoEvents ELSE episode
        events == IF result.event = "none" THEN 0 ELSE 1
    IN  /\ machine' = result.machine /\ navigation' = Publish(result.event)
        /\ quiet' = IF down # {} THEN [up |-> FALSE, time |-> 0, rested |-> FALSE]
                    ELSE [up |-> TRUE, time |-> time, rested |-> time = DebounceTime]
        /\ episode' = [events |-> before.events + events,
                       chord |-> before.chord \/ down = Keys,
                       late |-> before.late \/ (before.chord /\ events = 1)]

\* The scan fails.
MissScan ==
    /\ machine' = Later /\ quiet' = [quiet EXCEPT !.time = IF quiet.up
                                                       THEN Least(@ + 1, DebounceTime) ELSE 0]
    /\ UNCHANGED <<navigation, episode>>

TakeNavigation ==
    /\ navigation # <<>> /\ navigation' = Tail(navigation)
    /\ UNCHANGED <<machine, quiet, episode>>

ButtonsNext == (\E down \in SUBSET Keys : ScanButtons(down)) \/ MissScan \/ TakeNavigation

ButtonsSpec == ButtonsInit /\ [][ButtonsNext]_buttonVars
-----------------------------------------------------------------------------
\* However the keys bounce and scans fail: between two rests of the keys at most
\* one event is published, none once both keys were down, and when they have
\* been seen at rest the machine is ready for the next press
\* (button_state_machine::update).
ButtonOnce ==
    /\ episode.events <= 1 /\ ~ episode.late
    /\ quiet.rested => machine.phase = "idle"
=============================================================================
