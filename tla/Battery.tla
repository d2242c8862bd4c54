------------------------------- MODULE Battery -------------------------------
(***************************************************************************)
(* The battery: the task that watches the supply pin and samples the gauge *)
(* (src/services/battery/battery_service.cpp), and those who follow it:    *)
(* the status bar, fed by the dispatcher, and the battery app              *)
(* (src/app/battery/battery_app.cpp).  The task publishes a snapshot into  *)
(* a cache and then into a queue of one event, which it overwrites.        *)
(***************************************************************************)
EXTENDS Naturals

CONSTANTS
    DebounceSamples,      \* BATTERY_VBUS_CHANGE_DEBOUNCE_SAMPLES
    DetailInterval,       \* BATTERY_DETAIL_SAMPLE_INTERVAL_MS, in polls
    BackgroundInterval,   \* BATTERY_BACKGROUND_SAMPLE_INTERVAL_MS, in polls
    MaxPlugs,             \* bound: changes of the supply
    MaxVisits,            \* bound: openings of the battery app
    MaxBatteryFailures    \* bound: reads that fail

ASSUME BatteryAssumption ==
    /\ DebounceSamples \in Nat /\ DebounceSamples >= 2
    /\ DetailInterval \in Nat /\ BackgroundInterval \in Nat

NoSnapshot == [charging |-> "unknown", level |-> 0]
Snapshots == [charging : {"unknown", "no", "yes"}, level : 0 .. 2]
NoEvent == [charging |-> "none", level |-> 0]

VARIABLES
    supply,      \* the supply pin
    gauge,       \* battery_task: its step, snapshot, monitor, and the time since
                 \* its last sample
    subscribers, \* detail_subscribers
    nudged,      \* the task's notification
    batteryCache,\* cached_snapshot, NoEvent before the first
    batteryEvent,\* event_queue, NoEvent while it is empty
    statusBar,   \* the status bar's battery
    batteryApp,  \* the app: closed, opening (its switch is pending), open or closing
                 \* (a switch away is pending), and its snapshot_
    plugs, visits, batteryFailures

batteryVars == <<supply, gauge, subscribers, nudged, batteryCache, batteryEvent,
                 statusBar, batteryApp, plugs, visits, batteryFailures>>

BatteryTypeOK ==
    /\ supply \in BOOLEAN /\ nudged \in BOOLEAN /\ subscribers \in Nat
    /\ gauge.step \in {"wait", "poll", "cache", "event"} /\ gauge.snapshot \in Snapshots
    /\ gauge.since \in 0 .. BackgroundInterval /\ gauge.count \in 0 .. DebounceSamples
    /\ {batteryCache, batteryEvent, statusBar} \subseteq Snapshots \cup {NoEvent}
    /\ batteryApp.state \in {"closed", "opening", "open", "closing"}
    /\ batteryApp.snapshot \in Snapshots \cup {NoEvent}

BatteryInit ==
    /\ supply \in BOOLEAN /\ subscribers = 0 /\ nudged = FALSE
    /\ gauge = [step |-> "poll", snapshot |-> NoSnapshot, initialized |-> FALSE,
                stable |-> FALSE, candidate |-> FALSE, count |-> 0,
                sampled |-> FALSE, force |-> TRUE, since |-> 0]
    /\ batteryCache = NoEvent /\ batteryEvent = NoEvent /\ statusBar = NoEvent
    /\ batteryApp = [state |-> "closed", snapshot |-> NoEvent]
    /\ plugs = 0 /\ visits = 0 /\ batteryFailures = 0

Plug ==
    /\ plugs < MaxPlugs /\ plugs' = plugs + 1 /\ supply' = ~ supply
    /\ UNCHANGED <<gauge, subscribers, nudged, batteryCache, batteryEvent, statusBar,
                   batteryApp, visits, batteryFailures>>

-----------------------------------------------------------------------------
(* battery_task.                                                           *)

gaugeOnly == <<supply, subscribers, statusBar, batteryApp, plugs, visits>>

\* The poll interval is over, or a subscriber came or left.
WakeGauge ==
    /\ gauge.step = "wait" /\ nudged' = FALSE
    /\ gauge' = [gauge EXCEPT !.step = "poll",
          !.force = nudged /\ subscribers > 0,
          !.since = IF nudged /\ subscribers = 0 /\ gauge.sampled THEN 0
                    ELSE IF @ < BackgroundInterval THEN @ + 1 ELSE @]
    /\ UNCHANGED <<batteryCache, batteryEvent, batteryFailures, gaugeOnly>>

\* The charging sign after a change of the supply; "unknown" if its read fails.
Charge(present, charger) == IF present THEN charger ELSE "no"

\* Faulty variant: the reading that may become stable is not remembered.
MonitoredForgetting(g, present, charger) ==
    IF ~ g.initialized
    THEN [g EXCEPT !.initialized = TRUE, !.stable = present, !.candidate = present,
                   !.count = 0, !.snapshot.charging = IF present THEN "unknown" ELSE "no"]
    ELSE IF present = g.stable THEN [g EXCEPT !.count = 0]
    ELSE IF present # g.candidate THEN [g EXCEPT !.count = 1]
    ELSE IF g.count + 1 < DebounceSamples THEN [g EXCEPT !.count = @ + 1]
    ELSE [g EXCEPT !.stable = present, !.count = 0,
                   !.snapshot.charging = Charge(present, charger)]

\* update_vbus_state, when the pin was read: the first reading is the baseline,
\* a change counts after enough equal readings.
Monitored(g, present, charger) ==
    IF ~ g.initialized
    THEN [g EXCEPT !.initialized = TRUE, !.stable = present, !.candidate = present,
                   !.count = 0, !.snapshot.charging = IF present THEN "unknown" ELSE "no"]
    ELSE IF present = g.stable THEN [g EXCEPT !.candidate = present, !.count = 0]
    ELSE IF present # g.candidate THEN [g EXCEPT !.candidate = present, !.count = 1]
    ELSE IF g.count + 1 < DebounceSamples THEN [g EXCEPT !.count = @ + 1]
    ELSE [g EXCEPT !.stable = present, !.count = 0,
                   !.snapshot.charging = Charge(present, charger)]

Due == \/ gauge.force \/ ~ gauge.sampled
       \/ gauge.since >= IF subscribers > 0 THEN DetailInterval ELSE BackgroundInterval

\* A due sample, or a change of the supply, is published.
Publishes(due, monitored) ==
    due \/ (gauge.initialized /\ monitored.stable # gauge.stable)

\* One turn: the pin, the gauge if a sample is due, and the decision to publish.
PollGauge ==
    /\ gauge.step = "poll"
    /\ \E vbus \in BOOLEAN, charger \in {"unknown", "no", "yes"}, telemetry \in {0, 1, 2} :
          LET failed == (IF vbus THEN 0 ELSE 1) + (IF telemetry = 0 THEN 1 ELSE 0)
              monitored == IF vbus THEN Monitored(gauge, supply, charger) ELSE gauge
              level == IF Due /\ telemetry # 0 THEN telemetry
                       ELSE gauge.snapshot.level
              published == vbus /\ (Due => telemetry # 0) /\ Publishes(Due, monitored)
          IN  /\ batteryFailures + failed <= MaxBatteryFailures
              /\ batteryFailures' = batteryFailures + failed
              /\ gauge' = [monitored EXCEPT
                    !.snapshot.level = level, !.force = FALSE,
                    !.step = IF published THEN "cache" ELSE "wait",
                    !.sampled = @ \/ (published /\ Due),
                    !.since = IF published /\ Due THEN 0 ELSE @]
    /\ UNCHANGED <<nudged, batteryCache, batteryEvent, gaugeOnly>>

\* publish_snapshot: the cache first ...
PublishCache ==
    /\ gauge.step = "cache" /\ batteryCache' = gauge.snapshot
    /\ gauge' = [gauge EXCEPT !.step = "event"]
    /\ UNCHANGED <<nudged, batteryEvent, batteryFailures, gaugeOnly>>

\* ... then the event, over one that was not taken yet.
PublishEvent ==
    /\ gauge.step = "event" /\ batteryEvent' = gauge.snapshot
    /\ gauge' = [gauge EXCEPT !.step = "wait"]
    /\ UNCHANGED <<nudged, batteryCache, batteryFailures, gaugeOnly>>

GaugeStep == WakeGauge \/ PollGauge \/ PublishCache \/ PublishEvent

-----------------------------------------------------------------------------
(* The main loop.                                                          *)

followersOnly == <<supply, gauge, batteryCache, plugs, batteryFailures>>

\* A switch to the app is pending until apply_pending_switch.
ChooseBattery ==
    /\ batteryApp.state = "closed" /\ visits < MaxVisits /\ visits' = visits + 1
    /\ batteryApp' = [batteryApp EXCEPT !.state = "opening"]
    /\ UNCHANGED <<subscribers, nudged, batteryEvent, statusBar, followersOnly>>

\* Faulty variant: the app opens without a look at the cache.
BlankAtOpen == NoEvent

SnapshotAtOpen == batteryCache

\* on_open takes the cached snapshot, then subscribes.
OpenBattery ==
    /\ batteryApp.state = "opening"
    /\ batteryApp' = [state |-> "open", snapshot |-> SnapshotAtOpen]
    /\ subscribers' = subscribers + 1 /\ nudged' = TRUE
    /\ UNCHANGED <<visits, batteryEvent, statusBar, followersOnly>>

\* Another app is chosen.
LeaveBattery ==
    /\ batteryApp.state = "open" /\ batteryApp' = [batteryApp EXCEPT !.state = "closing"]
    /\ UNCHANGED <<visits, subscribers, nudged, batteryEvent, statusBar, followersOnly>>

\* on_close
CloseBattery ==
    /\ batteryApp.state = "closing"
    /\ batteryApp' = [state |-> "closed", snapshot |-> NoEvent]
    /\ subscribers' = subscribers - 1 /\ nudged' = TRUE
    /\ UNCHANGED <<visits, batteryEvent, statusBar, followersOnly>>

\* The dispatcher updates the status bar; the app gets the event unless a switch
\* is pending.
TakeSnapshot ==
    /\ batteryEvent # NoEvent /\ batteryEvent' = NoEvent
    /\ statusBar' = batteryEvent
    /\ batteryApp' = IF batteryApp.state = "open"
                     THEN [batteryApp EXCEPT !.snapshot = batteryEvent] ELSE batteryApp
    /\ UNCHANGED <<visits, subscribers, nudged, followersOnly>>

BatteryNext ==
    \/ Plug \/ GaugeStep \/ ChooseBattery \/ OpenBattery \/ LeaveBattery \/ CloseBattery
    \/ TakeSnapshot

BatterySpec == BatteryInit /\ [][BatteryNext]_batteryVars
-----------------------------------------------------------------------------
\* Who follows the battery knows its last snapshot once the queue is empty,
\* although events are overwritten, and kept from an app whose switch is pending
\* (publish_snapshot, battery_app::on_open, system_status_update_battery).
BatteryKnown ==
    batteryEvent = NoEvent /\ gauge.step # "event" =>
        /\ statusBar = batteryCache
        /\ batteryApp.state = "open" => batteryApp.snapshot = batteryCache

\* A supply that stays unplugged ends the charging sign of the status bar, though
\* the gauge may fail at the very turn the change was noticed: the change is then
\* published with the next sample (update_vbus_state, battery_task).  Visits to the
\* battery app are finitely many: each one that ends puts the next sample off.
UnplugNoticed == (~ supply) ~> (supply \/ statusBar.charging = "no")
=============================================================================
