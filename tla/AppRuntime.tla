----------------------------- MODULE AppRuntime -----------------------------
(***************************************************************************)
(* Switching between apps (src/app/app.cpp, app_registry.cpp), the order   *)
(* in which src/system delivers events to them, and the button selection   *)
(* of the launcher and the menu.                                           *)
(*                                                                         *)
(* The main loop alternates: the dispatcher delivers events until one asks *)
(* for a switch (or the queues or its budget are exhausted), app_update    *)
(* then applies the switch and lets Mooncake run the apps.  An event that  *)
(* is delivered while a switch is pending is dropped.                      *)
(***************************************************************************)
EXTENDS Naturals, Sequences, SequencesExt

CONSTANTS
    HistorySize,     \* return_history.size()
    StatusLength,    \* length of the storage status queue
    MaxMedium        \* bound: storage status changes

ASSUME RuntimeAssumption == HistorySize \in Nat /\ HistorySize >= 2 /\ StatusLength \in Nat \ {0}

NoApp == "none"
NoSelection == 0

\* launcher_entries and menu_entries; Books and File launch the Reader
Entries == [app \in {"launcher", "menu"} |->
    IF app = "launcher" THEN <<"books", "file", "menu">>
    ELSE <<"test", "rtc_setting", "battery", "gray4_test">>]

\* ... from what they read of the storage status when they open and follow in
\* its events.
Launchers == {"books", "file"}

Apps == {"launcher", "menu", "reader"} \cup Range(Entries["launcher"])
            \cup Range(Entries["menu"])

VARIABLES
    foreground,   \* foreground_kind, NoApp before the first switch
    returns,      \* return_history[0 .. return_depth)
    pending,      \* pending_target while has_pending_switch, else NoApp
    launch,       \* pending_launch holds a book
    turn,         \* what the main loop does next
    selection,    \* selection_ of the launcher or the menu
    medium,       \* the storage service's state and generation
    statuses,     \* its status queue
    known         \* the status the foreground app last learned

runtimeVars == <<foreground, returns, pending, launch, turn, selection, medium,
                 statuses, known>>

RuntimeTypeOK ==
    /\ foreground \in Apps \cup {NoApp} /\ pending \in Apps \cup {NoApp}
    /\ returns \in Seq(Apps) /\ Len(returns) <= HistorySize /\ launch \in BOOLEAN
    /\ turn \in {"events", "update", "running"} /\ selection \in 0 .. 4
    /\ medium \in 0 .. MaxMedium /\ known \in 0 .. MaxMedium
    /\ statuses \in Seq(1 .. MaxMedium) /\ Len(statuses) <= StatusLength

RuntimeInit ==
    /\ foreground = NoApp /\ returns = <<>> /\ pending = "launcher"
    /\ launch = FALSE /\ turn = "events" /\ selection = NoSelection
    /\ medium = 0 /\ statuses = <<>> /\ known = 0

\* Faulty variant: the app that asks for the switch is not remembered.
RememberedNothing == returns

\* app_request_switch: a full history forgets its oldest entry.
Remembered ==
    IF foreground = NoApp THEN returns
    ELSE Append(IF Len(returns) = HistorySize THEN Tail(returns) ELSE returns, foreground)

RequestSwitch(target, withBook) ==
    /\ pending' = target /\ launch' = withBook
    /\ returns' = IF target = "launcher" THEN <<>>
                  ELSE IF foreground = target THEN returns ELSE Remembered

\* app_request_back
RequestBack ==
    /\ pending' = IF returns = <<>> THEN "launcher" ELSE Last(returns)
    /\ returns' = IF returns = <<>> THEN returns ELSE Front(returns)
    /\ launch' = FALSE

\* An event reaches an app while no switch is pending; the dispatcher goes on
\* with its next event unless the app asked for a switch.
Reaches(apps) == turn = "events" /\ pending = NoApp /\ foreground \in apps

\* A navigate_back control, the Back button, or the clock that was saved.
GoBack ==
    /\ Reaches(Apps \ {"launcher"})
    /\ RequestBack /\ turn' = "update"
    /\ UNCHANGED <<foreground, selection, medium, statuses, known>>

\* activate_entry, by a click or by the Confirm button on the selected entry.
Activate(index) ==
    /\ RequestSwitch(Entries[foreground][index], FALSE) /\ turn' = "update"
    /\ UNCHANGED <<foreground, selection, medium, statuses, known>>

ClickEntry ==
    /\ Reaches({"launcher", "menu"})
    /\ \E index \in DOMAIN Entries[foreground] : Activate(index)

Confirm ==
    /\ Reaches({"launcher", "menu"})
    /\ selection \in DOMAIN Entries[foreground] /\ Activate(selection)

\* selection_controller: move_previous and move_next wrap at the ends.
MoveSelection ==
    /\ Reaches({"launcher", "menu"})
    /\ LET count == Len(Entries[foreground])
       IN  selection' \in {IF selection > 1 THEN selection - 1 ELSE count,
                           IF selection \in 1 .. count - 1 THEN selection + 1 ELSE 1}
    /\ UNCHANGED <<foreground, returns, pending, launch, turn, medium, statuses, known>>

\* File launches the Reader from its row handler ...
LaunchFromFile ==
    /\ Reaches({"file"})
    /\ RequestSwitch("reader", TRUE) /\ turn' = "update"
    /\ UNCHANGED <<foreground, selection, medium, statuses, known>>

\* ... and Books once the catalog is idle, from on_running: the switch is
\* pending when the dispatcher runs next.
LaunchFromBooks ==
    /\ turn = "running" /\ foreground = "books" /\ pending = NoApp
    /\ RequestSwitch("reader", TRUE) /\ turn' = "events"
    /\ UNCHANGED <<foreground, selection, medium, statuses, known>>

\* The dispatcher takes a storage status; the app it reaches compares it with
\* the service.  It is dropped when a switch is pending.
StatusEvent ==
    /\ turn = "events" /\ statuses # <<>>
    /\ statuses' = Tail(statuses)
    /\ known' = IF pending = NoApp /\ foreground \in Launchers /\ Head(statuses) = medium
                THEN medium ELSE known
    /\ turn' = IF pending = NoApp THEN "events" ELSE "update"
    /\ UNCHANGED <<foreground, returns, pending, launch, selection, medium>>

\* The monitor publishes a status: the oldest one of a full queue is dropped.
StatusChanges ==
    /\ medium < MaxMedium /\ medium' = medium + 1
    /\ statuses' = Append(IF Len(statuses) = StatusLength THEN Tail(statuses)
                          ELSE statuses, medium + 1)
    /\ UNCHANGED <<foreground, returns, pending, launch, turn, selection, known>>

\* No event is left, or SYSTEM_EVENTS_PER_UPDATE were delivered.
EventsDone ==
    /\ turn = "events" /\ turn' = "update"
    /\ UNCHANGED <<foreground, returns, pending, launch, selection, medium, statuses, known>>

\* prepare_launch: only the Reader takes a book, and it needs one.
Prepares(target, withBook) == withBook <=> target = "reader"

\* Faulty variant: an app waits for the next status event instead of reading.
OnOpenWaits(app) == selection' = NoSelection /\ UNCHANGED known

\* The on_open of the target, which Mooncake runs before the next event.
OnOpen(app) ==
    /\ selection' = NoSelection
    /\ known' = IF app \in Launchers THEN medium ELSE known

\* apply_pending_switch
ApplySwitch ==
    /\ turn = "update" /\ turn' = "running"
    /\ pending' = NoApp /\ launch' = FALSE
    /\ IF pending = NoApp \/ pending = foreground
       THEN UNCHANGED <<foreground, returns, selection, known>>
       ELSE IF ~ Prepares(pending, launch)
       THEN /\ returns' = IF returns = <<>> THEN returns ELSE Front(returns)
            /\ UNCHANGED <<foreground, selection, known>>
       ELSE /\ foreground' = pending /\ UNCHANGED returns
            /\ OnOpen(pending)
    /\ UNCHANGED <<medium, statuses>>

AppsRun ==
    /\ turn = "running" /\ turn' = "events"
    /\ UNCHANGED <<foreground, returns, pending, launch, selection, medium, statuses, known>>

RuntimeNext ==
    \/ GoBack \/ ClickEntry \/ Confirm \/ MoveSelection \/ LaunchFromFile
    \/ LaunchFromBooks \/ StatusEvent \/ StatusChanges \/ EventsDone
    \/ ApplySwitch \/ AppsRun

RuntimeSpec == RuntimeInit /\ [][RuntimeNext]_runtimeVars
-----------------------------------------------------------------------------
\* The stack the user sees: the history and the app that is or will be on top.
Screens ==
    IF foreground = NoApp THEN <<"launcher">>
    ELSE Append(returns, IF pending # NoApp THEN pending ELSE foreground)

OpensPairs ==
    {<<"launcher", Entries["launcher"][i]>> : i \in DOMAIN Entries["launcher"]}
    \cup {<<"menu", Entries["menu"][i]>> : i \in DOMAIN Entries["menu"]}
    \cup {<<app, "reader">> : app \in Launchers}

Stack == INSTANCE AppStack WITH Home <- "launcher", Opens <- OpensPairs, stack <- Screens

\* The return history, the pending switch and the foreground app implement the
\* abstract stack of apps: every switch opens an app the top one offers or goes
\* back to the app it was opened from, whatever is dropped or still pending
\* (app_request_switch, app_request_back, app_request_launch, apply_pending_switch).
StackSpec == Stack!Init /\ [][Stack!Next]_Screens

\* An app that follows the card knows its present state as soon as no status is
\* queued and no switch is pending, although the dispatcher drops the statuses
\* it takes during a switch and the queue drops its oldest (app_dispatch_event,
\* publish_status, and the on_open of Books, File and Reader).
StatusKnown ==
    statuses = <<>> /\ pending = NoApp /\ foreground \in Launchers => known = medium
=============================================================================
