------------------------------ MODULE MCDevice ------------------------------
(***************************************************************************)
(* Twelve components that share no state with one another, checked in one *)
(* run: part names the component a behaviour is about; the others rest.    *)
(***************************************************************************)
EXTENDS AppRuntime, FramePipeline, RefreshDebt, TouchInput, Buttons, Calendar,
        RtcClock, Battery, EpubCache, FileBrowser, DisplayPanel, CoverStore

CONSTANT Components   \* those a run is about

VARIABLE part

AllYears == 2000 .. 2099
Fingerprints == <<1, 1, 2>>
TextSizes == <<2, 2, 2>>
CoverSizes == <<1, 2, 1>>
Cards == [g \in 1 .. 3 |->
    IF g = 2 THEN [p \in {Root} |-> <<"book">>]
    ELSE [p \in Paths |-> IF p = Root THEN <<"folder", "book">>
                          ELSE <<"other", "book", "book">>]]

deviceVars == <<part, runtimeVars, frameVars, debtVars, touchVars,
                buttonVars, calendarVars, rtcVars, batteryVars,
                epubVars, fileVars, panelVars, coverVars>>

Init ==
    /\ part \in Components
    /\ RuntimeInit /\ FramesInit /\ DebtInit /\ TouchInit
    /\ ButtonsInit /\ CalendarInit /\ RtcInit /\ BatteryInit
    /\ EpubInit /\ FileInit /\ PanelInit /\ CoversInit
    /\ part # "calendar" => start = 2000
    /\ part # "battery" => supply

RestRuntime == UNCHANGED <<part, frameVars, debtVars, touchVars, buttonVars, calendarVars,
                rtcVars, batteryVars, epubVars, fileVars, panelVars, coverVars>>
RestFrames == UNCHANGED <<part, runtimeVars, debtVars, touchVars, buttonVars, calendarVars,
                rtcVars, batteryVars, epubVars, fileVars, panelVars, coverVars>>
RestDebt == UNCHANGED <<part, runtimeVars, frameVars, touchVars, buttonVars, calendarVars,
                rtcVars, batteryVars, epubVars, fileVars, panelVars, coverVars>>
RestTouch == UNCHANGED <<part, runtimeVars, frameVars, debtVars, buttonVars, calendarVars,
                rtcVars, batteryVars, epubVars, fileVars, panelVars, coverVars>>
RestButtons == UNCHANGED <<part, runtimeVars, frameVars, debtVars, touchVars, calendarVars,
                rtcVars, batteryVars, epubVars, fileVars, panelVars, coverVars>>
RestCalendar == UNCHANGED <<part, runtimeVars, frameVars, debtVars, touchVars, buttonVars,
                rtcVars, batteryVars, epubVars, fileVars, panelVars, coverVars>>
RestRtc == UNCHANGED <<part, runtimeVars, frameVars, debtVars, touchVars, buttonVars,
                calendarVars, batteryVars, epubVars, fileVars, panelVars, coverVars>>
RestBattery == UNCHANGED <<part, runtimeVars, frameVars, debtVars, touchVars, buttonVars,
                calendarVars, rtcVars, epubVars, fileVars, panelVars, coverVars>>
RestEpub == UNCHANGED <<part, runtimeVars, frameVars, debtVars, touchVars, buttonVars,
                calendarVars, rtcVars, batteryVars, fileVars, panelVars, coverVars>>
RestFile == UNCHANGED <<part, runtimeVars, frameVars, debtVars, touchVars, buttonVars,
                calendarVars, rtcVars, batteryVars, epubVars, panelVars, coverVars>>
RestPanel == UNCHANGED <<part, runtimeVars, frameVars, debtVars, touchVars, buttonVars,
                calendarVars, rtcVars, batteryVars, epubVars, fileVars, coverVars>>
RestCovers == UNCHANGED <<part, runtimeVars, frameVars, debtVars, touchVars, buttonVars,
                calendarVars, rtcVars, batteryVars, epubVars, fileVars, panelVars>>

Next ==
    \/ part = "apps" /\ RuntimeNext /\ RestRuntime
    \/ part = "frames" /\ FramesNext /\ RestFrames
    \/ part = "debt" /\ DebtNext /\ RestDebt
    \/ part = "touch" /\ TouchNext /\ RestTouch
    \/ part = "buttons" /\ ButtonsNext /\ RestButtons
    \/ part = "calendar" /\ CalendarNext /\ RestCalendar
    \/ part = "rtc" /\ RtcNext /\ RestRtc
    \/ part = "battery" /\ BatteryNext /\ RestBattery
    \/ part = "epub" /\ EpubNext /\ RestEpub
    \/ part = "files" /\ FileNext /\ RestFile
    \/ part = "panel" /\ PanelNext /\ RestPanel
    \/ part = "covers" /\ CoversNext /\ RestCovers

Spec == Init /\ [][Next]_deviceVars

\* What runs on: the tasks,
Task ==
    \/ part = "frames" /\ RendererStep /\ RestFrames
    \/ part = "rtc" /\ RtcTaskStep /\ RestRtc
    \/ part = "battery" /\ GaugeStep /\ RestBattery
\* and the main loop, which ends a call it made and takes its events.
MainCall == part = "frames" /\ ProducerStep /\ RestFrames
MainEvent ==
    \/ part = "rtc" /\ TakeAnswer /\ RestRtc
    \/ part = "battery" /\ TakeSnapshot /\ RestBattery

FairSpec ==
    /\ Spec /\ WF_deviceVars(Task)
    /\ WF_deviceVars(MainCall) /\ WF_deviceVars(MainEvent)

\* The types of the twelve components.
TypeOK ==
    /\ RuntimeTypeOK /\ FramesTypeOK /\ DebtTypeOK /\ TouchTypeOK
    /\ ButtonsTypeOK /\ CalendarTypeOK /\ RtcTypeOK /\ BatteryTypeOK
    /\ EpubTypeOK /\ FileTypeOK /\ PanelTypeOK /\ CoverTypeOK
=============================================================================
