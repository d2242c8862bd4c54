------------------------------ MODULE TouchInput ------------------------------
(***************************************************************************)
(* From a finger to an action: the touch state machine and its event queue *)
(* (src/services/input/input_service.cpp), which drops its oldest event,   *)
(* and the interaction router (src/ui/ui_interaction_router.cpp), which    *)
(* captures a control when it is pressed and acts when it is released.     *)
(* Views open and frames come to the screen in between.                    *)
(***************************************************************************)
EXTENDS Naturals, Sequences

CONSTANTS
    TouchQueueLength,  \* INPUT_EVENT_QUEUE_LENGTH
    MaxContacts,       \* bound: presses of the finger
    MaxOpenings        \* bound: views opened

ASSUME TouchAssumption == TouchQueueLength \in Nat \ {0}

Places == {1, 2}      \* where the finger is; a control may be there
Nowhere == 0
\* The views whose controls depend on the presented frame, with the Reader, and
\* the others.
TouchViews == {"reader", "list", "form"}

VARIABLES
    sampler,    \* input_context: state, start_x/y and current_x/y, and which contact
    touches,    \* event_queue
    lost,       \* contacts one of whose events was dropped from the queue
    router,     \* active_view, captured_control, and who pressed it and where
    drawn,      \* ui_presentation_input_ready, and the controls of the presented frame
    swapped,    \* contacts pressed just as another frame was presented
    openings,   \* number of ui_interaction_set_view calls
    acted       \* the last click that became an action

touchVars == <<sampler, touches, lost, router, drawn, swapped, openings, acted>>

Gestures == {"press", "click", "long_start", "long_repeat", "long_end"}
TouchEvents == [gesture : Gestures, start : Places, end : Places, contact : 1 .. MaxContacts]

TouchTypeOK ==
    /\ sampler.state \in {"idle", "debounce", "pressed", "long"}
    /\ touches \in Seq(TouchEvents) /\ Len(touches) <= TouchQueueLength
    /\ lost \cup swapped \subseteq 1 .. MaxContacts /\ router.view \in TouchViews
    /\ router.captured \in Places \cup {Nowhere} /\ drawn.ready \in BOOLEAN
    /\ drawn.controls \subseteq Places /\ openings \in 0 .. MaxOpenings

NoClick == [pressed |-> 0, released |-> 0, opened |-> 0, ended |-> 0]

TouchInit ==
    /\ sampler = [state |-> "idle", start |-> 1, at |-> 1, contact |-> 0]
    /\ touches = <<>> /\ lost = {}
    /\ router = [view |-> "list", captured |-> Nowhere, contact |-> 0, opening |-> 0]
    /\ drawn = [ready |-> FALSE, controls |-> {}] /\ swapped = {}
    /\ openings = 0 /\ acted = NoClick

\* publish_event: the oldest event of a full queue is dropped.
PublishTouch(gesture, place) ==
    LET event == [gesture |-> gesture, start |-> sampler.start, end |-> place,
                  contact |-> sampler.contact]
        full == Len(touches) = TouchQueueLength
    IN  /\ touches' = Append(IF full THEN Tail(touches) ELSE touches, event)
        /\ lost' = IF full THEN lost \cup {Head(touches).contact} ELSE lost

\* update_state, the finger being at some place or up.  Whether a time has
\* elapsed is left open; a press needs two samples at least.
SampleUp ==
    /\ sampler.state # "idle"
    /\ sampler' = [sampler EXCEPT !.state = "idle", !.start = 1, !.at = 1]
    /\ CASE sampler.state = "pressed" -> PublishTouch("click", sampler.at)
         [] sampler.state = "long" -> PublishTouch("long_end", sampler.at)
         [] sampler.state = "debounce" -> UNCHANGED <<touches, lost>>
    /\ UNCHANGED <<router, drawn, swapped, openings, acted>>

SampleDown(place) ==
    /\ \/ /\ sampler.state = "idle" /\ sampler.contact < MaxContacts
          /\ sampler' = [state |-> "debounce", start |-> place, at |-> place,
                         contact |-> sampler.contact + 1]
          /\ UNCHANGED <<touches, lost>>
       \/ /\ sampler.state # "idle" /\ sampler' = [sampler EXCEPT !.at = place]
          /\ UNCHANGED <<touches, lost>>
       \/ /\ sampler.state = "debounce"
          /\ sampler' = [sampler EXCEPT !.state = "pressed", !.at = place]
          /\ PublishTouch("press", place)
       \/ /\ sampler.state = "pressed"
          /\ sampler' = [sampler EXCEPT !.state = "long", !.at = place]
          /\ PublishTouch("long_start", place)
       \/ /\ sampler.state = "long"
          /\ sampler' = [sampler EXCEPT !.at = place] /\ PublishTouch("long_repeat", place)
    /\ UNCHANGED <<router, drawn, swapped, openings, acted>>

\* ui_interaction_set_view
Opened(view) == [router EXCEPT !.view = view, !.captured = Nowhere]

OpenView ==
    /\ openings < MaxOpenings /\ openings' = openings + 1
    /\ \E view \in TouchViews : router' = Opened(view)
    /\ drawn' = [ready |-> FALSE, controls |-> {}]
    /\ UNCHANGED <<sampler, touches, lost, swapped, acted>>

\* An app submits a frame; the one before it stays presented until it is drawn.
SubmitView ==
    /\ drawn.ready /\ drawn' = [drawn EXCEPT !.ready = FALSE]
    /\ UNCHANGED <<sampler, touches, lost, router, swapped, openings, acted>>

\* ui_presentation_commit_frame, of the newest frame of the view or of one before it.
PresentView ==
    /\ ~ drawn.ready
    /\ \E ready \in BOOLEAN, controls \in SUBSET Places :
          drawn' = [ready |-> ready, controls |-> controls]
    /\ UNCHANGED <<sampler, touches, lost, router, swapped, openings, acted>>

\* Faulty variant: a press where no control is leaves what was captured.
PressHitting(event) ==
    /\ router' = IF event.start \in drawn.controls
                 THEN [router EXCEPT !.captured = event.start, !.contact = event.contact,
                                     !.opening = openings] ELSE router
    /\ UNCHANGED <<swapped, acted>>

\* A press: hit_test captures the control that the presented frame has at that
\* place, or none, whatever was captured and however old the frame is.  Outside a
\* form a press is passed over when a frame is presented between the two looks of
\* the read guard.
Press(event) ==
    /\ \/ /\ router' = [router EXCEPT
                   !.captured = IF event.start \in drawn.controls THEN event.start ELSE Nowhere,
                   !.contact = event.contact, !.opening = openings]
          /\ UNCHANGED swapped
       \/ /\ router.view # "form" /\ ~ drawn.ready
          /\ swapped' = swapped \cup {event.contact} /\ UNCHANGED router
    /\ UNCHANGED acted

Acts(event) ==
    acted' = [pressed |-> router.contact, released |-> event.contact,
              opened |-> router.opening, ended |-> openings]

\* The Reader acts on a click where it was pressed, on the newest frame only.
ReleaseReader(event) ==
    /\ router' = [router EXCEPT !.captured = Nowhere]
    /\ IF event.gesture = "click" /\ event.start = event.end /\ drawn.ready
          /\ event.end = router.captured /\ event.end \in drawn.controls
       THEN Acts(event) ELSE UNCHANGED acted

\* Faulty variant: a long press keeps what it captured.
ReleaseClick(event) ==
    /\ router' = IF event.gesture = "click" THEN [router EXCEPT !.captured = Nowhere] ELSE router
    /\ IF event.gesture = "click" /\ event.end = router.captured
       THEN Acts(event) ELSE UNCHANGED acted

\* The others act on a click that ends on the captured control.
ReleaseOther(event) ==
    /\ router' = IF event.gesture \in {"click", "long_end"}
                 THEN [router EXCEPT !.captured = Nowhere] ELSE router
    /\ IF event.gesture = "click" /\ event.end = router.captured
       THEN Acts(event) ELSE UNCHANGED acted

\* ui_interaction_process
TakeTouch ==
    /\ touches # <<>> /\ touches' = Tail(touches)
    /\ LET event == Head(touches)
       IN  IF router.captured = Nowhere /\ ~ drawn.ready THEN UNCHANGED <<router, swapped, acted>>
           ELSE IF event.gesture = "press" THEN Press(event)
           ELSE /\ IF router.captured = Nowhere THEN UNCHANGED <<router, acted>>
                   ELSE IF router.view = "reader" THEN ReleaseReader(event)
                   ELSE ReleaseOther(event)
                /\ UNCHANGED swapped
    /\ UNCHANGED <<sampler, lost, drawn, openings>>

TouchNext ==
    \/ SampleUp \/ (\E place \in Places : SampleDown(place))
    \/ OpenView \/ SubmitView \/ PresentView \/ TakeTouch

TouchSpec == TouchInit /\ [][TouchNext]_touchVars
-----------------------------------------------------------------------------
\* A click acts in the view that was open when its control was pressed, and on the
\* control its own contact pressed: on that of an earlier contact only when the queue
\* dropped how that one ended, and dropped this one's press too or the router passed
\* it over because a frame was being presented (publish_event,
\* ui_interaction_process, ui_interaction_set_view).
ActsOnItsPress ==
    /\ acted.opened = acted.ended
    /\ \/ acted.pressed = acted.released
       \/ acted.pressed \in lost /\ acted.released \in lost \cup swapped

\* Nothing stays captured once the finger is up and its events were taken,
\* unless one was dropped (update_state, ui_interaction_process).
CaptureEnds ==
    router.captured # Nowhere /\ touches = <<>> /\ sampler.state \in {"idle", "debounce"}
        => router.contact \in lost
=============================================================================
