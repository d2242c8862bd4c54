--------------------------- MODULE StorageService ---------------------------
(***************************************************************************)
(* The SD card behind the storage service: card detection and mounting by  *)
(* the monitor task, directory scans and chunk reads by the storage worker *)
(* for the foreground app, and the gate through which the book workers     *)
(* reach the card (src/services/storage, src/m5_hal/paper_mono).           *)
(*                                                                         *)
(* A mounted volume is named by the media_generation under which it was    *)
(* mounted; 0 stands for no volume.  Results are followed up to the moment *)
(* they are published; ResultPool takes over from there.                   *)
(***************************************************************************)
EXTENDS Naturals, Sequences, FiniteSets

CONSTANTS
    StableSamples,       \* stable_sample_count
    StatusQueueLength,   \* status_queue_length
    RequestQueueLength,  \* request_queue_length
    MaxGeneration,       \* bound on card changes explored
    BookTasks,           \* tasks that use storage_book_access_begin / end
    Monitor, Worker,     \* the two tasks of the service
    Nobody

ASSUME StableAssumption == StableSamples \in Nat \ {0}
ASSUME QueueAssumption ==
    StatusQueueLength \in Nat \ {0} /\ RequestQueueLength \in Nat \ {0}
ASSUME BoundAssumption == MaxGeneration \in Nat
ASSUME TaskAssumption ==
    /\ Monitor # Worker /\ Nobody \notin BookTasks \cup {Monitor, Worker}
    /\ BookTasks \cap {Monitor, Worker} = {}

States == {"no_card", "mounting", "ready", "error"}
Operations == {"list_directory", "read_file_chunk"}
Codes == {"ok", "no_card", "cancelled", "io_error"}

VARIABLES
    present,       \* a card is in the slot
    mounted,       \* mounted_card: the generation it was mounted under, or 0
    volumes,       \* history: the generations a card was mounted under
    fs,            \* holder of filesystem_mutex
    media,         \* holder of media_access_mutex
    state,         \* current_state
    generation,    \* media_generation
    unmountPending,
    foreground,    \* foreground_requests
    requests,      \* request_queue
    statuses,      \* status_queue
    seen,          \* the last status the dispatcher delivered
    \* storage_monitor_task
    mpc, after, stableInserted, stableKnown, candidate, matching,
    \* storage_worker_task
    wpc, request, code, volume,
    \* the main loop inside storage_service_list_directory / read_file_chunk
    cpc, asked, latched,
    \* storage_book_access_begin
    gate, wanted

cardVars == <<present, mounted, volumes, fs>>
monitorVars == <<mpc, after, stableInserted, stableKnown, candidate, matching>>
workerVars == <<wpc, request, code, volume>>
clientVars == <<cpc, asked, latched>>
gateVars == <<gate, wanted>>
statusVars == <<statuses, seen>>
debounceVars == <<stableInserted, stableKnown, candidate, matching>>

\* What the monitor task leaves to the others.
otherTasks == <<foreground, requests, workerVars, clientVars, gateVars>>

vars == <<cardVars, media, state, generation, unmountPending, foreground,
          requests, statusVars, monitorVars, workerVars, clientVars, gateVars>>

Generations == 0 .. MaxGeneration
Requests == [operation : Operations, generation : Generations]
Statuses == [state : States, generation : Generations]

TypeOK ==
    /\ present \in BOOLEAN /\ mounted \in Generations /\ volumes \subseteq Generations
    /\ fs \in {Nobody, Worker}
    /\ media \in BookTasks \cup {Monitor, Nobody}
    /\ state \in States /\ generation \in Generations
    /\ unmountPending \in BOOLEAN
    /\ foreground \in Nat
    /\ requests \in Seq(Requests) /\ Len(requests) <= RequestQueueLength
    /\ statuses \in Seq(Statuses) /\ Len(statuses) <= StatusQueueLength
    /\ seen \in Statuses
    /\ mpc \in {"wait", "sample", "change", "removed", "unmount", "insert",
                "mounting", "mount", "mounted", "failed", "release", "discard"}
    /\ after \in {"unmount", "mount", "release"}
    /\ stableInserted \in BOOLEAN /\ stableKnown \in BOOLEAN
    /\ candidate \in BOOLEAN /\ matching \in 0 .. StableSamples
    /\ wpc \in {"idle", "check", "open", "lock", "scan", "read", "recheck", "publish"}
    /\ request \in Requests /\ code \in Codes /\ volume \in Generations
    /\ cpc \in {"idle", "stamp", "send"} /\ asked \in Requests
    /\ latched \in Generations
    /\ gate \in [BookTasks -> {"idle", "check", "take", "recheck", "holding"}]
    /\ wanted \in [BookTasks -> Generations]

NoRequest == [operation |-> "list_directory", generation |-> 0]

Init ==
    /\ present \in BOOLEAN /\ mounted = 0 /\ volumes = {}
    /\ fs = Nobody /\ media = Nobody
    /\ state = "no_card" /\ generation = 0 /\ unmountPending = FALSE
    /\ foreground = 0 /\ requests = <<>> /\ statuses = <<>>
    /\ seen = [state |-> "no_card", generation |-> 0]
    /\ mpc = "wait" /\ after = "release" /\ matching = 0
    /\ stableInserted = FALSE /\ stableKnown = FALSE /\ candidate = FALSE
    /\ wpc = "idle" /\ request = NoRequest /\ code = "ok" /\ volume = 0
    /\ cpc = "idle" /\ asked = NoRequest /\ latched = 0
    /\ gate = [t \in BookTasks |-> "idle"]
    /\ wanted = [t \in BookTasks |-> 0]

\* The test every user of the card repeats: ready, and still this generation.
Current(g) == state = "ready" /\ generation = g

-----------------------------------------------------------------------------
(* The environment.                                                        *)

\* The user pushes the card in or pulls it out.
MoveCard ==
    /\ present' = ~ present
    /\ UNCHANGED <<mounted, volumes, fs, media, state, generation, unmountPending,
                   foreground, requests, statusVars, monitorVars, workerVars,
                   clientVars, gateVars>>

\* The dispatcher delivers a storage_status event.
TakeStatus ==
    /\ statuses # <<>>
    /\ seen' = Head(statuses)
    /\ statuses' = Tail(statuses)
    /\ UNCHANGED <<cardVars, media, state, generation, unmountPending, foreground,
                   requests, monitorVars, workerVars, clientVars, gateVars>>

-----------------------------------------------------------------------------
(* storage_monitor_task.                                                   *)

\* hal_storage_unmount gets filesystem_mutex within its second ...
CanUnmount == mounted = 0 \/ fs = Nobody

\* The tick finds an unmount that timed out earlier and tries it again.
RetryUnmount ==
    /\ mpc = "wait"
    /\ unmountPending
    /\ media = Nobody
    /\ mounted' = IF CanUnmount THEN 0 ELSE mounted
    /\ unmountPending' = ~ CanUnmount
    /\ mpc' = "sample"
    /\ UNCHANGED <<present, volumes, fs, media, state, generation, statusVars, after,
                   debounceVars, otherTasks>>

\* hal_storage_card_inserted could not read the detect pin.
SampleFails ==
    /\ mpc = "sample" \/ (mpc = "wait" /\ ~ unmountPending)
    /\ matching' = 0
    /\ mpc' = "wait"
    /\ UNCHANGED <<cardVars, media, state, generation, unmountPending,
                   statusVars, after, stableInserted, stableKnown,
                   candidate, otherTasks>>

\* Faulty variant: the first stable reading is only a baseline to compare with.
SampleBaseline ==
    /\ mpc = "sample" \/ (mpc = "wait" /\ ~ unmountPending)
    /\ matching' = IF matching = 0 \/ candidate # present THEN 1
                   ELSE IF matching < StableSamples THEN matching + 1
                   ELSE matching
    /\ candidate' = present
    /\ IF matching' = StableSamples /\ ~ (stableKnown /\ stableInserted = present)
       THEN /\ stableInserted' = present
            /\ stableKnown' = TRUE
            /\ mpc' = IF stableKnown THEN "change" ELSE "wait"
       ELSE /\ mpc' = "wait"
            /\ UNCHANGED <<stableInserted, stableKnown>>
    /\ UNCHANGED <<cardVars, media, state, generation, unmountPending,
                   statusVars, after, otherTasks>>

\* One reading of the detect pin, debounced over StableSamples ticks.
Sample ==
    /\ mpc = "sample" \/ (mpc = "wait" /\ ~ unmountPending)
    /\ matching' = IF matching = 0 \/ candidate # present THEN 1
                   ELSE IF matching < StableSamples THEN matching + 1
                   ELSE matching
    /\ candidate' = present
    /\ IF matching' = StableSamples /\ ~ (stableKnown /\ stableInserted = present)
       THEN /\ stableInserted' = present
            /\ stableKnown' = TRUE
            /\ mpc' = "change"
       ELSE /\ mpc' = "wait"
            /\ UNCHANGED <<stableInserted, stableKnown>>
    /\ UNCHANGED <<cardVars, media, state, generation, unmountPending,
                   statusVars, after, otherTasks>>

\* handle_card_change: the generation moves before the state does.
BeginChange ==
    /\ mpc = "change"
    /\ media = Nobody
    /\ generation < MaxGeneration
    /\ media' = Monitor
    /\ generation' = generation + 1
    /\ mpc' = IF stableInserted THEN "insert" ELSE "removed"
    /\ UNCHANGED <<cardVars, state, unmountPending, statusVars, after,
                   debounceVars, otherTasks>>

\* publish_status: store the state, then queue the event if there is room.
Publish(s, next) ==
    /\ state' = s
    /\ IF Len(statuses) < StatusQueueLength
       THEN /\ statuses' = Append(statuses, [state |-> s, generation |-> generation])
            /\ mpc' = next
            /\ UNCHANGED after
       ELSE /\ mpc' = "discard"
            /\ after' = next
            /\ UNCHANGED statuses
    /\ UNCHANGED <<seen, debounceVars>>

\* Faulty variant: the event that did not fit is lost.
DropNewest ==
    /\ mpc = "discard"
    /\ mpc' = after /\ after' = "release"
    /\ UNCHANGED <<cardVars, media, state, generation, unmountPending, statusVars,
                   debounceVars, otherTasks>>

\* The queue was full: take one event out, unless it has drained by now, and
\* send again.
DiscardOldest ==
    /\ mpc = "discard"
    /\ statuses' = Append(IF statuses = <<>> THEN <<>> ELSE Tail(statuses),
                          [state |-> state, generation |-> generation])
    /\ mpc' = after /\ after' = "release"
    /\ UNCHANGED <<cardVars, media, state, generation, unmountPending, seen,
                   debounceVars, otherTasks>>

AnnounceRemoval ==
    /\ mpc = "removed"
    /\ Publish("no_card", "unmount")
    /\ UNCHANGED <<cardVars, media, generation, unmountPending, otherTasks>>

\* ... or times out, which leaves the volume mounted for a later retry.
Unmount ==
    /\ mpc = "unmount"
    /\ mounted' = IF CanUnmount THEN 0 ELSE mounted
    /\ unmountPending' = ~ CanUnmount
    /\ mpc' = "release"
    /\ UNCHANGED <<present, volumes, fs, media, state, generation, statusVars, after,
                   debounceVars, otherTasks>>

\* An insertion must first get rid of a volume whose unmount timed out.
PrepareMount ==
    /\ mpc = "insert"
    /\ ~ unmountPending \/ CanUnmount
    /\ mounted' = IF unmountPending THEN 0 ELSE mounted
    /\ unmountPending' = FALSE
    /\ mpc' = "mounting"
    /\ UNCHANGED <<present, volumes, fs, media, state, generation, statusVars, after,
                   debounceVars, otherTasks>>

StillMounted ==
    /\ mpc = "insert"
    /\ unmountPending /\ ~ CanUnmount
    /\ Publish("error", "release")
    /\ UNCHANGED <<cardVars, media, generation, unmountPending, otherTasks>>

AnnounceMounting ==
    /\ mpc = "mounting"
    /\ Publish("mounting", "mount")
    /\ UNCHANGED <<cardVars, media, generation, unmountPending, otherTasks>>

\* hal_storage_mount: nothing to do if a volume is still mounted; otherwise it
\* needs filesystem_mutex and a card that can be read.
Mount ==
    /\ mpc = "mount"
    /\ \E ok \in BOOLEAN :
          /\ mounted # 0 => ok
          /\ mounted = 0 /\ ok => fs = Nobody /\ present
          /\ mpc' = IF ok THEN "mounted" ELSE "failed"
          /\ mounted' = IF ok /\ mounted = 0 THEN generation ELSE mounted
    /\ volumes' = volumes \cup ({mounted'} \ {0})
    /\ UNCHANGED <<present, fs, media, state, generation, unmountPending,
                   statusVars, after, debounceVars, otherTasks>>

AnnounceMount ==
    /\ mpc \in {"mounted", "failed"}
    /\ Publish(IF mpc = "mounted" THEN "ready" ELSE "error", "release")
    /\ UNCHANGED <<cardVars, media, generation, unmountPending, otherTasks>>

EndChange ==
    /\ mpc = "release"
    /\ media' = Nobody
    /\ mpc' = "wait"
    /\ UNCHANGED <<cardVars, state, generation, unmountPending, statusVars,
                   after, debounceVars, otherTasks>>

MonitorTask ==
    \/ RetryUnmount \/ SampleFails \/ Sample \/ BeginChange \/ DiscardOldest
    \/ AnnounceRemoval \/ Unmount \/ PrepareMount \/ StillMounted
    \/ AnnounceMounting \/ Mount \/ AnnounceMount \/ EndChange

-----------------------------------------------------------------------------
(* The foreground app, through the service's request functions.            *)

\* The app remembers the generation it will ask for, and sees results under.
LatchGeneration ==
    /\ cpc = "idle"
    /\ latched' = generation
    /\ UNCHANGED <<cardVars, media, state, generation, unmountPending, foreground,
                   requests, statusVars, monitorVars, workerVars, cpc, asked,
                   gateVars>>

\* storage_service_list_directory tests the state ...
StartList ==
    /\ cpc = "idle"
    /\ state = "ready"
    /\ cpc' = "stamp"
    /\ UNCHANGED <<cardVars, media, state, generation, unmountPending, foreground,
                   requests, statusVars, monitorVars, workerVars, asked, latched,
                   gateVars>>

\* ... then reads the generation the request will carry, and counts it.
StampList ==
    /\ cpc = "stamp"
    /\ asked' = [operation |-> "list_directory", generation |-> generation]
    /\ foreground' = foreground + 1
    /\ cpc' = "send"
    /\ UNCHANGED <<cardVars, media, state, generation, unmountPending, requests,
                   statusVars, monitorVars, workerVars, latched, gateVars>>

\* storage_service_read_file_chunk: the caller names the generation.
StartRead ==
    /\ cpc = "idle"
    /\ Current(latched)
    /\ asked' = [operation |-> "read_file_chunk", generation |-> latched]
    /\ foreground' = foreground + 1
    /\ cpc' = "send"
    /\ UNCHANGED <<cardVars, media, state, generation, unmountPending, requests,
                   statusVars, monitorVars, workerVars, latched, gateVars>>

\* xQueueSend; a request that does not fit is taken back.
SendRequest ==
    /\ cpc = "send"
    /\ IF Len(requests) < RequestQueueLength
       THEN /\ requests' = Append(requests, asked)
            /\ UNCHANGED foreground
       ELSE /\ foreground' = foreground - 1
            /\ UNCHANGED requests
    /\ cpc' = "idle" /\ asked' = NoRequest
    /\ UNCHANGED <<cardVars, media, state, generation, unmountPending, statusVars,
                   monitorVars, workerVars, latched, gateVars>>

Client == LatchGeneration \/ StartList \/ StampList \/ StartRead \/ SendRequest

-----------------------------------------------------------------------------
(* storage_worker_task.                                                    *)

workerFrame == <<present, mounted, volumes, media, state, generation, unmountPending,
                 statusVars, monitorVars, clientVars, gateVars>>

Dequeue ==
    /\ wpc = "idle"
    /\ requests # <<>>
    /\ request' = Head(requests)
    /\ requests' = Tail(requests)
    /\ wpc' = "check"
    /\ UNCHANGED <<fs, foreground, code, volume, workerFrame>>

\* acquire_result_slot found every slot in use: no answer at all.
DropRequest ==
    /\ wpc = "check"
    /\ foreground' = foreground - 1
    /\ wpc' = "idle"
    /\ request' = NoRequest /\ code' = "ok" /\ volume' = 0
    /\ UNCHANGED <<fs, requests, workerFrame>>

\* The first test of scan_directory and of storage_read_file_chunk.
CheckMedia ==
    /\ wpc = "check"
    /\ IF Current(request.generation)
       THEN /\ wpc' = IF request.operation = "list_directory" THEN "open" ELSE "lock"
            /\ UNCHANGED code
       ELSE /\ wpc' = "publish"
            /\ code' = IF request.operation = "list_directory" THEN "no_card"
                       ELSE "cancelled"
    /\ UNCHANGED <<fs, foreground, requests, request, volume, workerFrame>>

\* hal_storage_open_directory looks at mounted_card before it takes the lock.
OpenDirectory ==
    /\ wpc = "open"
    /\ wpc' = IF mounted = 0 THEN "publish" ELSE "lock"
    /\ code' = IF mounted = 0 THEN "cancelled" ELSE code
    /\ UNCHANGED <<fs, foreground, requests, request, volume, workerFrame>>

\* filesystem_mutex pins whatever volume is mounted by now.
LockVolume ==
    /\ wpc = "lock"
    /\ fs = Nobody
    /\ mounted # 0
    /\ fs' = Worker
    /\ volume' = mounted
    /\ wpc' = IF request.operation = "list_directory" THEN "scan" ELSE "read"
    /\ UNCHANGED <<foreground, requests, request, code, workerFrame>>

\* The lock timed out, the path or the volume is gone, or memory ran out.
LockFails ==
    /\ wpc = "lock"
    /\ IF request.operation = "list_directory"
       THEN wpc' = "publish" /\ code' = "io_error"
       ELSE wpc' = "recheck" /\ code' = IF mounted = 0 THEN "no_card" ELSE "io_error"
    /\ UNCHANGED <<fs, foreground, requests, request, volume, workerFrame>>

\* scan_directory tests the media before each entry ...
ScanCheck ==
    /\ wpc = "scan"
    /\ IF Current(request.generation)
       THEN wpc' = "read" /\ UNCHANGED <<code, fs>>
       ELSE wpc' = "publish" /\ code' = "cancelled" /\ fs' = Nobody
    /\ UNCHANGED <<foreground, requests, request, volume, workerFrame>>

ScanMore ==
    /\ wpc = "read"
    /\ request.operation = "list_directory"
    /\ wpc' = "scan"
    /\ UNCHANGED <<fs, foreground, requests, request, code, volume, workerFrame>>

\* ... until the directory ends, or an entry cannot be read or is one too many.
EndScan ==
    /\ wpc = "read"
    /\ request.operation = "list_directory"
    /\ code' \in {"ok", "io_error"}
    /\ fs' = Nobody
    /\ wpc' = "publish"
    /\ UNCHANGED <<foreground, requests, request, volume, workerFrame>>

\* The chunk is read, or fopen, fseeko or fread fails.
ReadChunk ==
    /\ wpc = "read"
    /\ request.operation = "read_file_chunk"
    /\ code' \in {"ok", "io_error"}
    /\ fs' = Nobody
    /\ wpc' = "recheck"
    /\ UNCHANGED <<foreground, requests, request, volume, workerFrame>>

\* Faulty variant: the media are tested before the read only.
RecheckNothing ==
    /\ wpc = "recheck"
    /\ wpc' = "publish"
    /\ UNCHANGED <<fs, foreground, requests, request, code, volume, workerFrame>>

\* storage_read_file_chunk tests the media a second time after the read.
RecheckMedia ==
    /\ wpc = "recheck"
    /\ code' = IF Current(request.generation) THEN code ELSE "cancelled"
    /\ wpc' = "publish"
    /\ UNCHANGED <<fs, foreground, requests, request, volume, workerFrame>>

\* publish_result, then the request no longer counts.
PublishResult ==
    /\ wpc = "publish"
    /\ foreground' = foreground - 1
    /\ wpc' = "idle"
    /\ request' = NoRequest /\ code' = "ok" /\ volume' = 0
    /\ UNCHANGED <<fs, requests, workerFrame>>

WorkerTask ==
    \/ Dequeue \/ DropRequest \/ CheckMedia \/ OpenDirectory \/ LockVolume \/ LockFails
    \/ ScanCheck \/ ScanMore \/ EndScan \/ ReadChunk \/ RecheckMedia \/ PublishResult

-----------------------------------------------------------------------------
(* The book workers' gate.                                                 *)

gateFrame == <<cardVars, state, generation, unmountPending, foreground, requests,
               statusVars, monitorVars, workerVars, clientVars>>

Return(t) ==
    /\ gate' = [gate EXCEPT ![t] = "idle"]
    /\ wanted' = [wanted EXCEPT ![t] = 0]

\* A task asks for the generation its request was made under.
GateBegin(t) ==
    /\ gate[t] = "idle"
    /\ gate' = [gate EXCEPT ![t] = "check"]
    /\ \E g \in 0 .. generation : wanted' = [wanted EXCEPT ![t] = g]
    /\ UNCHANGED <<media, gateFrame>>

\* Refused when the media changed; otherwise it waits out foreground requests.
GateCheck(t) ==
    /\ gate[t] = "check"
    /\ Current(wanted[t]) => foreground = 0
    /\ IF Current(wanted[t])
       THEN gate' = [gate EXCEPT ![t] = "take"] /\ UNCHANGED wanted
       ELSE Return(t)
    /\ UNCHANGED <<media, gateFrame>>

GateTake(t) ==
    /\ gate[t] = "take"
    /\ media = Nobody
    /\ media' = t
    /\ gate' = [gate EXCEPT ![t] = "recheck"]
    /\ UNCHANGED <<wanted, gateFrame>>

\* xSemaphoreTake gave up after 20 ms.
GateTimeout(t) ==
    /\ gate[t] = "take"
    /\ media # Nobody
    /\ gate' = [gate EXCEPT ![t] = "check"]
    /\ UNCHANGED <<media, wanted, gateFrame>>

\* Faulty variant: the media are not tested again under the mutex.
GateRecheckCountOnly(t) ==
    /\ gate[t] = "recheck"
    /\ gate' = [gate EXCEPT ![t] = IF foreground = 0 THEN "holding" ELSE "check"]
    /\ media' = IF foreground = 0 THEN media ELSE Nobody
    /\ UNCHANGED <<wanted, gateFrame>>

\* Faulty variant: the mutex is not given back before the retry.
GateRecheckKeeping(t) ==
    /\ gate[t] = "recheck"
    /\ IF Current(wanted[t])
       THEN /\ gate' = [gate EXCEPT ![t] = IF foreground = 0 THEN "holding" ELSE "check"]
            /\ UNCHANGED <<media, wanted>>
       ELSE Return(t) /\ media' = Nobody
    /\ UNCHANGED gateFrame

\* With the mutex held both tests are repeated.
GateRecheck(t) ==
    /\ gate[t] = "recheck"
    /\ IF Current(wanted[t])
       THEN /\ gate' = [gate EXCEPT ![t] = IF foreground = 0 THEN "holding" ELSE "check"]
            /\ media' = IF foreground = 0 THEN media ELSE Nobody
            /\ UNCHANGED wanted
       ELSE Return(t) /\ media' = Nobody
    /\ UNCHANGED gateFrame

\* storage_book_access_end.
GateEnd(t) ==
    /\ gate[t] = "holding"
    /\ Return(t)
    /\ media' = Nobody
    /\ UNCHANGED gateFrame

Gate(t) ==
    \/ GateBegin(t) \/ GateCheck(t) \/ GateTake(t) \/ GateTimeout(t)
    \/ GateRecheck(t) \/ GateEnd(t)

-----------------------------------------------------------------------------
Next ==
    \/ MoveCard \/ TakeStatus \/ MonitorTask \/ Client \/ WorkerTask
    \/ \E t \in BookTasks : Gate(t)

Spec == Init /\ [][Next]_vars

\* Tasks are scheduled again and again; the detect pin can be read now and then,
\* so the monitor goes on with something other than a failed reading; a directory has an end, and a book
\* worker leaves the gate; a task waiting for media_access_mutex gets it in
\* turn.  Nothing makes the user or the app do anything.
FairSpec ==
    /\ Spec
    /\ WF_vars(MonitorTask /\ ~ SampleFails) /\ WF_vars(WorkerTask) /\ SF_vars(EndScan)
    /\ WF_vars(StampList) /\ WF_vars(SendRequest)
    /\ SF_vars(media = Nobody /\ (RetryUnmount \/ BeginChange))
    /\ \A t \in BookTasks :
          /\ WF_vars(GateCheck(t)) /\ WF_vars(GateRecheck(t)) /\ WF_vars(GateEnd(t))
          /\ WF_vars(GateTimeout(t)) /\ SF_vars(GateTake(t))

-----------------------------------------------------------------------------
(* Properties.                                                             *)

\* While a book worker is inside the gate the card cannot change under it: the
\* state stays ready, under its generation, and the volume mounted for that
\* generation stays mounted, so no index file of one card is written to another.
GateProtects ==
    \A t \in BookTasks :
        gate[t] = "holding" =>
            /\ Current(wanted[t])
            /\ mounted = wanted[t]
            /\ media = t

\* foreground_requests counts exactly the requests on their way to an answer.
\* One too many locks the book workers out forever; one too few wraps around.
ForegroundExact ==
    foreground = Len(requests) + (IF wpc = "idle" THEN 0 ELSE 1)
                               + (IF cpc = "send" THEN 1 ELSE 0)

\* Outside a change "ready" always has a volume behind it, the one mounted under
\* the current generation, whatever unmounts timed out before.
ReadyIsMounted == state = "ready" /\ media # Monitor => mounted = generation

\* A result that says ok and carries the generation of a mounted card holds that
\* card's data, although cards may be pulled and pushed between any two steps of
\* the scan or the read.
NoCrossCardResult ==
    wpc = "publish" /\ code = "ok" /\ request.generation \in volumes =>
        volume = request.generation

\* The dispatcher is never left with an old status: once the queue is empty the
\* last event it delivered is the service's state, even if events were discarded.
StatusCatchesUp ==
    statuses = <<>> /\ mpc \notin {"discard", "removed", "insert", "mounting"} =>
        \/ seen = [state |-> state, generation |-> generation]
        \/ generation = 0


\* When the foreground app stops asking, its requests drain and every book task
\* at the gate is let in or refused: foreground work delays it, never bars it.
GateOpens ==
    <>[](cpc = "idle") =>
        \A t \in BookTasks : gate[t] # "idle" ~> gate[t] \in {"idle", "holding"}

\* A card that is in the slot, and whose detect pin can be read, is offered to
\* the apps or reported as faulty in the end, whatever the bounces before.
CardNoticed ==
    <>[]present /\ <>[][~ SampleFails]_vars =>
        <>[](state \in {"ready", "error"} \/ (mpc = "change" /\ generation = MaxGeneration))
-----------------------------------------------------------------------------
(* The inductive invariant behind the safety properties.                   *)

\* Who holds a mutex is told by where the holder stands.
LockInv ==
    /\ media = Monitor <=> mpc \notin {"wait", "sample", "change"}
    /\ \A t \in BookTasks : media = t <=> gate[t] \in {"recheck", "holding"}
    /\ fs = Worker <=> wpc \in {"scan", "read"}

\* The monitor is on its way to s, an event that did not fit included.
Towards(s) == mpc = s \/ (mpc = "discard" /\ after = s)

\* Insertions and removals alternate, so a volume is left behind only by an
\* unmount that timed out, and "ready" stands for the volume of its generation
\* until the removal is announced.
MountInv ==
    /\ mpc \in {"insert", "mounting", "mounted", "failed"} \/ Towards("mount") =>
          stableKnown /\ stableInserted
    /\ mpc = "removed" \/ Towards("unmount") => stableKnown /\ ~ stableInserted
    /\ mpc = "change" => stableKnown
    /\ mpc = "mounting" \/ Towards("mount") => mounted = 0 /\ ~ unmountPending
    /\ mpc = "mounted" => mounted = generation /\ ~ unmountPending
    /\ mounted # 0 /\ ~ unmountPending =>
          IF stableInserted THEN stableKnown /\ mpc \notin {"change", "insert"}
          ELSE mpc \in {"change", "removed"} \/ Towards("unmount")
    /\ state = "ready" =>
          /\ stableKnown /\ ~ unmountPending
          /\ stableInserted <=> mpc \notin {"change", "removed"}
          /\ mpc \in {"wait", "sample", "change", "removed"} \/ Towards("release")
          /\ mpc # "removed" => mounted = generation

\* No card was mounted under generation g, nor will one be.
Dead(g) ==
    /\ g \notin volumes
    /\ g < generation \/ (g = generation /\ mpc \notin {"insert", "mounting"}
                                         /\ ~ Towards("mount"))

\* What the worker's tests so far say of the volume it reads.
ReadInv ==
    /\ volumes \subseteq 1 .. generation
    /\ mpc = "removed" => generation \notin volumes
    /\ wpc \in {"scan", "read"} => mounted # 0 /\ volume = mounted
    /\ wpc \in {"open", "scan"} => request.operation = "list_directory"
    /\ wpc = "recheck" => request.operation = "read_file_chunk"
    /\ LET g == request.generation
       IN  /\ request.operation = "list_directory" /\ wpc = "read" =>
                 volume = g \/ Dead(g)
           /\ request.operation = "read_file_chunk" =>
                 /\ wpc = "lock" =>
                       \/ Current(g) /\ mpc # "removed"
                       \/ Dead(g) \/ g < generation
                 /\ wpc = "read" \/ (wpc = "recheck" /\ code = "ok") =>
                       volume = g \/ Dead(g) \/ g < generation
           /\ wpc = "publish" /\ code = "ok" => volume = g \/ Dead(g)

\* The newest status is last in the queue, or has been delivered.
NewestInv ==
    mpc \notin {"discard", "removed", "insert", "mounting"} /\ generation # 0 =>
        [state |-> state, generation |-> generation] =
            IF statuses = <<>> THEN seen ELSE statuses[Len(statuses)]

StorageInv ==
    /\ TypeOK /\ LockInv /\ MountInv /\ ReadInv /\ NewestInv
    /\ GateProtects /\ ForegroundExact
=============================================================================
