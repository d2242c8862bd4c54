---------------------------- MODULE BookCatalog ----------------------------
(***************************************************************************)
(* The catalog of books: the worker of the catalog service (scan, covers,  *)
(* catalog file), the atomics through which the UI task steers it, and     *)
(* the Books app that shows what it publishes, opens Reader and waits for  *)
(* the worker to stand still first (src/services/book, src/app/books).     *)
(*                                                                         *)
(* The worker and the UI task interleave at every access to something they *)
(* share.  A handler of the UI task is one step that leaves behind, in     *)
(* calls, the shared accesses it still has to make, in order; no other     *)
(* handler runs before they are made.  The book worker is here only as the *)
(* other engine that builds EPUB caches.  All books fit on one page.       *)
(***************************************************************************)
EXTENDS Naturals, Sequences, FiniteSets

CONSTANTS
    Cards,            \* the cards a reader may insert
    Shelf,            \* Shelf[c]: the book files on card c
    Epubs,            \* those that are EPUB files; the others are TXT files
    Covered,          \* the EPUB files with a cover image
    Faults,           \* whether a call to the card may fail
    Choices,          \* the settings explored, besides the defaults
    MaxGeneration, MaxStatuses, MaxActivation, MaxSerial, MaxOpens, \* bounds
    None

Books == UNION {Shelf[c] : c \in Cards}

ASSUME ShelfAssumption ==
    /\ DOMAIN Shelf = Cards /\ None \notin Cards
    /\ Covered \subseteq Epubs /\ Epubs \subseteq Books
Formats == {"txt", "epub"}
Format(b) == IF b \in Epubs THEN "epub" ELSE "txt"
DefaultSettings == {"txt"}
Selected(c, settings) == {b \in Shelf[c] : Format(b) \in settings}

ASSUME CatalogBoundsAssumption ==
    /\ Faults \in BOOLEAN /\ Choices \subseteq SUBSET Formats
    /\ {MaxStatuses, MaxActivation, MaxSerial, MaxOpens} \subseteq Nat
    /\ MaxGeneration \in Nat \ {0}

VARIABLES
    disk,       \* for each card: its catalog file, and the EPUBs with a complete cache
    media,      \* the storage service's state, generation, card
    statuses,   \* its events, to be delivered to the app in the foreground
    svc,        \* desired_active, activation_serial, acknowledged_pause_serial, worker_busy
    desired,    \* desired_generation, settings_serial, desired_settings_bits
    published,  \* published_snapshot and published_items
    event,      \* event_queue, of length 1
    pc,         \* where the worker is
    worker,     \* its local variables
    app,        \* the app in the foreground and the one Back returns to
    books,      \* the Books app
    calls,      \* what the running handler of the UI task has still to do
    opens, building, \* book worker: its open commands, the EPUB cache it builds
    cards       \* history: the card of each generation

uiVars == <<app, books, opens>>
shared == <<svc, desired>>
vars == <<disk, media, statuses, svc, desired, published, event, pc, worker,
          app, books, calls, opens, building, cards>>

NoItems == [b \in {} |-> "none"]
Idling == {"top", "pausing"}
Working == {"generation", "activation", "serial", "activated", "load", "check", "read",
            "adopt", "adopted", "loaded", "settings", "save", "replacing", "filtered",
            "scan", "populate", "replace", "enrich", "build",
            "enriched", "finish", "finished"}

TypeOK ==
    /\ \A c \in Cards : disk[c].cached \subseteq Epubs
    /\ media.state \in {"no_card", "mounting", "ready", "error"}
    /\ media.generation \in 0 .. MaxGeneration /\ media.card \in Cards \cup {None}
    /\ svc.active \in BOOLEAN /\ svc.busy \in BOOLEAN
    /\ svc.activation \in Nat /\ svc.acknowledged \in Nat
    /\ desired.bits \subseteq Formats /\ desired.serial \in 0 .. MaxSerial
    /\ DOMAIN published.items \subseteq Books
    /\ published.settings \subseteq Formats
    /\ pc \in Idling \cup Working
    /\ worker.settings \subseteq Formats
    /\ worker.loaded \in BOOLEAN /\ worker.scan \in BOOLEAN /\ worker.enrich \in BOOLEAN
    /\ app.foreground \in {"books", "files", "reader"} /\ app.back \in {"books", "files"}
    /\ DOMAIN books.shown \subseteq Books
    /\ building = None \/ building.book \in Epubs

\* The catalog an earlier run of the program left on a card, if any.
Catalogs(c) ==
    {None} \cup {[settings |-> s, items |-> [b \in Selected(c, s) |->
                   IF b \in Epubs THEN "pending" ELSE "none"]] : s \in Choices}

Init ==
    /\ disk \in {[c \in Cards |-> [catalog |-> f[c], cached |-> {}]] :
                 f \in [Cards -> UNION {Catalogs(c) : c \in Cards}]}
    /\ \A c \in Cards : disk[c].catalog \in Catalogs(c)
    /\ \E c \in Cards \cup {None} :
          /\ media = [state |-> IF c = None THEN "no_card" ELSE "ready", generation |-> 1,
                      card |-> c, changing |-> FALSE]
          /\ cards = <<c>>
    /\ statuses = <<>>
    /\ svc = [active |-> FALSE, activation |-> 0, acknowledged |-> 0, busy |-> FALSE]
    /\ desired = [generation |-> 0, serial |-> 0, bits |-> DefaultSettings]
    /\ published = [generation |-> 0, revision |-> 0, state |-> "unavailable",
                    count |-> 0, settings |-> DefaultSettings, items |-> NoItems]
    /\ event = None
    /\ pc = "top"
    /\ worker = [generation |-> 0, activation |-> 0, serial |-> 0, current |-> None,
                 seenActivation |-> 0, seenSerial |-> 0, settings |-> DefaultSettings,
                 loaded |-> FALSE, scan |-> FALSE, enrich |-> FALSE, found |-> {},
                 item |-> None, cover |-> "none", after |-> "top"]
    /\ app = [foreground |-> "files", back |-> "files"]
    /\ books = [generation |-> 0, revision |-> 0, count |-> 0, shown |-> NoItems,
                settings |-> DefaultSettings, dialog |-> FALSE, dirty |-> FALSE,
                launch |-> None]
    /\ calls = <<>> /\ opens = <<>> /\ building = None

\* media_valid
MediaValid(g) == media.state = "ready" /\ media.generation = g

\* storage_book_access_begin: waits while the card is changed, then succeeds or fails.
GateOpen == ~media.changing
\* Faulty variant: the generation is not compared.
ReachableAnyMedia(g) == GateOpen /\ media.state = "ready"
Reachable(g) == GateOpen /\ MediaValid(g)

-----------------------------------------------------------------------------
(* The storage service, as far as its state and events go.                 *)

\* The worker's remove-and-rename holds the media mutex.
Exchangeable == /\ media.generation < MaxGeneration /\ Len(statuses) < MaxStatuses
                /\ pc # "replacing"

InsertCard(c) ==
    /\ media.state = "no_card" /\ ~media.changing /\ Exchangeable
    /\ media' = [state |-> "mounting", generation |-> media.generation + 1, card |-> c,
                 changing |-> TRUE]
    /\ statuses' = Append(statuses, [state |-> "mounting", generation |-> media.generation + 1])
    /\ cards' = Append(cards, c)
    /\ UNCHANGED <<disk, shared, published, event, pc, worker, uiVars, calls, building>>

\* The generation changes before the state does.
RemoveCard ==
    /\ media.state \in {"ready", "error"} /\ ~media.changing /\ Exchangeable
    /\ media' = [media EXCEPT !.generation = @ + 1, !.card = None, !.changing = TRUE]
    /\ cards' = Append(cards, None)
    /\ UNCHANGED <<disk, statuses, shared, published, event, pc, worker, uiVars, calls,
                   building>>

PublishState ==
    /\ media.changing
    /\ \E s \in IF media.card = None THEN {"no_card"}
                ELSE {"ready"} \cup (IF Faults THEN {"error"} ELSE {}) :
          /\ media' = [media EXCEPT !.state = s, !.changing = FALSE]
          /\ statuses' = Append(statuses, [state |-> s, generation |-> media.generation])
    /\ UNCHANGED <<disk, shared, published, event, pc, worker, uiVars, calls, building,
                   cards>>

-----------------------------------------------------------------------------
(* The worker of the catalog service.  What it alone writes (published and *)
(* its locals) it reads where it needs it.                                 *)

ContextValid ==
    /\ svc.active /\ desired.generation = worker.generation
    /\ svc.activation = worker.activation /\ desired.serial = worker.serial
    /\ MediaValid(worker.generation)

\* Faulty variant: the queue is not overwritten when it is full.
AnnounceToEmptyQueue(p) ==
    /\ published' = p
    /\ event' = IF event = None THEN [generation |-> p.generation, revision |-> p.revision]
                ELSE event

\* The snapshot, changed, and the event that announces it.
Announce(p) ==
    /\ published' = p
    /\ event' = [generation |-> p.generation, revision |-> p.revision]

StateUpdate(p, s) ==
    LET q == [p EXCEPT !.generation = worker.generation, !.state = s,
                       !.count = Cardinality(DOMAIN p.items)]
    IN IF q = p THEN p ELSE [q EXCEPT !.revision = @ + 1]

\* update_state, on the snapshot p.
UpdateState(p, s) ==
    \/ StateUpdate(p, s) # p /\ Announce(StateUpdate(p, s))
    \/ StateUpdate(p, s) = p /\ published' = p /\ event' = event

Go(next) == pc' = next
SetBusy(b) == svc' = [svc EXCEPT !.busy = b]
Elsewhere == UNCHANGED <<media, statuses, uiVars, calls, building, cards>>
Silent == UNCHANGED <<published, event>>

\* Top of the loop: work only while the catalog is wanted.
SeeActive ==
    /\ pc = "top"
    /\ Go(IF svc.active THEN "generation" ELSE "pausing")
    /\ UNCHANGED <<disk, shared, worker>> /\ Silent /\ Elsewhere

Acknowledge ==
    /\ pc = "pausing" /\ Go("top")
    /\ svc' = [svc EXCEPT !.busy = FALSE, !.acknowledged = svc.activation]
    /\ UNCHANGED <<disk, desired, worker>> /\ Silent /\ Elsewhere

ReadContext ==
    /\ \/ /\ pc = "generation" /\ Go("activation")
          /\ worker' = [worker EXCEPT !.generation = desired.generation]
       \/ /\ pc = "activation" /\ Go("serial")
          /\ worker' = [worker EXCEPT !.activation = svc.activation]
       \/ /\ pc = "serial" /\ Go("activated")
          /\ worker' = [worker EXCEPT !.serial = desired.serial]
    /\ UNCHANGED <<disk, shared>> /\ Silent /\ Elsewhere

\* An activation that finds the media there at last loads the catalog again.
Reload == /\ worker.activation # worker.seenActivation
          /\ worker.generation = worker.current /\ published.state = "unavailable"
          /\ MediaValid(worker.generation)

\* Faulty variant: the items of the last card stay.
EmptyItemsForgotten(p) == p
EmptyItems(p) == [p EXCEPT !.items = NoItems]

AdoptContext ==
    /\ pc = "activated"
    /\ \/ /\ worker.generation # worker.current
          /\ worker' = [worker EXCEPT !.seenActivation = worker.activation,
                !.current = worker.generation, !.loaded = FALSE, !.scan = FALSE,
                !.enrich = FALSE]
          /\ published' = EmptyItems(published)
       \/ /\ worker.generation = worker.current
          /\ worker' = [worker EXCEPT !.seenActivation = worker.activation,
                                      !.loaded = worker.loaded /\ ~Reload]
          /\ UNCHANGED published
    /\ Go(IF worker'.loaded THEN "settings" ELSE "load")
    /\ UNCHANGED <<disk, shared, event>> /\ Elsewhere

StartLoading ==
    /\ pc = "load" /\ Go("check")
    /\ SetBusy(TRUE) /\ UpdateState(published, "loading_cache")
    /\ UNCHANGED <<disk, desired, worker>> /\ Elsewhere

CheckMedia ==
    /\ pc = "check"
    /\ worker' = [worker EXCEPT !.settings = DefaultSettings]
    /\ \/ /\ MediaValid(worker.generation)
          /\ Go("read") /\ published' = EmptyItems(published)
       \/ /\ ~MediaValid(worker.generation)
          /\ Go("adopt") /\ UNCHANGED published
    /\ UNCHANGED <<disk, shared, event>> /\ Elsewhere

\* load_catalog: a file that is missing, damaged or unreadable leaves the defaults.
LoadCatalog ==
    /\ pc = "read" /\ GateOpen /\ Go("adopt")
    /\ \/ /\ MediaValid(worker.generation) /\ disk[media.card].catalog # None
          /\ worker' = [worker EXCEPT !.settings = disk[media.card].catalog.settings]
          /\ published' = [published EXCEPT !.items = disk[media.card].catalog.items]
       \/ /\ MediaValid(worker.generation) => Faults \/ disk[media.card].catalog = None
          /\ UNCHANGED <<worker, published>>
    /\ UNCHANGED <<disk, shared, event>> /\ Elsewhere

AdoptSettings ==
    /\ pc = "adopt" /\ Go("adopted")
    /\ desired' = [desired EXCEPT !.bits = worker.settings]
    /\ worker' = [worker EXCEPT !.seenSerial = worker.serial]
    /\ UNCHANGED <<disk, svc>> /\ Silent /\ Elsewhere

PublishLoaded ==
    /\ pc = "adopted" /\ Go("loaded")
    /\ UpdateState([published EXCEPT !.settings = worker.settings],
                   IF MediaValid(worker.generation) THEN "ready" ELSE "unavailable")
    /\ UNCHANGED <<disk, shared, worker>> /\ Elsewhere

Loaded ==
    /\ pc = "loaded" /\ Go("settings")
    /\ worker' = [worker EXCEPT !.loaded = TRUE,
          !.scan = MediaValid(worker.generation) /\ worker.settings # {}]
    /\ UNCHANGED <<disk, shared>> /\ Silent /\ Elsewhere

\* Faulty variant: nothing is dropped.
FilterNothing(items, settings) == items
Filter(items, settings) ==
    [b \in {x \in DOMAIN items : Format(x) \in settings} |-> items[b]]

Filtered(p, settings) ==
    LET items == Filter(p.items, settings)
    IN [p EXCEPT !.items = items, !.count = Cardinality(DOMAIN items),
                 !.settings = settings, !.revision = @ + 1]

\* The settings have changed: drop what is no longer selected, save, scan again.
ChangeSettings ==
    /\ pc = "settings" /\ worker.serial # worker.seenSerial /\ Go("save")
    /\ worker' = [worker EXCEPT !.settings = desired.bits, !.seenSerial = worker.serial,
                    !.scan = desired.bits # {}, !.enrich = FALSE, !.after = "filtered"]
    /\ Announce(Filtered(published, desired.bits))
    /\ UNCHANGED <<disk, shared>> /\ Elsewhere

SettingsSaved ==
    /\ pc = "filtered" /\ Go("top")
    /\ \/ worker.scan /\ Silent
       \/ ~worker.scan /\ UpdateState(published, "ready")
    /\ UNCHANGED <<disk, shared, worker>> /\ Elsewhere

\* save_catalog: the written temporary replaces the file, which is removed first.
RemoveCatalog ==
    /\ pc = "save" /\ Reachable(worker.generation) /\ Go("replacing")
    /\ disk' = [disk EXCEPT ![media.card].catalog = None]
    /\ UNCHANGED <<shared, worker>> /\ Silent /\ Elsewhere

RenameCatalog ==
    /\ pc = "replacing" /\ Go(worker.after)
    /\ disk' = [disk EXCEPT ![media.card].catalog =
                  [settings |-> worker.settings, items |-> published.items]]
    /\ UNCHANGED <<shared, worker>> /\ Silent /\ Elsewhere

SaveFails ==
    /\ \/ pc = "save" /\ GateOpen /\ ~MediaValid(worker.generation)
       \/ pc \in {"save", "replacing"} /\ Faults
    /\ Go(worker.after)
    /\ UNCHANGED <<disk, shared, worker>> /\ Silent /\ Elsewhere

SameSettings == pc = "settings" /\ worker.serial = worker.seenSerial

NoMedia ==
    /\ SameSettings /\ ~MediaValid(worker.generation) /\ Go("top")
    /\ SetBusy(FALSE) /\ UpdateState(published, "unavailable")
    /\ UNCHANGED <<disk, desired, worker>> /\ Elsewhere

StartScan ==
    /\ SameSettings /\ MediaValid(worker.generation) /\ worker.scan /\ Go("scan")
    /\ SetBusy(TRUE) /\ UpdateState(published, "scanning")
    /\ UNCHANGED <<disk, desired, worker>> /\ Elsewhere

NothingToDo ==
    /\ SameSettings /\ MediaValid(worker.generation) /\ ~worker.scan
    /\ \/ worker.enrich /\ Go("enrich") /\ UNCHANGED svc
       \/ ~worker.enrich /\ Go("top") /\ SetBusy(FALSE)
    /\ UNCHANGED <<disk, desired, worker>> /\ Silent /\ Elsewhere

AbandonScan ==
    /\ pc \in {"scan", "populate"} /\ ~ContextValid /\ Go("top")
    /\ UNCHANGED <<disk, shared, worker>> /\ Silent /\ Elsewhere

\* A directory that cannot be read, or one too many.
ScanFails ==
    /\ pc = "scan" /\ Faults /\ ContextValid /\ Go("top")
    /\ worker' = [worker EXCEPT !.scan = FALSE]
    /\ UpdateState(published, "error")
    /\ UNCHANGED <<disk, shared>> /\ Elsewhere

ListDirectories ==
    /\ pc = "scan" /\ ContextValid /\ Reachable(worker.generation) /\ Go("populate")
    /\ worker' = [worker EXCEPT !.found = Selected(media.card, worker.settings)]
    /\ UNCHANGED <<disk, shared>> /\ Silent /\ Elsewhere

\* An item that cannot be read is left out.
PopulateItems ==
    /\ pc = "populate" /\ GateOpen /\ Go("replace")
    /\ \E readable \in SUBSET worker.found :
          /\ readable # worker.found => Faults \/ ~MediaValid(worker.generation)
          /\ worker' = [worker EXCEPT !.found = readable]
    /\ UNCHANGED <<disk, shared>> /\ Silent /\ Elsewhere

ReplaceCatalog ==
    /\ pc = "replace" /\ Go("save")
    /\ worker' = [worker EXCEPT !.after = "enrich", !.scan = FALSE, !.enrich = TRUE]
    /\ Announce([published EXCEPT !.generation = worker.generation,
           !.items = [b \in worker.found |-> IF b \in Epubs THEN "pending" ELSE "none"],
           !.count = Cardinality(worker.found), !.settings = worker.settings,
           !.state = "enriching", !.revision = @ + 1])
    /\ UNCHANGED <<disk, shared>> /\ Elsewhere

Pending == {b \in DOMAIN published.items : published.items[b] = "pending"}

\* epub_cache_engine::open takes a complete cache as it is, or starts to build one.
OpenEpub ==
    /\ pc = "enrich" /\ GateOpen /\ SetBusy(TRUE)
    /\ \E b \in Pending :
          \/ /\ MediaValid(worker.generation) /\ b \in disk[media.card].cached
             /\ worker' = [worker EXCEPT !.item = b, !.cover = "ready"] /\ Go("enriched")
          \/ /\ MediaValid(worker.generation) /\ b \notin disk[media.card].cached
             /\ worker' = [worker EXCEPT !.item = b] /\ Go("build")
          \/ /\ worker' = [worker EXCEPT !.item = b, !.cover = "unavailable"]
             /\ (Faults \/ ~MediaValid(worker.generation)) /\ Go("enriched")
    /\ UNCHANGED <<disk, desired>> /\ Silent /\ Elsewhere

\* Faulty variant: ready before the cache is complete.
BuildEpubUnfinished ==
    /\ pc = "build" /\ ContextValid /\ GateOpen /\ Go("enriched")
    /\ worker' = [worker EXCEPT !.cover = "ready"]
    /\ UNCHANGED <<disk, shared>> /\ Silent /\ Elsewhere

BuildEpub ==
    /\ pc = "build" /\ ContextValid /\ GateOpen /\ Go("enriched")
    /\ \/ /\ MediaValid(worker.generation)
          /\ disk' = [disk EXCEPT ![media.card].cached = @ \cup {worker.item}]
          /\ worker' = [worker EXCEPT !.cover = "ready"]
       \/ /\ Faults
          /\ worker' = [worker EXCEPT !.cover = "unavailable"] /\ UNCHANGED disk
    /\ UNCHANGED shared /\ Silent /\ Elsewhere

AbandonEpub ==
    /\ pc \in {"build", "enriched"} /\ ~ContextValid /\ Go("finish")
    /\ worker' = [worker EXCEPT !.item = None]
    /\ UNCHANGED <<disk, shared>> /\ Silent /\ Elsewhere

\* The cover state is published only while the worker's context is the wanted one.
PublishCover ==
    /\ pc = "enriched" /\ ContextValid /\ Go("enrich")
    /\ worker' = [worker EXCEPT !.item = None]
    /\ Announce([published EXCEPT !.revision = @ + 1, !.items[worker.item] =
           IF worker.item \in Covered THEN worker.cover ELSE "unavailable"])
    /\ UNCHANGED <<disk, shared>> /\ Elsewhere

SaveCovers ==
    /\ pc = "finish" \/ (pc = "enrich" /\ Pending = {})
    /\ \/ /\ ContextValid /\ Go("save")
          /\ worker' = [worker EXCEPT !.after = "finished"] /\ UNCHANGED svc
       \/ /\ ~ContextValid /\ Go("top")
          /\ SetBusy(FALSE) /\ UNCHANGED worker
    /\ UNCHANGED <<disk, desired>> /\ Silent /\ Elsewhere

FinishCatalog ==
    /\ pc = "finished" /\ Go("top")
    /\ SetBusy(FALSE) /\ UpdateState(published, "ready")
    /\ worker' = [worker EXCEPT !.enrich = FALSE]
    /\ UNCHANGED <<disk, desired>> /\ Elsewhere

WorkerStep ==
    \/ SeeActive \/ Acknowledge \/ ReadContext \/ AdoptContext
    \/ StartLoading \/ CheckMedia \/ LoadCatalog \/ AdoptSettings \/ PublishLoaded \/ Loaded
    \/ ChangeSettings \/ SettingsSaved
    \/ RemoveCatalog \/ RenameCatalog \/ SaveFails
    \/ NoMedia \/ StartScan \/ NothingToDo
    \/ AbandonScan \/ ScanFails \/ ListDirectories \/ PopulateItems \/ ReplaceCatalog
    \/ OpenEpub \/ BuildEpub \/ AbandonEpub \/ PublishCover \/ SaveCovers \/ FinishCatalog

-----------------------------------------------------------------------------
(* The UI task.  What a handler calls of the catalog service, as the       *)
(* accesses each call makes.                                               *)

Activate(g) == << <<"generation", g>>, <<"activation">>, <<"activate">> >>
\* Faulty variant: a pause is not numbered.
PauseUnnumbered == << <<"deactivate">> >>
Pause == << <<"deactivate">>, <<"activation">> >>
UpdateSettings(s) == << <<"bits", s>>, <<"serial">> >>
\* refresh_catalog: the snapshot, then the items of the page.
Refresh == << <<"snapshot">>, <<"page">> >>

Elsewhere2 == UNCHANGED <<disk, media, published, pc, worker, building, cards>>

TakeSnapshot ==
    books' = IF published.generation # books.generation
             THEN [books EXCEPT !.count = 0, !.shown = NoItems]
             ELSE [books EXCEPT !.revision = published.revision, !.count = published.count,
                    !.settings = IF books.dialog THEN @ ELSE published.settings]

\* load_page, entered only when the snapshot is of this generation.
CopyPage ==
    books' = IF published.generation # books.generation THEN [books EXCEPT !.shown = NoItems]
             ELSE [books EXCEPT !.shown = IF books.count = 0 THEN NoItems ELSE published.items]

MakeCall ==
    /\ calls # <<>>
    /\ calls' = Tail(calls)
    /\ LET op == Head(calls)
       IN \/ /\ op[1] = "generation"
             /\ desired' = [desired EXCEPT !.generation = op[2]] /\ UNCHANGED <<svc, books>>
          \/ /\ op[1] = "activation"
             /\ svc' = [svc EXCEPT !.activation = @ + 1] /\ UNCHANGED <<desired, books>>
          \/ /\ op[1] \in {"activate", "deactivate"}
             /\ svc' = [svc EXCEPT !.active = op[1] = "activate"] /\ UNCHANGED <<desired, books>>
          \/ /\ op[1] = "bits"
             /\ desired' = [desired EXCEPT !.bits = op[2]] /\ UNCHANGED <<svc, books>>
          \/ /\ op[1] = "serial"
             /\ desired' = [desired EXCEPT !.serial = @ + 1] /\ UNCHANGED <<svc, books>>
          \/ /\ op[1] = "snapshot" /\ TakeSnapshot /\ UNCHANGED shared
          \/ /\ op[1] = "page" /\ CopyPage /\ UNCHANGED shared
    /\ UNCHANGED <<statuses, event, app, opens>> /\ Elsewhere2

InBooks == calls = <<>> /\ app.foreground = "books"
\* What a user may still start.
Explored == svc.activation < MaxActivation

\* on_open, from the launcher or back from Reader.
OpenBooks(back) ==
    /\ app' = [foreground |-> "books", back |-> back]
    /\ books' = [books EXCEPT !.generation = media.generation, !.dialog = FALSE]
    /\ calls' = Activate(media.generation) \o Refresh

LaunchBooks ==
    /\ calls = <<>> /\ app.foreground = "files" /\ Explored
    /\ OpenBooks("files")
    /\ UNCHANGED <<statuses, shared, event, opens>> /\ Elsewhere2

\* on_close; Back works while a launch is pending, too.
LeaveBooks ==
    /\ InBooks /\ Explored /\ ~books.dialog
    /\ app' = [app EXCEPT !.foreground = "files"]
    /\ books' = [books EXCEPT !.dialog = FALSE, !.launch = None]
    /\ calls' = Pause
    /\ UNCHANGED <<statuses, shared, event, opens>> /\ Elsewhere2

\* handle_storage_status; an app other than Books drops the event.
HandleStatus ==
    /\ calls = <<>> /\ statuses # <<>>
    /\ statuses' = Tail(statuses)
    /\ LET status == Head(statuses)
           known == status.generation = books.generation
       IN \/ /\ app.foreground # "books" /\ UNCHANGED <<books, calls>>
          \/ /\ app.foreground = "books" /\ (known => status.state = "ready")
             /\ books' = [books EXCEPT !.generation = status.generation]
             /\ calls' = Activate(status.generation) \o Refresh
          \/ /\ app.foreground = "books" /\ known /\ status.state # "ready"
             /\ books' = [books EXCEPT !.count = 0, !.shown = NoItems]
             /\ UNCHANGED calls
    /\ UNCHANGED <<shared, event, app, opens>> /\ Elsewhere2

\* on_running: the catalog has a revision that is not the one shown.
News == event.generation = books.generation /\ event.revision # books.revision

TakeEvent ==
    /\ InBooks /\ event # None
    /\ event' = None
    /\ books' = [books EXCEPT !.dirty = @ \/ (News /\ books.dialog)]
    /\ calls' = IF News /\ ~books.dialog THEN Refresh ELSE <<>>
    /\ UNCHANGED <<statuses, shared, app, opens>> /\ Elsewhere2

OpenDialog ==
    /\ InBooks /\ ~books.dialog /\ desired.serial < MaxSerial
    /\ books' = [books EXCEPT !.dialog = TRUE]
    /\ UNCHANGED <<statuses, shared, event, app, calls, opens>> /\ Elsewhere2

DirtyRefresh == IF books.dirty THEN Refresh ELSE <<>>

\* The dialog's toggles are its own; a confirmation carries any settings.
ConfirmSettings(s) ==
    /\ InBooks /\ books.dialog
    /\ books' = [books EXCEPT !.dialog = FALSE, !.settings = s, !.dirty = FALSE]
    /\ calls' = (IF desired.generation = books.generation THEN UpdateSettings(s) ELSE <<>>)
                \o DirtyRefresh
    /\ UNCHANGED <<statuses, shared, event, app, opens>> /\ Elsewhere2

CancelSettings ==
    /\ InBooks /\ books.dialog
    /\ books' = [books EXCEPT !.dialog = FALSE, !.dirty = FALSE]
    /\ calls' = DirtyRefresh
    /\ UNCHANGED <<statuses, shared, event, app, opens>> /\ Elsewhere2

\* request_reader
SelectBook(b) ==
    /\ InBooks /\ ~books.dialog /\ books.launch = None /\ Explored
    /\ b \in DOMAIN books.shown
    /\ books' = [books EXCEPT !.launch = b]
    /\ calls' = Pause
    /\ UNCHANGED <<statuses, shared, event, app, opens>> /\ Elsewhere2

\* book_catalog_service_idle
Idle == ~svc.active /\ ~svc.busy /\ svc.acknowledged = svc.activation

\* Reader's open command reaches the book worker's queue if the media are there.
Submitted(b, g) ==
    IF MediaValid(g) /\ Len(opens) < MaxOpens
    THEN Append(opens, [book |-> b, generation |-> g]) ELSE opens

\* try_launch_reader, on_close of Books, on_open of Reader.
LaunchReader ==
    /\ InBooks /\ books.launch # None /\ Idle
    /\ app' = [foreground |-> "reader", back |-> "books"]
    /\ books' = [books EXCEPT !.launch = None]
    /\ opens' = Submitted(books.launch, books.generation)
    /\ calls' = Pause
    /\ UNCHANGED <<statuses, shared, event>> /\ Elsewhere2

\* FileApp starts Reader without asking the catalog.
LaunchFromFiles(b) ==
    /\ calls = <<>> /\ app.foreground = "files"
    /\ Reachable(media.generation) /\ b \in Shelf[media.card]
    /\ Len(opens) < MaxOpens
    /\ app' = [foreground |-> "reader", back |-> "files"]
    /\ opens' = Submitted(b, media.generation)
    /\ UNCHANGED <<statuses, shared, event, books, calls>> /\ Elsewhere2

\* Leaving Reader does not stop the build of its cache.
LeaveReader ==
    /\ calls = <<>> /\ app.foreground = "reader"
    /\ \/ app.back = "books" /\ Explored /\ OpenBooks("files")
       \/ /\ app.back = "files" /\ app' = [app EXCEPT !.foreground = "files"]
          /\ UNCHANGED <<books, calls>>
    /\ UNCHANGED <<statuses, shared, event, opens>> /\ Elsewhere2

UITask ==
    \/ LaunchBooks \/ LeaveBooks \/ OpenDialog \/ CancelSettings \/ LeaveReader
    \/ \E s \in Choices : ConfirmSettings(s)
    \/ \E b \in Books : SelectBook(b) \/ LaunchFromFiles(b)

UILoop == MakeCall \/ HandleStatus \/ TakeEvent \/ LaunchReader

-----------------------------------------------------------------------------
(* The book worker, as far as EPUB caches go.                              *)

BookElsewhere == UNCHANGED <<media, statuses, shared, published, event, pc, worker, app, books,
                             calls, cards>>

\* open_book drops the build of another book.
TakeOpen ==
    /\ opens # <<>> /\ GateOpen
    /\ opens' = Tail(opens)
    /\ LET open == Head(opens)
       IN \/ /\ MediaValid(open.generation)
             /\ building' = IF open.book \in Epubs \ disk[media.card].cached
                            THEN open ELSE None
          \/ ~MediaValid(open.generation) /\ UNCHANGED building
    /\ UNCHANGED disk /\ BookElsewhere

EndBuild ==
    /\ building # None /\ GateOpen
    /\ building' = None
    /\ \/ /\ MediaValid(building.generation)
          /\ disk' = [disk EXCEPT ![media.card].cached = @ \cup {building.book}]
       \/ /\ Faults \/ ~MediaValid(building.generation)
          /\ UNCHANGED disk
    /\ UNCHANGED opens /\ BookElsewhere

BookWorker == TakeOpen \/ EndBuild

-----------------------------------------------------------------------------
Next ==
    \/ WorkerStep \/ UITask \/ UILoop \/ BookWorker
    \/ \E c \in Cards : InsertCard(c)
    \/ RemoveCard \/ PublishState

Spec == Init /\ [][Next]_vars

\* The tasks run; the user and whoever changes the card need not.
FairSpec == /\ Spec
            /\ WF_vars(WorkerStep) /\ WF_vars(BookWorker) /\ WF_vars(PublishState)
            /\ WF_vars(MakeCall) /\ SF_vars(HandleStatus) /\ SF_vars(TakeEvent)
            /\ SF_vars(LaunchReader)

-----------------------------------------------------------------------------
(* Properties.                                                             *)

\* What book_catalog_service_idle promises Books before it opens Reader: the
\* worker is not between its check of desired_active and the next, so it
\* touches neither the catalog file nor an EPUB cache.
QuietWhenIdle == calls = <<>> /\ Idle => pc \in Idling

\* A catalog file lists books of its own card only, none that its settings
\* leave out, and claims a cover only where the card has the cache it is in.
SavedCatalogSound ==
    \A c \in Cards : disk[c].catalog # None =>
       LET saved == disk[c].catalog
       IN /\ DOMAIN saved.items \subseteq Selected(c, saved.settings)
          /\ {b \in DOMAIN saved.items : saved.items[b] = "ready"} \subseteq disk[c].cached

\* Books shows, under a media generation, only books of that generation's card.
ShownOfCard ==
    (calls = <<>> /\ books.shown # NoItems) =>
       /\ books.generation > 0 /\ cards[books.generation] # None
       /\ DOMAIN books.shown \subseteq Shelf[cards[books.generation]]

\* The worker has nothing left to do for what is wanted of it.
Settled ==
    /\ pc = "top" /\ ~worker.scan /\ ~worker.enrich /\ worker.loaded
    /\ worker.current = desired.generation /\ worker.seenSerial = desired.serial
    /\ MediaValid(worker.current) /\ published.state = "ready"

\* When the worker has nothing left to do, and no call to the card failed,
\* the catalog lists exactly the books its settings select.
CatalogComplete ==
    Settled => /\ DOMAIN published.items = Selected(media.card, worker.settings)
               /\ published.count = Cardinality(DOMAIN published.items)

\* As long as Books stays open, what it shows becomes what is published, although
\* the event queue keeps only the last revision.
Watching == app.foreground = "books" /\ ~books.dialog
BooksCatchesUp ==
    <>[]Watching => <>[](/\ books.generation = published.generation
                         /\ books.revision = published.revision
                         /\ books.shown = published.items)

\* Docs/epub_reader.md: two cache engines do not write the same book directory
\* concurrently.
OneCacheWriter ==
    ~(/\ pc = "build" /\ building # None /\ building.book = worker.item
      /\ ContextValid /\ MediaValid(building.generation))

=============================================================================
