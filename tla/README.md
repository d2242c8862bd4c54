# SeeSeeBook: a verification development

SeeSeeBook is the firmware of an e-paper reader (ESP32, FreeRTOS). One *main
loop* runs the apps; several *tasks* own the slow or shared things: the SD card,
the book files, the panel, the keys, the clock, the battery. They talk through
queues of fixed length, a few atomics and mutexes, and an internal I2C bus. Almost
everything that is hard to test in it is the order in which those tasks run, and
what a card that is pulled out, a call that fails or a loss of power leaves behind.

The TLA+ modules here follow the data from the card's detect pin to the files on
the card, from the files to the page that is laid out, from the page to the glass,
and from the finger and the keys back to the apps.
All source paths below are under `src/`.

- [1. Inventory](#1-inventory)
- [2. Modules, and how they correspond to the code](#2-modules-and-how-they-correspond-to-the-code)
- [3. Runs: what is checked](#3-runs-what-is-checked)
- [4. Bounds](#4-bounds)
- [5. Fairness](#5-fairness)
- [6. Proofs](#6-proofs)
- [7. Where code and documentation differ](#7-where-code-and-documentation-differ)
- [8. What the models leave out](#8-what-the-models-leave-out)
- [9. Plan](#9-plan)

To repeat the checks: `tlc -config MCResultPool.cfg MCResultPool.tla` (and
likewise for every `.cfg`; its module is the one whose name it begins with), and
`tlapm` on every module whose name ends in `Proofs`.

## 1. Inventory

### The tasks and what they share

| task | code | talks to |
|---|---|---|
| main loop | `system/system_runtime.cpp`, `system/system_event_dispatcher.cpp`, `app/` | takes events from every service, runs the app in the foreground, submits frames |
| storage monitor | `services/storage/storage_service.cpp:334` | detect pin, mount and unmount, status queue |
| storage worker | `storage_service.cpp:272` | request queue, result pool, result queue |
| book worker | `services/book/book_service.cpp:265` | command queue, event queue, book access gate |
| catalog worker | `services/book/book_catalog_service.cpp:482` | atomics written by Books, event queue of length 1, book access gate |
| renderer | `ui/paper_mono/ui_renderer.cpp:913` | frame queue, frame pool, panel |
| input, buttons | `services/input/` | navigation and touch queues |
| RTC, battery, tick | `services/rtc`, `services/battery`, `services/system_tick` | their queues and snapshots |

### Components

For each: its state, its operations, what is hard about it, and what makes it
correct. "Modelled in" names the module, if there is one.

**Storage result pool** (`storage_service.cpp`, used by the dispatcher and
FileApp). *State*: four slots with a generation, a packed reference count and
clean-up flag, a `filling` flag and a listing or chunk; a queue of handles.
*Operations*: acquire, fill, publish, resolve, retain, release. *Hard*: acquire
holds a mutex that retain and release never take; a slot is reused while old
handles may be about; generations wrap. *Correct*: counts are exact, a handle
in circulation resolves to its own result, publishing always has room, no slot
leaks. Modelled in `ResultPool`, specified by `ResultStore`.

**Storage service** (monitor, worker, gate; with `m5_hal/.../paper_mono_storage.cpp`).
*State*: `current_state`, `media_generation`, `mounted_card`, `unmount_pending`,
`foreground_requests`, debounce counters, request and status queues, two
mutexes. *Operations*: sample the pin, handle a card change (announce, unmount,
mount), retry a timed-out unmount, list a directory, read a chunk, begin and end
book access. *Hard*: the generation moves before the state is published; tests
of the media are made before the lock that pins the volume is held; three kinds
of task meet at `media_access_mutex`. *Correct*: nothing of one card is
delivered or written under another's generation, a book task inside the gate
keeps its card, the counter that bars book tasks returns to zero, the newest
status is never lost. Modelled in `StorageService`.

**Book index engine and TXT positions** (`services/book/book_index_engine.cpp`).
*State*: phase, offsets buffered, header, position and resume position, session
and generation; `metadata.json`, `pages.idx` and their temporaries on the card.
*Operations*: open, scan a page, validate a block, complete, locate, query,
save. *Hard*: the files outlive edits of the text, firmware updates, power
losses and exchanges of the card between any two calls; queries and saves arrive
during the scan. *Correct*: an index that is called ready is the index of the
text that is there, page numbers name the pages they claim, the position a
reader reached is the one that is saved. Modelled in `BookIndex`.

**Book service** (`services/book/book_service.cpp`). *State*: command queue,
event queue, engine, two content slots. *Operations*: open, query, close, read
content; the worker that alternates commands and engine steps. *Hard*: a full
queue, commands of an older session. *Correct*: a close always finds room, an
index goes on without commands. The TXT half is in `BookIndex`; EPUB commands
in `BookCatalog` and `EpubCache` as far as they build caches; what a session sees of
both, and the content slots, in `ReaderSession`.

**Book catalog** (`services/book/book_catalog_service.cpp`) **and Books**
(`app/books`). *State*: the atomics `desired_active`, `activation_serial`,
`acknowledged_pause_serial`, `worker_busy`, `desired_generation`,
`desired_settings_bits`, `settings_serial`; the published items and snapshot;
`catalog_v1.bin`; what Books shows, its dialog and its pending launch.
*Operations*: activate, pause, idle, update settings, copy a page; load, scan,
build covers, save. *Hard*: the worker looks at seven atomics one after another
and works for seconds with what it saw; Books must know that it stands still
before Reader opens the same files. *Correct*: idle means still; file, screen and
card agree; the shelf is complete in the end. Modelled in `BookCatalog`; the covers
Books reads from the card in `CoverStore`.

**Reader** (`app/reader/reader_app.cpp`). Sessions, chunk and page requests with
their time-outs, a page history, bookmark of the position, a cover. *Hard*:
answers that arrive after the session, the page or the card they belong to has
gone. *Correct*: only its own data is shown, a position that was never shown is
never saved; only the user turns pages. Modelled in `ReaderSession`; its commands
also in `BookIndex` and `BookCatalog`.

**File explorer** (`app/file/file_app.cpp`). *State*: path, page, selection, the
listing it holds, the place to return to from Reader. *Operations*: ask for a
listing, take it, turn pages, select, enter, leave. *Hard*: the place and
`return_from_reader_` outlive the session they were set in, while cards change and
late listings arrive. *Correct*: what is shown is the folder asked for, and coming
back from a book finds the page it was opened from. Modelled in `FileBrowser`; its
use of the pool in `ResultPool`.

**Application runtime** (`app/app.cpp`, `app/app_registry.cpp`) **and dispatcher**.
*State*: the app in the foreground, the pending switch, a return history of eight,
a pending launch. *Operations*: request a switch, Back, launch; apply the switch;
deliver one event. *Hard*: events that arrive between the request and the switch
are dropped; a launch may be refused; the history overflows. *Correct*: the apps
form a stack; who follows the card knows its state. Modelled in `AppRuntime`,
specified by `AppStack`.

**Frames** (`ui/paper_mono/ui_frame_pool.cpp`, `ui_renderer.cpp`,
`ui/ui_presentation.cpp`). *State*: the slots with their references, the request
queue of two, the generations expected and presented, the status bar, the ghosting
debt of each region. *Operations*: build and queue a frame, reclaim the oldest, drain
the queue, draw, refresh, commit, upgrade. *Hard*: two tasks and the guard of the
touches share slots; frames are superseded while they wish for a cleaner refresh;
refreshes fail. *Correct*: the newest frame comes to the glass, a wish for quality
is not lost, input is ready only when the newest frame is what is seen, no region ghosts
without end.
Modelled in `FramePipeline` and `RefreshDebt`.

**Covers in memory** (`ui/paper_mono/books_cover.cpp`, `reader_cover.cpp`). *State*:
slots with buffers, generations, references. *Operations*: begin, append, commit,
cancel, clear by the apps; acquire and release by the renderer. *Hard*: the renderer
decodes outside the lock while the apps turn the page. *Correct*: a leased buffer is
neither freed nor replaced, and none is lost. Modelled in `CoverStore`.

**Panel, front light, internal bus** (`m5_hal/paper_mono/`). *State*: the panel's
memories and its sleep, `baseline_ready`, `panel_awake`, the light's level, wish and
suspension, the bus state, the charger's switch. *Operations*: refresh with a retry,
reset, set-up, sleep, set the light, lock and recover the bus, read the charger.
*Hard*: every transfer may fail half way; three tasks use the bus; the light is
suspended by one task and set by another. *Correct*: a partial refresh starts from
what the glass shows; a muted light stays off; nobody gets a bus the charger blocks.
Modelled in `DisplayPanel`.

**Input** (`services/input`, `ui/ui_interaction_router.cpp`). Debouncing machines of a
finger and of two keys, queues that drop their oldest event, the capture of a control.
*Hard*: a press may find another control captured whose release was dropped, and is then
judged against a frame that is already superseded. *Correct*: one press acts at most once,
in the view where it began, and a control is never captured for ever. Modelled in
`TouchInput` and `Buttons`.

**Clock and battery** (`services/rtc`, `services/battery`, their apps). Requests by
session, a cached time advanced by its readers, snapshots published into a cache and
a queue of one. *Correct*: the time is the chip's, the app's waiting ends, whoever
follows the battery has its last snapshot. Modelled in `Calendar`, `RtcClock`,
`Battery`.

**EPUB cache engine** (`services/book/epub_cache_engine.cpp`). *State*: phase, spine
index, metadata; four files and their temporaries. *Hard*: files are replaced one
after the other; power, card or a call may go in between. *Correct*: a cache that
validates belongs to the book on the card, as far as its fingerprint tells.
Modelled in `EpubCache`.

The tick, the start-up, register access, drawing and the host tools have no state of
interest here; `PROJECT.json` lists them with the rest.

### How the modelled parts meet

    detect pin -> monitor --status queue--> dispatcher -> app in the foreground
                     |                                     |  activate/pause/idle
                     | media_access_mutex                  v
      book worker ---+--- catalog worker <---atomics---- Books
          ^                                                |
          +---------------command queue------------------ Reader
      storage worker <--request queue-- FileApp, Reader, Books
          +--result pool, result queue--> dispatcher -> app

`StorageService` establishes what the other modules assume of the gate: inside
it the card cannot change (`GateProtects`, proved). `BookIndex` and
`BookCatalog` therefore take a call to the card as one step that happens wholly
before or wholly after a card change, and have the card change between calls.
`StorageService` follows a request to the point where its result is published;
`ResultPool` takes the result from there to the app. `ReaderSession`, `FileBrowser`
and `CoverStore` take up where both end: a block or a listing arrives, is lost or comes
late; and `ReaderSession` sees of `BookIndex` what the events say, a page and whether
the index is valid. `FramePipeline` has one step, a refresh that succeeds or fails,
where `DisplayPanel` has the driver; `AppRuntime` has the events of which `Battery`
and `RtcClock` follow one kind each to the app that takes it.

## 2. Modules, and how they correspond to the code

`PROJECT.json` maps every definition to the lines it stands for. In short:

**`ResultStore`** (56 lines) is the abstract specification: a FIFO of produced
results, one being delivered, one kept. Results never change and come out once.

**`ResultPool`** is the real pool. `slot` is `result_pool`, `queue` the result
queue, `wpc`/`at`/`mine` the worker inside `acquire_result_slot`, `mpc`, `owner`
and `kept` the dispatcher and FileApp. One action per access to the shared
`reference_state`: `CleanUp`, `SkipBusySlot`, `ClaimSlot`, `FillResult`,
`PublishResult` for the worker; `ReceiveResult`, `ConsumeResult`,
`RetainCheck`/`RetainSwap` (the test and the compare-and-swap of `retain`),
`AdoptListing`, `DropListing`, `ReleaseOwner` for the main loop. `Store ==
INSTANCE ResultStore` with `Pending`, `Content(owner)` and `Content(kept)` is
the refinement mapping.

**`StorageService`** has the monitor (`mpc`), the worker (`wpc`), the main loop
inside a request function (`cpc`) and any number of book tasks at the gate
(`gate`). `handle_card_change` is a sequence of actions from `BeginChange`
(generation + 1, before the state moves) to `EndChange`; `publish_status` on a
full queue is two steps, because the dispatcher may drain the queue in between.
A volume is named by the generation it was mounted under, so "which card was
this read from" can be asked of a result. `volumes` is a history variable.

**`BookIndex`** has the files of one book on each card, the command queue, and
the engine. One action is one step of the worker between two calls to the card;
the two calls of a replacement (`RemoveIndex`/`RenameIndex`,
`RemoveMetadata`/`RenameMetadata`) are separate, so that a power loss, a failing
call or a query of the state can come between them. `PowerLoss` forgets memory
and keeps the disk, `EditText` and `DamageIndex` change the disk, `ChangeCard`
exchanges cards. Texts are members of a small set with given page starts, under
one or two pagination versions. A fingerprint is the size of a text and the CRCs of its
first, middle and last 4 KiB; `Sample` gives what these windows show, and two texts of
one size and one sample are `Alike`: the engine takes one for the other, as
`Docs/txt_reader.md:240` says it does. The properties therefore speak of the text on the
card *or one the fingerprint does not tell from it*, and promise more where the
fingerprint tells a text from all others (`Told`). The CRC of an index is named by its
page starts.

**`BookCatalog`** has the catalog's worker, one action per access to an atomic or
to the card; the UI task, whose handlers leave the accesses they still have to
make in `calls`, to be made one by one; Books; and as much of the book worker as
builds an EPUB cache. `update_state` and `post_revision` are one step, as nobody
but the worker writes what they read. All books fit on one page of the shelf.

**`ReaderSession`** has the reader's state as one record, whose fields are those of
`reader_runtime_state` (`content_request.busy` is `busy`, `book.waiting` is
`asking`, `book.index_lookup` is `lookup`, and so on), with the blocks the paginator
holds and the history; the requests to the storage service, the command, event and
result queues of the book service; and its worker as far as a session sees it: the
place found, the cache, the index. The reader's functions are operators from a
reader to a reader, its handlers are actions that apply them: `OnRunning` is one
update, `TakeEvent`, `DeliverBlock` and `DeliverResult` one event each. An offset is
named by the page that begins there, so that number and page can be compared. A
block carries the book and the part it was read from: `PageText` asks that the
blocks of a page are its own. The two time-outs run independently (`queryLate`,
`blockLate`). `FinishCache` has the cache's `finalize`, which begins a new cache at
its cover whatever place was kept.

**`AppStack`** is the abstract specification of navigation: a stack whose bottom is
the launcher. **`AppRuntime`** is the real thing: `foreground`, `returns`, `pending`,
`launch` are the variables of `app.cpp`; the dispatcher delivers one event at a time
(clicks, keys, statuses of the card) until an app asks for a switch, `ApplySwitch`
then runs `on_close` and `on_open`. `Stack == INSTANCE AppStack WITH stack <- Screens`,
where `Screens` is the return history below the foreground app, its pending switch
already counted. A full history would forget its oldest entry, which is no step of the
stack; TLC finds that no path through the menus is that long.

**`FramePipeline`** has the main loop inside a call of `ui_render_*` (`producer`), the
renderer's turn (`renderer`), the slots with their references (`pool`), the queue and the
record of what is presented. `CheckQueue`, `ReclaimRequest`, `SendRequest` are the
producer's steps, `Drain`, drawing, refresh and commit the renderer's. `AcquireFails` is
the pool that stays exhausted because the renderer took the requests before one could be
reclaimed. `ReadPresented`, the read guard of the touches, asks for a presented frame of
the view and not for the newest, as a captured control is judged against an older one too.
A frame is its view, generation, region and two parts of content, so that "the screen
shows it" can be asked. **`RefreshDebt`** has the counts by which refreshes are promoted
to cleaner ones.

**`TouchInput`** has the sampler, its queue and the router: press, release, the end of
a long press, views opened, frames submitted and presented in between. While nothing is
captured an event is passed over unless input is ready. With a
control captured a press is judged by what is presented, however old, and captures
another control or none (`Press`); `swapped` remembers the presses that the guard gave up
because a frame was presented between its two looks. **`Buttons`** has all phases
of the two keys' machine, with time counted in scans. **`Calendar`** walks every day of
a century against a day number computed without a table of months. **`RtcClock`** and
**`Battery`** have their tasks' steps, queues, caches and apps; the battery app is
`closing` between the request for another app and the switch, when the dispatcher drops
its events.

**`EpubCache`** has one action per call to the card, of the four files and their
temporaries; a power loss forgets the engine, keeps the files, and may bring a firmware
that paginates differently (`paging`), under which the saved place is given up. The book's
versions have fingerprints that need not differ (`Fingerprint`, `Alike`), as in
`Docs/epub_reader.md:147`. There is one engine at a time, the worker's or the catalog's;
that the two can meet is the finding of the run `catalog_two_writers`. **`FileBrowser`** has
the explorer's fields as one record (`browser`), the listings and statuses on their way,
and the cards by generation.

**`DisplayPanel`** has the renderer's refresh (`draw`) from the request to the
waveform, what the panel holds (`panel`), the driver's two flags (`driver`), the front
light (`light`, and the main loop inside `hal_display_set_front_light`, `setter`) and the
internal bus with the battery task that attaches the charger to it (`bus`, `charger`).
What the glass shows is a history variable of the panel, so that "memory 2 holds what the
glass shows" can be asked before a partial waveform.

**`CoverStore`** has both cover stores over one heap. Their operations are operators
from a heap and a store to the next; the apps' handlers (`LoadPage`, `TakeBlock`,
`TakeCoverBlock`, ...) apply them in the order of the code, the renderer leases
(`DrawShelf`, `DrawCover`) and releases. A buffer holds the blocks that were copied into
it, with the title they belong to. An allocation fails when every buffer of `Buffers` is
given out (`HasRoom`), which ends the cover as it does in the code; in Reader's store the
begin has by then given up the older cover of its slot (`EvictCover`).

**`MCDevice`** runs the twelve modules that share no state with one another one at a time:
`part` is chosen initially and names the one a behaviour is about. Their states add up
instead of multiplying, and nothing is lost, as no action of one reads another's
variables. **`MCResultPool`, `MCStorageService`, `MCBookIndex`, `MCBookCatalog`,
`MCReaderSession`** give the constants of the others their values; `MCBookCatalog` also says
what its two kinds of behaviour leave out (`Either`, an action constraint). The modules whose name
ends in `Proofs` hold the theorems.

A definition whose comment begins "Faulty variant" is not part of any
specification: it is a plausible mistake in the action or operator below it,
kept to show that the property which is meant to catch it does. Every module states the
types of its variables (`TypeOK` or a name that ends in it); those of pool, storage,
catalog, ghosting debts and panel are proved, none is listed among the runs' properties.
The invariants of the other proofs contain the types that their steps need.

## 3. Runs: what is checked

<!-- runs -->
| run | configuration | properties | what it shows |
|---|---|---|---|
| `pool` | `MCResultPool.cfg` | `RefsExact`, `StoreSpec`, `PoolRecovers` | With three slots and wrapping generations, counts stay exact, held handles stay current, publishing never fails, and the pool implements the abstract result store; a slot kept by FileApp is always regained. |
| `storage` | `MCStorageService.cfg` | `GateProtects`, `NoCrossCardResult`, `StatusCatchesUp` | A book worker at the gate, scans and chunk reads against three card changes in every interleaving: the gate protects the card, results never mix cards, the newest status survives a full queue. |
| `storage_live` | `MCStorageServiceLive.cfg` | `GateOpens`, `CardNoticed` | Once the foreground app stops asking, a book worker is let in or refused; a card left in the slot becomes ready or is reported as faulty, bounces of the detect pin included. |
| `book_index` | `MCBookIndex.cfg` | `ReadyIndexSound`, `SavedProgressTrue`, `KeepsPlace` | Two sessions on a card that may hold an index of either firmware, edits between texts of one size that the fingerprint tells apart or not, an empty and a broken text, a loss of power anywhere and the card put in again after it: indexes, page numbers and positions stay true. |
| `book_index_cards` | `MCBookIndexCards.cfg` | `WritesOwnCard`, `BuildEnds` | Two cards exchanged between any two calls of the worker: no file of one book reaches the other card, and every build is finished or given up, broken texts included. |
| `catalog` | `MCBookCatalog.cfg` | `QuietWhenIdle`, `SavedCatalogSound`, `CatalogComplete`, `ShownOfCard` | Either one card stays, Books is opened, paused and left, Reader is opened from Books and from the file list and the settings are changed while the worker loads, scans and builds covers; or a card is taken out and another put in at any step of the worker while Books is open. Idle means still, what is saved and shown is of its own card, and nothing selected is missing at the end. |
| `catalog_live` | `MCBookCatalogLive.cfg` | `BooksCatchesUp` | A card is put in or taken out and any call to it may fail: what Books shows becomes what the worker published, through an event queue of length 1. |
| `catalog_two_writers` (violation expected) | `MCBookCatalogWriters.cfg` | `OneCacheWriter` | Reader is left while it builds an EPUB's cache, and Books has the catalog build the same cache. |
| `reader` | `MCReaderSession.cfg` | `PageText`, `HistoryLeadsBack`, `PlaceRestored`, `TurnsOnePage`, `LoadingEnds` | A session of a TXT file or an EPUB that an earlier one has left anywhere, with pages and a cover of two blocks, while the card is pulled, calls fail, events are dropped and requests time out: only the page's own text is shown, a book opens where it was left, only the user turns pages, and loading ends with a page or an error. |
| `device` | `MCDevice.cfg` | `PanelSafe`, `StatusKnown`, `FramesKept`, `CoversKept`, `GhostingBounded`, `ActsOnItsPress`, `CaptureEnds`, `ButtonOnce`, `CalendarExact`, `ClockTrue`, `BatteryKnown`, `CacheSound`, `ReturnsToPlace`, `StackSpec` | Twelve components that share no state, each explored in full by itself: navigation against its abstract stack, frames between two tasks, ghosting debts, touches, keys, every day of the century, clock, battery, the EPUB cache under edits the fingerprint shows or not and losses of power, the explorer across cards, the panel with its light, bus and charger, and the covers in memory while they are drawn. |
| `device_live` | `MCDeviceLive.cfg` | `FrameShown`, `AnswerArrives`, `UnplugNoticed` | Renderer, clock and battery tasks under weak fairness: a queued frame comes to the screen, while the status bar changes too, the clock setting never waits for ever, and an unplugged supply ends the charging sign. |
| `light` (violation expected) | `DisplayPanelLight.cfg` | `LightOffInFullRefresh` | The light is on during a full monochrome refresh that the driver makes of a partial request: after a grey picture, or after a refresh that failed. |
<!-- end of runs -->

## 4. Bounds

Every bound is a CONSTANT, and every guard that uses one names it.

- *Pool*: three slots instead of four, generations that wrap after two values
  instead of 2^32, two contents. Wrapping and exhaustion happen within a dozen
  steps. The proofs cover every size.
- *Storage*: queues of length 1, one book task, and one debounce sample and three card
  changes for the safety properties (`storage`), two samples and one change for the
  liveness ones (`storage_live`): two samples let a bounce of the pin start the count
  again, and one change is the card that comes. A queue of
  length 1 is full after one event, which is the case `DiscardOldest` is for; three
  changes allow a card to leave, return and leave during one scan. The safety properties
  are proved for every number of tasks and changes, and every length.
- *Index*: two sessions, one edit, five texts of one or two pages, buffers and blocks of
  one offset (`book_index`). A buffer of one offset is full at every page, and a block of
  one ends inside an index of two pages. Four texts have the same size, two of these have
  the same fingerprint and other pages, one cannot be decoded, and the fifth is empty.
  The generation rises to 2: the card of the slot is taken out or, after a loss of power,
  put in again, so that a session opens on what an interrupted one has left; an earlier
  index on the card is part of the initial states as well. Text and index are edited and
  damaged while the card is out. Two cards are exchanged in `book_index_cards`.
- *Catalog*: a first card with a TXT and an EPUB book, a second one with a TXT book. `catalog`
  has two kinds of behaviour (`EitherSpec`), told apart by the card in the slot at first. If
  it is the first one it stays there, with one change of the settings and three activations:
  these are what it takes to open, select, and return while an older pause is being
  acknowledged. Otherwise - the second card is there, or none - cards come and go up to
  generation 3, so one is taken out and another put in while Books is open; the user does
  nothing else then. No call fails in this run, as `CatalogComplete` asks. In
  `catalog_live` every call may fail and there is one change, a card that comes or one that
  goes; liveness is too dear for two. The settings rest there (`MaxSerial = 0`), so the
  events that Books puts off while its dialog is open are no part of `BooksCatchesUp`. That
  `ShownOfCard` and `SavedCatalogSound` hold under failing calls too, for any number of
  changes, is proved.
- *Reader*: books of three pages (a first, a last and one between) of two blocks, a
  cover of two blocks, one place in the history, so that it overflows, queues of one to
  three places. `MaxSession` counts openings and closings, which both take a number: with
  two of them one session is opened and closed; what an earlier one has saved is part of the
  initial states. The theorems are for any number of sessions. `MaxRequest` stops the user
  from turning pages after six requests; loading always runs to its end.
- *Navigation*: a history of eight, as in the code, four changes of the card, a queue of
  two.
- *Frames*: a pool of three and a queue of two, as in the code, four frames: one drawn, two
  queued, one reclaimed (`device`); three in `device_live`, where the status bar
  changes as well. `FramesKept` is proved for both together and any number. *Debts*: limits of two or three instead of the code's; the counts
  only meet each other.
- *Touches and keys*: two contacts and one view opened between them, a queue of two;
  debounce and long press of two and four scans, so that every phase can be left early.
- *Clock*: a tick counter of four half seconds, that wraps within the run. *Battery*: two
  changes of the supply, two visits, one failure. *Calendar*: nothing is bounded away: a
  walk from each first of January reaches the next; the theorem is for walks of any length.
- *EPUB cache*: three versions of the book, the first two with one fingerprint, the second
  with a larger cover; two paginations; power lost once, the card exchanged twice and one
  failure; a spine of two items. *Explorer*: a root of two pages and
  a folder, three generations of cards of which the middle one has no folder.
- *Panel*: a picture in black and white, one with a grey, light off or on. Failures,
  refused locks and recoveries are not bounded. `PanelSafe` is proved for any pictures.
- *Covers*: pages of two books, covers of two blocks, four blocks read, two books opened,
  one read in the queue. A slot is filled, drawn, cleared and filled again within four
  blocks. Four buffers, so that the heap can be used up. `CoversKept` is proved for any
  numbers of these.

TLC explores all states within these bounds; none of the runs uses symmetry or
sampling.

## 5. Fairness

Only what the scheduler and the queues guarantee is assumed:

- a task that can take a step takes one in the end (`WF` on the tasks: each is a
  FreeRTOS task of its own, and none of them busy-waits);
- the detect pin can be read (`WF` on the storage monitor's steps other than
  `SampleFails`): while it cannot, the monitor knows nothing of the card;
- a task that waits for `media_access_mutex` gets it if it is free again and
  again (`SF`: FreeRTOS mutexes wake the waiter of highest priority, and the
  holders release within a bounded time);
- a directory has an end (`SF(EndScan)`), and a book task that is inside the gate
  leaves it;
- the main loop ends the calls it makes, and looks at every source of events again and
  again (`SF` on the handlers of Books, because another handler may run first every time;
  `WF` where the handler stays possible);
- the clock goes on: an answer that is waited for long enough is late (`WF` on
  `OnRunning` with either time-out). Requests are numbered and the runs finite, so
  whoever waits for ever waits for one request, and ten seconds pass.

Nothing makes the user press anything, a card appear, a block or an event arrive, an I/O
call succeed, or Books be opened. `GateOpens` assumes that the foreground app stops asking,
`CardNoticed` that the card stays, `UnplugNoticed` that the supply stays away, `FrameShown`
allows for a refresh that fails; these are in the formulas. The visits to the battery app
are finitely many (`MaxVisits`): every visit that ends puts the next sample off, so endless
ones would keep an unplugged supply from being noticed.

## 6. Proofs

TLAPS checks the following for every value of the constants, under the ASSUMEs of the
modules only: positive lengths, a return history of at least two, an even modulus of
ticks, listings that are sequences of entries, distinct task names, bounds and sizes that
are natural numbers, years of one century, `UINT32_MAX` (`GivenUp`) above the number of
covers ever read, that no card is the absence of one, page starts that begin with 0 and
grow inside their text, no handle among the slots, for the pool that generations can
differ and counts fit, and for the EPUB cache that an edit the fingerprint shows is not
taken back by a later one (`EditAssumption`). `DeviceProofs` and `DisplayProofs` collect
the proofs of several components, which share nothing but the module.

**`ResultPoolProofs`.** The inductive invariant `PoolInv` says that a slot's
count is the number of its users (worker, queue entries, dispatcher, FileApp),
that handles in different hands never name one slot except while a listing
passes from the dispatcher to FileApp, that what is handed out is finished, and
that only an unreferenced slot awaits clean-up. It is needed because the count
alone does not say *who* counts: without "no aliasing" the release of one handle
could free another's slot. From it: `PoolRefsExact`, `PoolHandlesCurrent`,
`PoolQueueHasRoom` (by the pigeonhole principle: every queued handle is another
slot, and the worker holds one that is not queued), `PoolDeliveredUsable`,
`PoolTypeOK`, and `PoolImplementsStore`: every step of the pool is a step of
`ResultStore` or a stutter.

**`StorageServiceProofs`.** `StorageInv` adds to the types and to the gate and
counter properties: who holds a mutex is told by where the holder stands
(`LockInv`); insertions and removals alternate, so that only a timed-out unmount
leaves a volume behind and "ready" stands for the volume of its generation until
the removal is announced (`MountInv`); what each of the worker's tests still says
of the volume it reads (`ReadInv`), with `Dead(g)`: no card was or will be mounted
under g, which is what saves the request that was stamped between the increment of
the generation and the publication of the state; and the newest status is last in
the queue (`NewestInv`). From it follow the three properties of the run `storage`,
`GateProtects`, `NoCrossCardResult` and `StatusCatchesUp`, and three more that no run
lists: the types, `ForegroundExact` and `ReadyIsMounted`.

**`BookCatalogProofs`.** `QuietWhenIdle` is what Books relies on before it lets
Reader touch the same files. The invariant `CatalogInv` adds two facts to the
types it needs: a pause that has cleared `desired_active` still owes its number
(the two atomics are written one after the other), and a worker at work while the
catalog is not wanted has not acknowledged the last number.
`CatalogFilesSound` proves `SavedCatalogSound` with a second invariant, `SoundInv`.
The catalog file of a card is written from the published items, so it is these that
must be right: they are of the generation the worker has adopted, and while that is
the present one they are books of the card in the slot, selected by the worker's
settings, and a ready cover has its cache. Once the card has been exchanged nothing
is said of them, for what is written under another generation goes nowhere; and
between the removal of the old file and the renaming of the new one the save holds
the medium, so the card cannot change there. The steps that touch neither items nor
files are proved together (`QuietSteps`, `QuietKeeps`), the others one lemma each.

`BooksShownOfCard` needs the history of cards (`History`) and that a snapshot with
items in it is numbered with the generation the items are of (`PublishedOfCard`), which
holds although the number is written before the items are read: between the two the
snapshot is empty. Books copies items only from a snapshot of its own generation, and while
its handler has changed that generation and not yet copied, it owes the copy (`PageOwed`).
`CatalogListsAll` holds while no call to the card fails. `ExactInv` says when the
list is complete (`FoundAll`): a scan of the generation has found all there is, or nothing
is selected. A list that is loaded from the file is complete only after a scan, so what has
to be shown is that the worker asks for one whenever something is selected: it does so
if the card is there, and a card that is there then was there when the list was called
ready (`NoWindow`, `LoadedSeen`). A card may go at any moment between; that none can come
under the worker's own generation needs that every generation on its way to the worker
has begun (`Known`).

**`DeviceProofs`: navigation.** `PathInv` says that the return history and the app on top of
it form a path through the menus: launcher, one of its entries, and from there an
entry of the menu or Reader. No path is longer than two, so a history of at least two
entries (the code has 32) forgets none, no app asks to open itself, and no target refuses its
launch. With it every step is a step of `AppStack` or a stutter
(`RuntimeImplementsStack`). `StatusInv` adds that the newest status is last in the
queue; whatever the queue or the dispatcher drops is then followed by a newer one or
by an `on_open` (`FollowersKnowStatus`).

**`DeviceProofs`: touches.** The queue of touches may drop the press or the release of
a contact, and the router reads what is left in order. `TouchInv` follows a press that
can still capture, or has captured, to the event that will release it (`Awaited`): that
event is queued behind it, the finger is still down, or one of the contact's events was
lost. Contacts are queued in the order they were made (`InOrder`), so a click that
finds a capture is of the same contact or of a later one whose press was dropped.

**`DeviceProofs`: keys.** `ButtonOnce` counts the events between two rests of the keys.
`EpisodeOf` says for each phase of the machine what the episode can have published and
whether the keys are down; in a phase of release its timer is the time they have been
up (`ReleaseTimed`), which is why a machine is idle when they have rested.

**`DeviceProofs`: the explorer.** Requests are numbered upwards, so of the listings on
their way at most one answers the last request, and none does once a folder is shown
(`RequestsNumbered`). `PlaceIsKept`: until the explorer to which Reader returns has
its answer, it has asked for the folder it was left at, and will restore the page. That
the page still exists when the card has not changed needs that a listing shows what
that card holds (`IsListing`, `PlaceIsReal`).

**`DeviceProofs`: the clock.** While the main loop holds a copy of the cache, the copy is
the cache itself or of an older generation of it (`CopyCurrent`), so its write cannot
undo an answer. The rest is arithmetic of ticks that wrap: `AdvanceKeeps` needs that the
modulus is even, as it is in the code.

**`DeviceProofs`: the battery.** Between the two halves of a publication the cache already
is the task's snapshot, and at any other time an event that waits in the queue is the
cache (`PublishedInOrder`); so whoever reads the cache on opening, and then follows the
queue, ends with the cache.

**`DeviceProofs`: the EPUB cache.** `finalize` and `save` replace the files of a cache one
after the other, and anything may come between two calls. `EpubInv` counts the operations
still to come from the last one: the list that is left (`Run`, `TodoFits`) says which
files are the book's already. `Vouched`: metadata on the card is never of a newer version
than the files it describes and none of them is newer than the book; `EditAssumption` says
that an edit the fingerprint shows is not taken back by a later one, so the versions
between two that are alike are alike too, and metadata with the book's fingerprint vouches
for files that are there at all. They need not be of one version among themselves: a file
that was replaced before the power went is of the newer of two versions that are alike.
`EngineKnows` adds what the engine has learnt in its phase. The lemmas on runs of
operations (`RunsJoin`, `NextOperation`) hold for a spine of any length.

**`DeviceProofs`: the calendar.** Within a month, over its end and over the end of a year the
next date has the next day number (`NextDay`, `NextMonth`, `NextYear`); the last needs that the
leap years of the century are the years at which the quotients of the day number change
(`LeapYears`), and that the wrap from 2099 to 2000 loses one whole century. A clock that is
asked for after several days applies the step as often (`AdvancedBy`, a recursive function):
that the function exists and that n steps add n to the day number is an induction, carried
out on the least counterexample (`LeastNumber`, `WalkExists`, `DaysAfter`), for any n.

**`DisplayProofs`: frames.** `FramesKept` for any pool, queue and number of frames.
`RefsInv`: a slot's count is the number of hands that hold it (call, queue, renderer,
latest, presented, touch), so a frame in a hand stays what it is. `OrderInv`: frames that
are shown are older than queued ones, which are sorted and older than the one being built;
hence the presented frame can have the newest generation, which is when
`ui_presentation_input_ready` says yes, only if nothing is on its way. Nothing is claimed
of a touch that is judged while a control is captured: it may meet an older frame.
`WishInv` strengthens the promise on quality: the frame under construction counts only at
a step from which the queue cannot refuse it.

**`DisplayProofs`: ghosting debts.** A fast refresh is due after at most `FastestLimit - 1`
fastest ones that leave a ghost, and clears their count; so the ghosts of a region
are paid for by its fast refreshes and by the fastest ones counted since
(`DebtInv`, `Paid`). A press may run that count up to its limit without a ghost,
hence the minimum in `Counted`.

**`DisplayProofs`: the panel.** `PanelSafe` for any images and levels. Three facts over
common types: who holds the bus is told by where the renderer and the battery task stand
(`HolderInv`); the light is suspended from the muting of a refresh to its restoring,
and only a setting that has still to look again may have lit it (`MuteInv`); a
baseline stands for a memory that knows the glass, except while another kind of
refresh has rewritten it (`BaselineInv`). Nothing is promised of the light once a refresh
has restored it: a setting made meanwhile may be undone (section 7).

**`BookIndexProofs`.** A build writes through paths that name no card, so `WritesOwnCard`
rests on who else can change the card. `OwnInv` says that the generation the engine
keeps stands for the card whose text it opened, as long as it is still the published
one: every change of the card raises the generation, and the texts of a card are edited
only outside the slot. Each write compares the generation first; in the gap between the
removal of a file and its renaming, which no comparison separates, the gate keeps the
change out.

`ReadyIndexSound`, `SavedProgressTrue` and `KeepsPlace` follow from a second invariant,
`IndexInv`, of what each thing says of the text it belongs to. `CardsTrue`: metadata are
true of the text and the pagination they name, and they are `Dated`, of the text of their
card or of an earlier one; as an edit always moves the modification time, metadata of the
text's own size and time are of this text, and this is what lets `open` trust them without
reading it. Where it goes by the fingerprint instead, what it finds is of a text that is
`Alike`, and an index that is taken over in this way is one of the pages of such a text;
being alike is an equivalence, so it survives any number of sessions. `BuildTrue`: the
header of the engine is that of the first pages of its text, and while the text is scanned
the file with what is still in memory are those pages; nothing is said of a cache but that
it is there, for it is validated against the CRC before it is ready. `ReplacementTrue`
holds the record that is being written to the text in the engine, and `EventTrue` the last
event. `CommandsTrue` says that a session asks for places of the text in the slot - page
starts, if the fingerprint tells it from all others (`Shown`) -, and needs `SessionsTrue`:
a session is of one generation of the media, so a command of the session that the engine
serves is of the engine's generation, hence of its text. That an offset lies on one page,
and a page start on its own (`PageAtIs`, `PageOfStart`), rests on the growth of page
starts (`PagesGrow`); it is an induction, carried out on the least counterexample
(`LeastNatural`).

**`ReaderSessionProofs`.** `SessionInv` has four parts. `Sound` is of the reader alone: the
paginator holds the first blocks of the page and has asked for the next one (`Laid`);
the history leads back from the page on the screen or, while a page is under way, from
the one that was left for it (`WayBack`, `UnderWay`). That an accepted answer carries
what was asked for is not to be seen from the reader, so `MessageShape` says it of every
queue: whatever bears the session's number is of its book, a block is the one of its
request, and the answer to the query that is out has the page that was asked for
(`Fits`), which no later query can disturb as requests are numbered upwards. `Placed`
relates the reader to the worker: a reader who takes an index or a cover for granted
is served by the worker, at the place the worker has found. It is kept because the events
that tell the place (`Told`) carry the worker's own, which does not change while it serves
a session, and because an EPUB is told of its place once, before anything else: a second
`opened` would find the reader on the way. That needs `InOrder`, no session is opened
twice. The steps of the reader are proved for a reader r that satisfies these parts and
not for the variable, so that each operator has its lemma (`Keeps`, `Moves`), whatever
action applies it; the worker's steps all go through one lemma, `ServerStep`.
`ReaderPageText`, `ReaderHistoryLeadsBack` and `ReaderPlaceRestored` follow from the
invariant; `ReaderTurnsOnePage` is part of what each step is shown to do (`Turns`).

**`CoverProofs`.** `Stored` says that every buffer the heap has given out is in exactly
one place - shown on the shelf, being built there, or in a slot of Reader - and holds what
is to be there: the whole cover of the generation shown, or the first blocks of the one
that is built. `Lent` says that a slot counts the one lease the renderer can have and that
the leased buffer is still in the slot it was taken from, which is why the count is enough
for `clear`, `commit` and `begin` to leave it alone. The operations of the stores are
shown to keep `Stored` for any heap, shelf and page (`CancelShelfKeeps` to
`CommitCoverKeeps`), so that a handler that applies three of them one after the other
needs no more than to chain them. What the handlers add is whose cover a buffer is:
something is built only for the request under way (`BuiltForRequest`), and an answer that
is taken is for the item its slot shows (`ReadsKnown`), although the page may have been
lost in between. That Reader always finds a slot needs that no cover is shown while one is
asked for (`NovelFits`): then one of the two slots at most is held, by the renderer.

Only model-checked: liveness (`PoolRecovers`, `GateOpens`, `CardNoticed`, `BuildEnds`,
`BooksCatchesUp`, `LoadingEnds`, `FrameShown`, `AnswerArrives`, `UnplugNoticed`) and
everything that needs ENABLED, which are beyond the prover. Every other property of the
passing runs is stated by one of the theorems.

## 7. Where code and documentation differ

Two runs are expected to fail, and show a difference between a document and the
code:

- `catalog_two_writers`. `Docs/epub_reader.md:115` says that Books waits for the
  idle acknowledgement before it opens Reader, "so two cache engines do not write
  the same book directory concurrently". Leaving Reader does not stop the book
  worker's build (`services/book/book_service.cpp:282`), and Books, reopened,
  activates the catalog, whose engine builds the same cache. FileApp opens Reader
  without waiting at all.
- `light`. `README.md:47` says that the front light is off during full monochrome and
  Gray4 refreshes. The light is suspended by the kind of refresh that is asked for
  (`m5_hal/paper_mono/paper_mono_display.cpp:524`); the driver makes a full one of a
  partial one if it has no baseline (`display/epd_otp_driver.cpp:366`), and drives it
  with the light on.

Met while modelling, and not the subject of a run:

- *Front light restored.* `m5_hal/paper_mono/display/README.md:81-82` says that after the refresh
  the last setting is restored. `restore_front_light_after_full_refresh` clears the
  suspension, loads the wish and applies it (`paper_mono_display.cpp:43-47`); a setting
  made between the load and the application is overwritten by the older one. TLC finds
  it in fourteen steps of `DisplayPanel`.
- *First refresh after power-on.* `load_white_baseline` writes white into the panel's
  memories without driving it (`epd_otp_driver.cpp:238`), and the driver takes that for a
  baseline: a first frame that asks for a fast refresh drives the difference to white
  over whatever the glass still shows. `DifferenceKnown` therefore allows an unknown glass.
- *A cover lost to its drawing.* `ui_books_cover_commit` refuses a slot that is being
  drawn (`books_cover.cpp:89`), and Books then gives the cover up until its page is
  loaded again (`books_app.cpp:399`). It takes a page turned, and its first cover read,
  while the renderer decodes the old one of the same position.
- *Launch that waits for ever.* A storage status that arrives while a selected book waits
  for the catalog to stand still makes Books activate the catalog again
  (`app/books/books_app.cpp:242`). `reader_launch_pending_` stays set, idle never
  holds again, and no book can be opened until Books is left. `BookCatalog` has the steps.
- *Place lost.* `README.md:34` says that saved books resume at their validated page. A TXT
  file's first page is laid out while the book worker still opens it, and from then on
  `position_valid` holds (`app/reader/reader_app.cpp:466`). Leaving Reader before the
  saved page has replaced the first one saves offset 0 over the saved place
  (`reader_app.cpp:72`), although the user has turned no page. `ReaderSession` has
  these steps.
- *Superseded frames.* A frame that only moves the selection or opens a menu redraws its
  region; if it supersedes a queued frame with new content, or one with new content
  supersedes the frame that opens a view, the rest of the screen keeps the older picture
  until the next full redraw (`ui_renderer.cpp:926`). `FramePipeline` keeps body and mark of
  a frame apart for that reason; that the glass shows the whole of the newest frame does
  not hold, and no document claims it.
- *Click on a row that has changed.* Books and the explorer act on the index captured when
  the row was pressed, although a listing or a revision may have arrived before the
  release: input has to be ready for the press that finds nothing captured, not for the
  click that ends on it (`ui/ui_interaction_router.cpp:315`).
- *Place kept after a listing that never came.* `return_from_reader_` stays set if the
  explorer is left before its listing has arrived (`file_app.cpp:128`).
- *Clock set but reported as failed.* If the write succeeds and the reading back fails, the
  app is told that saving failed (`rtc_service.cpp:133`).
- *Numbers shared by nobody.* Reader and Books number their chunk requests independently, and
  storage results carry no owner (`reader_app.cpp:325`): only the coincidence of session,
  request, generation and offset could make one take the other's block.
- While the card is out, `epub_cache_engine::step` returns an error and stays at work
  (`epub_cache_engine.cpp:350`): the book worker publishes an error event at every
  turn until another book is opened (`CacheFails`). Their session is over by then,
  but they push other events out of the queue.
- Edits between the sampled windows of a TXT or an EPUB are not seen if the size stays
  (`Docs/txt_reader.md:240`, `Docs/epub_reader.md:147`); this is documented, and part of
  the models. An EPUB that is edited and later edited back could find files of the edit in
  between behind metadata with its own fingerprint, if the power went in the middle of a
  `finalize`; `EditAssumption` excludes it.
- A cache that saves its cover flag before the index fails to save the offset leaves
  the two apart (`book_service.cpp:282-285`); `Save` has both outcomes.
- `Docs/txt_reader.md:252` says that reopening a path on the same generation can
  attach to a running index build. `open_book` cancels the engine first
  (`book_service.cpp:189`), so the attaching branch of
  `book_index_engine::open` is never taken. It costs time, and nothing else.
- `README.md:32` calls the writing of the catalog atomic, and `metadata.json` is
  replaced in the same way: the final file is removed, then the temporary is
  renamed (`paper_mono_storage.cpp:351-367`). Between the two there is no file.
  The models have the gap; what remains is consistent, but a position can be lost.
- The settings read from the card are stored into `desired_settings_bits` after
  the settings serial was noted (`book_catalog_service.cpp:531-533`): settings
  confirmed during the loading are overwritten and taken for seen. If the card
  becomes ready between the two tests of the media, default settings are saved
  over those on the card.
- Between the test that abandons a build and the one that saves the covers
  (`book_catalog_service.cpp:592-606`) an activation can leave a cover pending
  until the next one.
- The test app shows the level it last set successfully, while the wish that the next
  restoring applies is the one that failed.

## 8. What the models leave out

- *External calls.* `esp_vfs_fat_sdcard_unmount` is taken to succeed once
  `filesystem_mutex` is held. Other calls to the card fail nondeterministically
  where the code tests their result.
- *Merged steps.* The storage worker's two loads (state, then generation) are one
  step: the generation only grows, and a state read before it moved is a state
  read earlier. The reads within one `open` of the index engine are one step, as
  the file cannot change inside the gate and each failure leads to the same
  outcome as a missing file. Steps of a task on variables nobody else reads are
  joined with the shared access before or after them.
- *Data.* Path normalisation, sorting, JSON and binary layouts, CRC arithmetic (two
  different windows or indices have different CRCs), previews, pixels and waveform
  tables. An edit of a TXT always changes its modification time, as the code can see no
  other edit of the same size without reading the text.
- *EPUB fall-back of `open`*: the arguments with which Reader opens an EPUB's text
  at a position of the cache.
- *Not modelled at all*: the tick and the start-up order, register access of clock, touch
  controller and gauge, drawing, the EPUB archive and XML parsers, the text paginator's
  rules for a line, the digits of the clock setting, the page number in the status bar.
  They are sequential, and tests over their inputs reach what a model would.
- *Waiting.* A delay or a time-out is a choice: it may be over at any step. Nothing is said
  of how long a refresh or a scan takes.
- *Counters* (sessions, generations, serials) do not wrap in the models of
  storage, index, catalog, frames and covers: they are 32 bits wide and advance with user
  actions. Those of the pool and the clock's ticks wrap.

## 9. Plan

Done: all the modules of section 2, and the theorems of section 6.

What would come next, in this order:

1. **`ReaderAndBooks`**: the storage results of Reader and of the cover requests of
   Books, which share a queue and are told apart by numbers only.
2. **Paginator**: the page break algorithm as functions, against a reference
   definition over short texts.
3. Theorems: the types that are only model-checked (section 2), and the lengths of the
   queues of covers and of Reader.
