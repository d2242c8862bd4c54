----------------------------- MODULE BookIndex -----------------------------
(***************************************************************************)
(* The page index and the reading position of a TXT book: the command      *)
(* queue of the book service, its worker, the book index engine, and the   *)
(* files it keeps in the card's /.system/books directory, across card      *)
(* changes, failing I/O and power loss (src/services/book).                *)
(*                                                                         *)
(* Every I/O call goes through the book access gate (StorageService): it   *)
(* happens wholly before or wholly after a card change, and fails when the *)
(* media are not those of the engine.  A fingerprint is taken of three     *)
(* windows of a text, so it may miss what was edited outside them; it is   *)
(* named by the text it was taken of, and an index's CRC by its page       *)
(* starts.  The module stands for one book; the files of other books are   *)
(* in other directories.                                                   *)
(***************************************************************************)
EXTENDS Naturals, Sequences

CONSTANTS
    Cards,            \* the cards a reader may insert
    Contents,         \* what the TXT file may hold
    Size,             \* Size[c]: length of content c
    Sample,           \* Sample[c]: what the windows of the fingerprint show of it
    Pages,            \* Pages[v][c]: page starts of c under pagination version v
    BadContents,      \* contents with invalid UTF-8 on their last page
    QueueLength,      \* length of the command queue
    BufferedOffsets,  \* offsets that fit into offsets_
    BlockOffsets,     \* offsets validated by one step
    MaxSession, MaxGeneration, MaxModified, \* bounds on what is explored
    None

ASSUME BoundsAssumption ==
    QueueLength \in Nat \ {0, 1} /\ BufferedOffsets \in Nat \ {0} /\ BlockOffsets \in Nat \ {0}
ASSUME TextAssumption ==
    /\ BadContents \subseteq Contents
    /\ \A c \in Contents : Size[c] \in Nat
    /\ \A v \in DOMAIN Pages, c \in Contents :
          /\ Pages[v][c] \in Seq(Nat) \ {<<>>} /\ Pages[v][c][1] = 0
          /\ \A i \in 2 .. Len(Pages[v][c]) :
                Pages[v][c][i - 1] < Pages[v][c][i] /\ Pages[v][c][i] < Size[c]

\* The fingerprint does not tell the two texts apart ...
Alike(c, d) == Size[c] = Size[d] /\ Sample[c] = Sample[d]

\* ... or tells a text from every other.
Told(c) == \A d \in Contents : Alike(d, c) => d = c

Offsets == UNION {0 .. Size[c] : c \in Contents}
Versions == DOMAIN Pages
Working == {"scanning", "validating_cache", "validating_new"}

VARIABLES
    disk,        \* for each card: its TXT file, metadata.json, pages.idx, pages.idx.tmp
    card,        \* the card in the slot, or None
    generation,  \* media_generation
    version,     \* BOOK_PAGINATION_VERSION of the running firmware
    commands,    \* the command queue
    reader,      \* the reader session that submits them
    pc,          \* where the worker is
    phase, engine, \* book_index_engine: its phase, and its other fields
    pending,     \* what metadata.json.tmp holds, with what follows its replacement
    event        \* the last event emitted

vars == <<disk, card, generation, version, commands, reader, pc, phase, engine,
          pending, event>>

Progress == [page : Nat, offset : Offsets]
Start == [page |-> 0, offset |-> 0]

NoFile == [content |-> None, modified |-> 0]
NoHeader == [count |-> 0, size |-> 0, crc |-> <<>>, version |-> 0]
NoEngine == [session |-> 0, generation |-> 0, file |-> NoFile, resume |-> Start,
             position |-> Start, byPage |-> FALSE, dirty |-> FALSE,
             header |-> NoHeader, buffered |-> <<>>, checked |-> 0]
NoEvent == [type |-> "none", session |-> 0, progress |-> Start, count |-> 0]
NoReader == [session |-> 0, generation |-> 0, open |-> FALSE, accepted |-> FALSE,
             file |-> NoFile, indexed |-> FALSE]

TypeOK ==
    /\ \A c \in Cards :
          /\ disk[c].text.content \in Contents /\ disk[c].text.modified \in 0 .. MaxModified
          /\ disk[c].metadata # None => disk[c].metadata.offset \in Offsets
          /\ disk[c].index # None => disk[c].index.offsets \in Seq(Offsets)
          /\ disk[c].temporary # None => disk[c].temporary.offsets \in Seq(Offsets)
    /\ card \in Cards \cup {None} /\ generation \in 0 .. MaxGeneration
    /\ version \in Versions
    /\ Len(commands) <= QueueLength
    /\ reader.session \in 0 .. MaxSession
    /\ pc \in {"loop", "step", "remove_index", "rename_index",
               "remove_metadata", "rename_metadata"}
    /\ phase \in {"idle", "ready", "failed"} \cup Working
    /\ engine.session \in 0 .. MaxSession
    /\ engine.resume \in Progress /\ engine.position \in Progress
    /\ Len(engine.buffered) <= BufferedOffsets
    /\ engine.checked \in 0 .. engine.header.count
    /\ event.progress \in Progress

EmptyCard(c) == [text |-> [content |-> c, modified |-> 0], metadata |-> None,
                 index |-> None, temporary |-> None]

\* A card on which an earlier firmware left a finished index and a position.
IndexedCard(c, v, i) ==
    LET starts == Pages[v][c]
    IN [text |-> [content |-> c, modified |-> 0],
        metadata |-> [content |-> c, modified |-> 0, version |-> v, complete |-> TRUE,
                      count |-> Len(starts), crc |-> starts, page |-> i - 1,
                      offset |-> starts[i]],
        index |-> [header |-> [count |-> Len(starts), size |-> Size[c], crc |-> starts,
                               version |-> v],
                   offsets |-> starts],
        temporary |-> None]

IndexedCards(v) ==
    UNION {{IndexedCard(c, v, i) : i \in DOMAIN Pages[v][c]} : c \in Contents}

\* What a reader may find on a card at first.
FirstCards(firmware) ==
    {EmptyCard(c) : c \in Contents}
    \cup UNION {IndexedCards(v) : v \in {w \in Versions : w <= firmware}}

Init ==
    /\ version \in Versions
    /\ disk \in [Cards -> FirstCards(version)]
    /\ card = None /\ generation = 0
    /\ commands = <<>> /\ reader = NoReader
    /\ pc = "loop" /\ phase = "idle" /\ engine = NoEngine
    /\ pending = None /\ event = NoEvent

\* media_valid: the card is there, and under this generation.
MediaValid(g) == card # None /\ generation = g

\* An I/O call of the engine gets through the gate.
Reachable == MediaValid(engine.generation)

Starts(file) == Pages[version][file.content]

-----------------------------------------------------------------------------
(* The card and the power.                                                 *)

\* A card change: the gate keeps it out of a HAL call, so out of the gap
\* between the removal and the renaming of a file.
ChangeCard ==
    /\ pc \notin {"rename_index", "rename_metadata"}
    /\ generation < MaxGeneration
    /\ card' \in IF card = None THEN Cards ELSE {None}
    /\ generation' = generation + 1
    /\ UNCHANGED <<disk, version, commands, reader, pc, phase, engine, pending, event>>

\* Elsewhere, the text of a card is replaced; its modification time tells.
EditText ==
    /\ card = None
    /\ \E c \in Cards, new \in Contents :
          /\ disk[c].text.modified < MaxModified
          /\ disk' = [disk EXCEPT ![c].text = [content |-> new, modified |-> @.modified + 1]]
    /\ UNCHANGED <<card, generation, version, commands, reader, pc, phase, engine,
                   pending, event>>

\* Elsewhere, the card is damaged: page starts of its index are lost.
DamageIndex ==
    /\ card = None
    /\ \E c \in Cards :
          /\ disk[c].index # None
          /\ disk' = [disk EXCEPT ![c].index.offsets = [i \in DOMAIN @ |-> 0]]
    /\ UNCHANGED <<card, generation, version, commands, reader, pc, phase, engine,
                   pending, event>>

\* Power is lost at any point; the next firmware may paginate differently.
PowerLoss ==
    /\ version' \in {v \in Versions : v >= version}
    /\ card' = None /\ commands' = <<>>
    /\ reader' = [NoReader EXCEPT !.session = reader.session]
    /\ pc' = "loop" /\ phase' = "idle" /\ engine' = NoEngine
    /\ pending' = None /\ event' = NoEvent
    /\ UNCHANGED <<disk, generation>>

-----------------------------------------------------------------------------
(* The reader's side: book_service_open, _query and _close.                *)

Submittable(closing) ==
    Len(commands) < IF closing THEN QueueLength ELSE QueueLength - 1

clientFrame == <<disk, card, generation, version, pc, phase, engine, pending, event>>

\* A session opens on the card in the slot; its open command may be refused.
OpenSession ==
    /\ ~ reader.open /\ card # None /\ reader.session < MaxSession
    /\ LET accepted == Submittable(FALSE)
           s == reader.session + 1
       IN /\ reader' = [session |-> s, generation |-> generation, open |-> TRUE,
                        accepted |-> accepted, file |-> disk[card].text, indexed |-> FALSE]
          /\ commands' = IF accepted
                         THEN Append(commands, [type |-> "open", session |-> s,
                                                generation |-> generation])
                         ELSE commands
    /\ UNCHANGED clientFrame

\* Where the pages begin that a reader of the text shows.  It turns them from the
\* place it resumed at, and that may be of a text the fingerprint took for this one.
Shown(c) ==
    IF Told(c) THEN {Pages[version][c][i] : i \in DOMAIN Pages[version][c]}
    ELSE {o \in Offsets : o = 0 \/ o < Size[c]}

\* The reader asks for the number of the page it shows or, once it knows the
\* index, for the start of a page.
Query ==
    /\ reader.open /\ reader.accepted
    /\ MediaValid(reader.generation) /\ Submittable(FALSE)
    /\ \E offset \in Shown(reader.file.content), j \in DOMAIN Starts(reader.file),
          byPage \in {FALSE, reader.indexed} :
          /\ ~ byPage => j = 1
          /\ commands' = Append(commands,
                [type |-> "query", session |-> reader.session,
                 generation |-> reader.generation, byPage |-> byPage, page |-> j - 1,
                 offset |-> offset])
    /\ UNCHANGED <<clientFrame, reader>>

\* The session ends; the start of the page it shows is to be saved, if it got
\* as far as showing one.
CloseSession ==
    /\ reader.open
    /\ reader' = [reader EXCEPT !.open = FALSE]
    /\ \/ UNCHANGED commands
       \/ /\ reader.accepted /\ MediaValid(reader.generation) /\ Submittable(TRUE)
          /\ \E offset \in Shown(reader.file.content) :
                commands' = Append(commands,
                    [type |-> "close", session |-> reader.session,
                     generation |-> reader.generation, offset |-> offset])
    /\ UNCHANGED clientFrame

-----------------------------------------------------------------------------
(* The engine's helpers.                                                   *)

Emit(type, progress) ==
    event' = [type |-> type, session |-> engine'.session, progress |-> progress,
              count |-> IF phase' = "ready" THEN engine'.header.count ELSE 0]

\* fail: the error is reported and nothing is written until the next open.
Fail ==
    /\ phase' = "failed"
    /\ Emit("error", engine'.position)
    /\ pending' = None

\* Faulty variant: the search ends on the first candidate.
PageAtFirst(offsets, offset) ==
    (CHOOSE i \in DOMAIN offsets :
        /\ offsets[i] <= offset
        /\ \A j \in DOMAIN offsets : offsets[j] <= offset => i <= j) - 1

\* The last page start that does not lie behind the offset.
PageAt(offsets, offset) ==
    (CHOOSE i \in DOMAIN offsets :
        /\ offsets[i] <= offset
        /\ \A j \in DOMAIN offsets : offsets[j] <= offset => j <= i) - 1

\* locate, on an index that passed validation.
Located(offsets, size, progress, preferPage) ==
    LET target == IF size = 0 THEN 0
                  ELSE IF progress.offset < size THEN progress.offset ELSE size - 1
        page == IF preferPage /\ progress.page < Len(offsets) THEN progress.page
                ELSE PageAt(offsets, target)
    IN [page |-> page, offset |-> offsets[page + 1]]

Locate(progress, preferPage) ==
    Located(disk[card].index.offsets, Size[engine.file.content], progress, preferPage)

\* The header matches the running firmware, the text and the file's length.
DecodesFor(index, file) ==
    /\ index # None
    /\ index.header.version = version /\ index.header.count # 0
    /\ index.header.size = Size[file.content]
    /\ Len(index.offsets) = index.header.count

\* Faulty variant: an index that has pages is taken for complete.
RecordOfPages(e, p) ==
    [content |-> e.file.content, modified |-> e.file.modified, version |-> version,
     complete |-> e.header.count # 0, count |-> e.header.count, crc |-> e.header.crc,
     page |-> e.position.page, offset |-> e.position.offset]

\* The record write_metadata is about to write.
Record(e, p) ==
    [content |-> e.file.content, modified |-> e.file.modified, version |-> version,
     complete |-> p = "ready",
     count |-> IF p = "ready" THEN e.header.count ELSE 0,
     crc |-> IF p = "ready" THEN e.header.crc ELSE <<>>,
     page |-> IF p = "ready" THEN e.position.page ELSE 0,
     offset |-> e.position.offset]

engineFrame == <<card, generation, version, reader>>

-----------------------------------------------------------------------------
(* open_book and book_index_engine::open.                                  *)

\* What the engine starts from when the metadata m describe the same text.
\* Metadata are kept for a text of the same size whose time, or else whose
\* fingerprint, is the same; their position only if the pagination is.
SameStat(m, file) ==
    m # None /\ Size[m.content] = Size[file.content] /\ m.modified = file.modified

SameContent(m, file) ==
    SameStat(m, file) \/ (m # None /\ Alike(m.content, file.content))

Resume(m, file) ==
    IF SameContent(m, file) /\ m.version = version
    THEN [page |-> m.page, offset |-> m.offset]
    ELSE Start

Reuses(m, index, file) ==
    /\ SameContent(m, file)
    /\ m.complete /\ m.version = version
    /\ DecodesFor(index, file)
    /\ index.header.count = m.count /\ index.header.crc = m.crc

Opening(command) ==
    [NoEngine EXCEPT !.session = command.session, !.generation = command.generation]

\* begin_rebuild: an empty temporary index, and its first page.
Rebuilding(e) ==
    [e EXCEPT !.byPage = FALSE, !.resume.page = 0, !.position.page = 0, !.checked = 0,
              !.buffered = <<0>>,
              !.header = [count |-> 1, size |-> Size[e.file.content], crc |-> <<0>>,
                          version |-> version]]

EmptyIndex == [header |-> NoHeader, offsets |-> <<>>]

\* Metadata or an index header that cannot be read count as missing.
OpenBook(command) ==
    \E m \in {disk[card].metadata, None}, index \in {disk[card].index, None} :
        LET file == disk[card].text
            resume == Resume(m, file)
            e == [Opening(command) EXCEPT !.file = file, !.resume = resume,
                                          !.position = resume]
        IN \/ /\ engine' = Opening(command)
              /\ UNCHANGED disk
              /\ Fail
           \/ /\ Reuses(m, index, file)
              /\ engine' = [e EXCEPT !.header = index.header, !.byPage = TRUE,
                                     !.dirty = ~ SameStat(m, file)]
              /\ phase' = "validating_cache"
              /\ UNCHANGED <<disk, pending>>
              /\ Emit("opened", resume)
           \/ /\ ~ Reuses(m, index, file)
              /\ engine' = Rebuilding(e)
              /\ phase' = "scanning"
              /\ disk' = [disk EXCEPT ![card].temporary = EmptyIndex]
              /\ UNCHANGED pending
              /\ Emit("opened", engine'.resume)

-----------------------------------------------------------------------------
(* query and save.                                                         *)

Answer(command) ==
    \/ /\ command.session # engine.session
       /\ UNCHANGED <<disk, phase, engine, pending, event>>
    \/ /\ command.session = engine.session /\ phase = "ready"
       /\ UNCHANGED <<disk, engine>>
       /\ Fail
    \/ /\ command.session = engine.session
       /\ phase = "ready" => Reachable
       /\ LET asked == [page |-> command.page, offset |-> command.offset]
          IN engine' = [engine EXCEPT !.position =
                            IF phase = "ready" THEN Locate(asked, command.byPage) ELSE asked]
       /\ UNCHANGED <<disk, phase, pending>>
       /\ Emit("position", engine'.position)

Savable(command) ==
    command.session = engine.session /\ phase \notin {"idle", "failed"}

\* save: the page the position lies on goes into the metadata, which are written
\* to a temporary file first.
Save(command) ==
    \/ /\ ~ Savable(command)
       /\ pc' = "step"
       /\ UNCHANGED <<disk, phase, engine, pending, event>>
    \/ /\ Savable(command)
       /\ UNCHANGED <<disk, engine>>
       /\ Fail
       /\ pc' = "step"
    \/ /\ Savable(command) /\ Reachable
       /\ LET position == [page |-> 0, offset |-> command.offset]
          IN engine' = [engine EXCEPT !.dirty = TRUE,
                            !.position = IF phase = "ready" THEN Locate(position, FALSE)
                                         ELSE position]
       /\ pending' = [record |-> Record(engine', phase), then |-> "saved"]
       /\ pc' = "remove_metadata"
       /\ UNCHANGED <<disk, phase, event>>

-----------------------------------------------------------------------------
(* One turn of the worker: a command if there is one, then a step.         *)

Dequeue ==
    /\ pc = "loop" /\ commands # <<>>
    /\ commands' = Tail(commands)
    /\ LET command == Head(commands)
       IN \/ /\ ~ MediaValid(command.generation)
             /\ pc' = "step"
             /\ UNCHANGED <<disk, phase, engine, pending, event>>
          \/ /\ MediaValid(command.generation) /\ command.type = "open"
             /\ OpenBook(command)
             /\ pc' = "step"
          \/ /\ MediaValid(command.generation) /\ command.type = "query"
             /\ Answer(command)
             /\ pc' = "step"
          \/ /\ MediaValid(command.generation) /\ command.type = "close"
             /\ Save(command)
    /\ UNCHANGED engineFrame

\* Faulty variant: the worker waits for a command although a book is unfinished.
WaitForCommand ==
    /\ FALSE
    /\ UNCHANGED vars

NoCommand ==
    /\ pc = "loop" /\ commands = <<>> /\ phase \in Working
    /\ pc' = "step"
    /\ UNCHANGED <<disk, commands, phase, engine, pending, event, engineFrame>>

NothingToDo ==
    /\ pc = "step" /\ phase \notin Working
    /\ pc' = "loop"
    /\ UNCHANGED <<disk, commands, phase, engine, pending, event, engineFrame>>

\* The media are gone, or an I/O call of the step fails.
StepFails ==
    /\ pc = "step" /\ phase \in Working
    /\ UNCHANGED <<disk, commands, engine, engineFrame>>
    /\ Fail
    /\ pc' = "loop"

-----------------------------------------------------------------------------
(* scan_step: one page of text.                                            *)

\* The pages of the text found so far; the header counts them.
AtLastPage == engine.header.count = Len(Starts(engine.file))

Flushed == disk[card].temporary.offsets \o engine.buffered

ScanPage ==
    /\ pc = "step" /\ phase = "scanning" /\ Reachable
    /\ ~ AtLastPage
    /\ LET next == Starts(engine.file)[engine.header.count + 1]
           full == Len(engine.buffered) = BufferedOffsets
       IN /\ engine' = [engine EXCEPT !.header.count = @ + 1,
                            !.header.crc = Append(@, next),
                            !.buffered = Append(IF full THEN <<>> ELSE @, next)]
          /\ disk' = IF full THEN [disk EXCEPT ![card].temporary.offsets = Flushed] ELSE disk
    /\ pc' = "loop"
    /\ UNCHANGED <<commands, phase, pending, event, engineFrame>>

\* The end of the text: the last offsets and the header are written.
ScanEnd ==
    /\ pc = "step" /\ phase = "scanning" /\ Reachable
    /\ AtLastPage /\ engine.file.content \notin BadContents
    /\ engine' = [engine EXCEPT !.buffered = <<>>]
    /\ disk' = [disk EXCEPT ![card].temporary =
                    [header |-> engine.header, offsets |-> Flushed]]
    /\ phase' = "validating_new"
    /\ pc' = "loop"
    /\ UNCHANGED <<commands, pending, event, engineFrame>>

-----------------------------------------------------------------------------
(* validate_step and complete_index.                                       *)

Validated == IF phase = "validating_new" THEN disk[card].temporary ELSE disk[card].index

Minimum(a, b) == IF a < b THEN a ELSE b

BlockEnd == Minimum(engine.checked + BlockOffsets, engine.header.count)

\* Faulty variant: the header alone is looked at.
BlockValidHeaderOnly ==
    DecodesFor(Validated, engine.file) /\ Validated.header = engine.header

\* The header on the card is the one expected, the offsets of the block grow and
\* stay inside the text, and at the end the CRC agrees.
BlockValid ==
    LET f == Validated
    IN /\ engine.checked = 0 => DecodesFor(f, engine.file) /\ f.header = engine.header
       /\ Len(f.offsets) = engine.header.count
       /\ \A i \in engine.checked + 1 .. BlockEnd :
             IF i = 1 THEN f.offsets[i] = 0
             ELSE f.offsets[i - 1] < f.offsets[i] /\ f.offsets[i] < Size[engine.file.content]
       /\ BlockEnd = engine.header.count => f.offsets = engine.header.crc

ValidateBlock ==
    /\ pc = "step" /\ phase \in {"validating_cache", "validating_new"} /\ Reachable
    /\ BlockValid /\ BlockEnd < engine.header.count
    /\ engine' = [engine EXCEPT !.checked = BlockEnd]
    /\ pc' = "loop"
    /\ UNCHANGED <<disk, commands, phase, pending, event, engineFrame>>

\* A cache that is damaged, or cannot be read while the media are there, is rebuilt;
\* what was just built and fails validation is not.
CacheDamaged ==
    /\ pc = "step" /\ phase = "validating_cache" /\ Reachable
    /\ engine' = Rebuilding(engine)
    /\ phase' = "scanning"
    /\ disk' = [disk EXCEPT ![card].temporary = EmptyIndex]
    /\ pc' = "loop"
    /\ UNCHANGED <<commands, pending, event, engineFrame>>

Valid == BlockValid /\ BlockEnd = engine.header.count

NewIndexValid ==
    /\ pc = "step" /\ phase = "validating_new" /\ Reachable
    /\ Valid
    /\ engine' = [engine EXCEPT !.checked = BlockEnd]
    /\ pc' = "remove_index"
    /\ UNCHANGED <<disk, commands, phase, pending, event, engineFrame>>

\* ready, with the page of the saved position; metadata are written if needed.
Ready(write) ==
    /\ phase' = "ready"
    /\ LET offsets == Validated.offsets
           size == Size[engine.file.content]
       IN engine' = [engine EXCEPT
              !.checked = engine.header.count, !.dirty = write,
              !.resume = Located(offsets, size, @, engine.byPage),
              !.position = Located(offsets, size, @, FALSE)]
    /\ IF write
       THEN /\ pending' = [record |-> Record(engine', "ready"), then |-> "ready"]
            /\ pc' = "remove_metadata"
            /\ UNCHANGED event
       ELSE /\ pc' = "loop"
            /\ Emit("ready", engine'.resume)
            /\ UNCHANGED pending

\* The reader may use page numbers once its session has seen a ready event.
NoteIndex ==
    reader' = [reader EXCEPT !.indexed =
        @ \/ (event'.type = "ready" /\ event'.session = reader.session)]

CacheValid ==
    /\ pc = "step" /\ phase = "validating_cache" /\ Reachable
    /\ Valid
    /\ Ready(engine.dirty)
    /\ NoteIndex
    /\ UNCHANGED <<disk, commands, card, generation, version>>

\* hal_storage_replace_system_file: FAT has no atomic replacement.
RemoveIndex ==
    /\ pc = "remove_index" /\ Reachable
    /\ disk' = [disk EXCEPT ![card].index = None]
    /\ pc' = "rename_index"
    /\ UNCHANGED <<commands, phase, engine, pending, event, engineFrame>>

RenameIndex ==
    /\ pc = "rename_index"
    /\ disk' = [disk EXCEPT ![card].index = disk[card].temporary, ![card].temporary = None]
    /\ Ready(TRUE)
    /\ UNCHANGED <<commands, engineFrame>>

\* Faulty variant: the media are checked when the temporary file is written only.
RemoveMetadataOfAnyCard ==
    /\ pc = "remove_metadata" /\ card # None
    /\ disk' = [disk EXCEPT ![card].metadata = None]
    /\ pc' = "rename_metadata"
    /\ UNCHANGED <<commands, phase, engine, pending, event, engineFrame>>

RemoveMetadata ==
    /\ pc = "remove_metadata" /\ Reachable
    /\ disk' = [disk EXCEPT ![card].metadata = None]
    /\ pc' = "rename_metadata"
    /\ UNCHANGED <<commands, phase, engine, pending, event, engineFrame>>

RenameMetadata ==
    /\ pc = "rename_metadata"
    /\ UNCHANGED <<commands, phase, card, generation, version>>
    /\ disk' = [disk EXCEPT ![card].metadata = pending.record]
    /\ pending' = None
    /\ IF pending.then = "ready"
       THEN /\ engine' = [engine EXCEPT !.dirty = FALSE]
            /\ pc' = "loop"
            /\ Emit("ready", engine.resume)
       ELSE /\ pc' = "step"
            /\ UNCHANGED engine
            /\ Emit("saved", engine.position)
    /\ NoteIndex

\* A call of the replacement fails, before or after the removal.
ReplaceFails ==
    /\ pc \in {"remove_index", "rename_index", "remove_metadata", "rename_metadata"}
    /\ UNCHANGED <<disk, commands, engine, engineFrame>>
    /\ Fail
    /\ pc' = IF pending # None /\ pending.then = "saved" THEN "step" ELSE "loop"

WorkerTask ==
    \/ Dequeue \/ NoCommand \/ NothingToDo \/ StepFails \/ ScanPage \/ ScanEnd
    \/ ValidateBlock \/ CacheDamaged \/ NewIndexValid \/ CacheValid
    \/ RemoveIndex \/ RenameIndex \/ RemoveMetadata \/ RenameMetadata \/ ReplaceFails

-----------------------------------------------------------------------------
Next ==
    \/ ChangeCard \/ EditText \/ DamageIndex \/ PowerLoss
    \/ OpenSession \/ Query \/ CloseSession
    \/ WorkerTask

Spec == Init /\ [][Next]_vars

\* The worker is scheduled again and again; nothing else need ever happen.
FairSpec == Spec /\ WF_vars(WorkerTask)
-----------------------------------------------------------------------------
(* Properties.                                                             *)

\* A ready index is the whole index, under the running firmware's pagination, of the
\* text on the card or of one the fingerprint does not tell from it, whatever edits,
\* damage, card changes and power losses left on the card before; and page numbers
\* reported with a page count name the page that starts at the reported offset, even
\* when a query names a page and an offset of another (open, complete_index, locate).
ReadyIndexSound ==
    /\ phase = "ready" /\ Reachable =>
          /\ disk[card].index # None
          /\ \E c \in Contents : Alike(c, disk[card].text.content)
                                 /\ disk[card].index.offsets = Pages[version][c]
          /\ engine.header.count = Len(disk[card].index.offsets)
    /\ event.count > 0 =>
          \E c \in Contents :
             LET starts == Pages[version][c]
             IN /\ Alike(c, engine.file.content)
                /\ event.count = Len(starts)
                /\ event.progress.page < event.count
                /\ event.progress.offset = starts[event.progress.page + 1]

\* A position on the card lies in the text it was saved for, and is a page start of its
\* pagination if the fingerprint tells that text from all others; where the metadata
\* claim an index, it is one of a text with their fingerprint, and the position is the
\* start of the page they name.
SavedProgressTrue ==
    \A c \in Cards :
        LET m == disk[c].metadata
            starts == Pages[m.version][m.content]
        IN m # None =>
            /\ m.offset = 0 \/ m.offset < Size[m.content]
            /\ Told(m.content) => \E i \in DOMAIN starts : starts[i] = m.offset
            /\ m.complete =>
                  /\ \E t \in Contents : Alike(t, m.content) /\ m.crc = Pages[m.version][t]
                  /\ m.count = Len(m.crc) /\ m.crc[m.page + 1] = m.offset

\* The worker writes to no card but the one whose text the engine has read, though
\* cards come and go between any two of its calls.
WritesOwnCard ==
    [][WorkerTask => \A c \in Cards :
          disk'[c] # disk[c] => engine'.file = disk[c].text]_vars

\* Finishing an index moves neither the position a session resumed at nor the one it
\* has reached since, found by page or by offset, if the fingerprint tells the text from
\* all others; otherwise it moves a position back to the start of its page at most.
KeepsPlace ==
    [][(phase \in Working /\ phase' = "ready") =>
          \A place \in {"resume", "position"} :
             LET old == engine[place].offset
                 new == engine'[place].offset
                 starts == engine'.header.crc
             IN /\ Told(engine.file.content) => new = old
                /\ new <= old
                /\ \A i \in DOMAIN starts : starts[i] <= old => starts[i] <= new]_vars

\* An index under construction is finished or given up, with or without a reader.
BuildEnds == (phase \in Working) ~> (phase \notin Working)
=============================================================================
