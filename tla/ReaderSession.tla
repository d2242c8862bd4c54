--------------------------- MODULE ReaderSession ---------------------------
(***************************************************************************)
(* A reading session (src/app/reader/reader_app.cpp): pages are laid out   *)
(* from blocks that arrive from the storage service (TXT) or the book      *)
(* service (EPUB), while the book worker restores the saved place, builds  *)
(* the page index and answers queries, and the user turns pages.           *)
(*                                                                         *)
(* A book is PageCount pages, and an offset is named by the page that      *)
(* starts there: the worker and the reader lay out the same text with the  *)
(* same paginator, and a place saved under another pagination is dropped   *)
(* (BookIndex).  A text is not edited while its card is in the device.     *)
(* The menu, the loading notice and the submission of frames are left out. *)
(***************************************************************************)
EXTENDS Naturals, Sequences, SequencesExt

CONSTANTS
    Books, Epubs, Covered, \* what may be read; which are EPUB, and have a cover
    PageCount,      \* pages of a book
    PageBlocks,     \* blocks the paginator needs for a page
    CoverBlocks,    \* blocks of a cover
    HistoryLength,  \* READER_HISTORY_CAPACITY
    ReadLength,     \* length of the storage service's request queue
    CommandLength,  \* length of the book service's command queue
    EventLength,    \* length of its event queue
    ResultLength,   \* slots of its result pool
    Faults,         \* whether calls to the card may fail while it is in
    MaxSession, MaxGeneration, MaxRequest, \* bounds on what is explored
    None

ASSUME ReaderAssumption ==
    /\ Epubs \subseteq Books /\ Covered \subseteq Epubs /\ Faults \in BOOLEAN
    /\ {PageCount, PageBlocks, CoverBlocks, HistoryLength, ReadLength, EventLength,
        ResultLength} \subseteq Nat \ {0}
    /\ CommandLength \in Nat \ {0, 1}
    /\ {MaxSession, MaxGeneration, MaxRequest} \subseteq Nat

PageStarts == 0 .. PageCount - 1

VARIABLES
    inserted, generation, \* the card, and media_generation
    reads,     \* file blocks asked of the storage service
    commands,  \* the command queue of the book service
    server,    \* its worker: the session it serves, the cache and the index
    saved,     \* the place kept for each book on the card
    events,    \* book events on their way to the app
    results,   \* EPUB blocks on their way to the app
    serial,    \* session_serial_
    reader     \* reader_runtime_state, with the paginator and the history

card == <<inserted, generation>>
service == <<server, saved, events, results>>
vars == <<card, reads, commands, service, serial, reader>>

Current(g) == inserted /\ generation = g

Start == [page |-> 0, atCover |-> FALSE]

NoReader ==
    [active |-> FALSE, id |-> 0, book |-> None, generation |-> 0, mediaValid |-> FALSE,
     op |-> "open", start |-> 0, text |-> <<>>,
     current |-> 0, next |-> 0, target |-> 0, number |-> 0,
     status |-> "loading", valid |-> FALSE, history |-> <<>>,
     request |-> 0, requested |-> None, busy |-> FALSE, waiting |-> FALSE,
     submitted |-> FALSE, contentReady |-> FALSE, indexed |-> FALSE, placed |-> FALSE,
     query |-> 0, asking |-> FALSE, lookup |-> FALSE, queried |-> 0, goal |-> None,
     coverAvailable |-> FALSE, coverParts |-> 0, coverWaiting |-> FALSE,
     coverHeld |-> FALSE, showing |-> FALSE, navigated |-> FALSE]

NoServer == [session |-> 0, generation |-> 0, book |-> None, phase |-> "idle",
             cached |-> FALSE, place |-> Start, position |-> 0]

Init ==
    /\ inserted = TRUE /\ generation = 0
    /\ reads = <<>> /\ commands = <<>> /\ events = <<>> /\ results = <<>>
    /\ server = NoServer
    /\ saved \in [Books -> [page : PageStarts, atCover : BOOLEAN]]
    /\ \A b \in Books : saved[b].atCover => b \in Covered /\ saved[b].page = 0
    /\ serial = 0 /\ reader = NoReader

MoveCard ==
    /\ generation < MaxGeneration
    /\ inserted' = ~ inserted /\ generation' = generation + 1
    /\ UNCHANGED <<reads, commands, service, serial, reader>>

-----------------------------------------------------------------------------
(* The reader's own functions, on a reader r.                              *)

Fail(r) ==
    [r EXCEPT !.waiting = FALSE, !.busy = FALSE, !.coverWaiting = FALSE,
              !.lookup = FALSE, !.asking = FALSE, !.placed = FALSE, !.status = "error"]

\* The card is gone or another: the session is over, whatever comes.
CheckMedia(r) ==
    IF r.mediaValid /\ ~ Current(r.generation)
    THEN [Fail(r) EXCEPT !.mediaValid = FALSE] ELSE r

StartPage(r, page, operation) ==
    [r EXCEPT !.op = operation, !.start = page, !.text = <<>>, !.status = "loading",
              !.busy = TRUE, !.waiting = FALSE]

StartBody(r, page) ==
    StartPage([r EXCEPT !.showing = FALSE, !.coverWaiting = FALSE], page, "open")

StartIndexedPage(r, page, operation, number) ==
    StartPage([r EXCEPT !.goal = [page |-> page, number |-> number], !.placed = FALSE],
              page, operation)

\* The cover cannot be had: the body is read instead.
GiveUpCover(r) == StartBody([r EXCEPT !.coverAvailable = FALSE], 0)

Push(history, page) ==
    IF history # <<>> /\ Last(history) = page THEN history
    ELSE IF Len(history) = HistoryLength THEN Append(Tail(history), page)
    ELSE Append(history, page)

\* Faulty variant: the page gone back to stays in the history.
PopNothing(history) == history

Pop(history) == IF history = <<>> THEN history ELSE Front(history)

EndOfFile(r) == r.next = PageCount

\* Back from the start of the file, page by page up to the one before target.
Rebuilding(r) ==
    r.op = "rebuild_previous" /\ r.start + 1 < r.target /\ r.start + 1 # PageCount

CompletePage(r) ==
    LET found == r.indexed /\ r.goal # None /\ r.goal.page = r.start
    IN IF Rebuilding(r)
       THEN [r EXCEPT !.history = Push(@, r.start), !.start = r.start + 1, !.text = <<>>]
       ELSE [r EXCEPT !.history = CASE r.op = "next" -> Push(@, r.current)
                                    [] r.op = "previous" -> Pop(@)
                                    [] OTHER -> @,
                      !.current = r.start, !.next = r.start + 1, !.valid = TRUE,
                      !.busy = FALSE, !.status = "ready", !.placed = found,
                      !.number = IF found THEN r.goal.number ELSE @, !.goal = None]

\* Feeding the paginator, which holds the blocks of the page so far.
Feed(r, block) ==
    LET fed == [r EXCEPT !.text = Append(@, block)]
    IN IF Len(fed.text) = PageBlocks THEN CompletePage(fed) ELSE fed

-----------------------------------------------------------------------------
(* Requests.                                                               *)

Command(type, r, arg) ==
    [type |-> type, session |-> r.id, generation |-> r.generation, book |-> r.book,
     arg |-> arg]

\* submit: one place of the queue is kept for a close.
Submits(command) ==
    /\ Current(command.generation)
    /\ Len(commands) + (IF command.type = "close" THEN 0 ELSE 1) < CommandLength

\* A refused request names no message: the model does not count its id.
RequestCover(r, refused) ==
    LET asked == [r EXCEPT !.request = @ + 1, !.waiting = TRUE,
                           !.requested = <<"cover", 0, r.coverParts + 1>>]
        command == Command("read", r, [request |-> asked.request, at |-> asked.requested])
    IN IF Submits(command)
       THEN reader' = asked /\ commands' = Append(commands, command)
       ELSE reader' = refused /\ UNCHANGED commands

\* The media were tested earlier in the same update.
RequestChunk(r) ==
    LET asked == [r EXCEPT !.request = @ + 1, !.waiting = TRUE,
                           !.requested = <<"text", r.start, Len(r.text) + 1>>]
        message == [request |-> asked.request, at |-> asked.requested]
        command == Command("read", r, message)
    IN \/ /\ r.book \in Epubs /\ Submits(command)
          /\ reader' = asked
          /\ commands' = Append(commands, command) /\ UNCHANGED reads
       \/ /\ r.book \notin Epubs /\ Len(reads) < ReadLength
          /\ reader' = asked
          /\ reads' = Append(reads, Command("read", r, message)) /\ UNCHANGED commands
       \/ /\ IF r.book \in Epubs THEN ~ Submits(command) ELSE Len(reads) = ReadLength
          /\ reader' = Fail(r)
          /\ UNCHANGED <<reads, commands>>

\* query_index; by page it holds the reader up until the answer is there.
QueryIndex(r, byPage, page, refused) ==
    LET asked == [r EXCEPT !.query = @ + 1, !.asking = TRUE, !.queried = r.current,
                           !.lookup = byPage, !.busy = byPage,
                           !.waiting = IF byPage THEN FALSE ELSE @,
                           !.status = IF byPage THEN "loading" ELSE @]
        command == Command("query", r, [request |-> asked.query, page |-> page])
    IN IF r.indexed /\ ~ r.asking /\ r.submitted /\ Submits(command)
       THEN reader' = asked /\ commands' = Append(commands, command)
       ELSE reader' = refused /\ UNCHANGED commands

-----------------------------------------------------------------------------
(* The application: opening, closing, its update and the user's actions.   *)

\* on_open.  The launch names the media generation of the list it came from.
Open(b, g) ==
    /\ ~ reader.active
    /\ serial < MaxSession
    /\ LET fresh == [NoReader EXCEPT !.active = TRUE, !.id = serial + 1, !.book = b,
                               !.generation = g, !.mediaValid = TRUE,
                               !.contentReady = b \notin Epubs]
           begun == IF b \in Epubs THEN fresh ELSE StartPage(fresh, 0, "open")
           command == Command("open", fresh, Start)
       IN \/ /\ ~ Current(g)
             /\ reader' = CheckMedia(fresh) /\ UNCHANGED commands
          \/ /\ Current(g) /\ Submits(command)
             /\ reader' = [begun EXCEPT !.submitted = TRUE]
             /\ commands' = Append(commands, command)
          \/ /\ Current(g) /\ ~ Submits(command)
             /\ reader' = IF b \in Epubs THEN [begun EXCEPT !.status = "error"] ELSE begun
             /\ UNCHANGED commands
    /\ serial' = serial + 1
    /\ UNCHANGED <<card, reads, service>>

\* on_close: the page on the screen becomes the place to resume at.
Close ==
    /\ reader.active
    /\ LET command == Command("close", reader,
                              [page |-> reader.current, atCover |-> reader.showing])
       IN commands' = IF reader.valid /\ reader.submitted /\ Submits(command)
                      THEN Append(commands, command) ELSE commands
    /\ serial' = serial + 1 /\ reader' = NoReader
    /\ UNCHANGED <<card, reads, service>>

\* An answer of the index that does not come in time.
IndexTimeout(r, late) ==
    LET untimed == [r EXCEPT !.asking = FALSE, !.indexed = FALSE, !.placed = FALSE]
    IN IF ~ (r.asking /\ late) THEN r
       ELSE IF r.lookup THEN Fail([untimed EXCEPT !.lookup = FALSE]) ELSE untimed

\* Faulty variant: a block that does not come is waited for without end.
OnRunningPatient(queryLate, blockLate) ==
    /\ reader.active
    /\ LET r == IndexTimeout(CheckMedia(reader), queryLate)
           content == r.busy /\ ~ r.lookup
       IN \/ /\ content /\ ~ r.waiting
             /\ IF r.coverWaiting THEN RequestCover(r, r) /\ UNCHANGED reads
                ELSE RequestChunk(r)
          \/ /\ ~ (content /\ ~ r.waiting)
             /\ reader' = r /\ UNCHANGED <<reads, commands>>
    /\ UNCHANGED <<card, service, serial>>

\* on_running; queryLate and blockLate tell whether ten seconds have passed since the
\* query, or since the request for a block.
OnRunning(queryLate, blockLate) ==
    /\ reader.active
    /\ LET r == IndexTimeout(CheckMedia(reader), queryLate)
           content == r.busy /\ ~ r.lookup
           unplaced == r.indexed /\ ~ r.placed /\ ~ r.busy /\ ~ r.asking /\ r.valid
                       /\ r.status = "ready"
       IN \/ /\ content /\ r.waiting
             /\ reader' = IF blockLate THEN Fail(r) ELSE r
             /\ UNCHANGED <<reads, commands>>
          \/ /\ content /\ ~ r.waiting
             /\ IF r.coverWaiting THEN RequestCover(r, r) /\ UNCHANGED reads
                ELSE RequestChunk(r)
          \/ /\ unplaced
             /\ QueryIndex(r, FALSE, r.current, r) /\ UNCHANGED reads
          \/ /\ ~ content /\ ~ unplaced
             /\ reader' = r /\ UNCHANGED <<reads, commands>>
    /\ UNCHANGED <<card, service, serial>>

\* handle_action: paging waits for the page under way.
Paging ==
    /\ reader.active /\ ~ reader.busy /\ reader.status = "ready"
    /\ reader.request < MaxRequest
    /\ UNCHANGED <<card, service, serial>>

\* The index has placed the page on the screen, and no query is out.
Numbered(r) == r.indexed /\ r.placed

NextPage ==
    /\ Paging
    /\ LET r == CheckMedia(reader)
           turned == [r EXCEPT !.navigated = TRUE]
       IN reader' =
            IF ~ r.mediaValid THEN r
            ELSE IF r.showing THEN StartBody(turned, 0)
            ELSE IF EndOfFile(r) THEN r
            ELSE IF Numbered(r) /\ ~ r.asking /\ r.number + 1 < PageCount
                 THEN StartIndexedPage(turned, r.next, "next", r.number + 1)
                 ELSE StartPage(turned, r.next, "next")
    /\ UNCHANGED <<reads, commands>>

\* From the first page of the body back to the cover.
ShowCover(r) ==
    IF r.coverHeld
    THEN reader' = [r EXCEPT !.showing = TRUE] /\ UNCHANGED commands
    ELSE RequestCover([r EXCEPT !.coverParts = 0, !.coverWaiting = TRUE, !.busy = TRUE,
                                !.status = "loading"],
                      GiveUpCover(r))

PreviousPage ==
    /\ Paging
    /\ LET r == CheckMedia(reader)
           turned == [r EXCEPT !.navigated = TRUE]
           rebuilt == StartPage([turned EXCEPT !.target = r.current], 0, "rebuild_previous")
           previous == Last(r.history)
       IN \/ /\ ~ r.mediaValid \/ r.showing
                \/ (r.current = 0 /\ ~ (r.book \in Epubs /\ r.coverAvailable))
             /\ reader' = r /\ UNCHANGED commands
          \/ /\ r.mediaValid /\ ~ r.showing
             /\ r.current = 0 /\ r.book \in Epubs /\ r.coverAvailable
             /\ ShowCover(turned)
          \/ /\ r.mediaValid /\ ~ r.showing /\ r.current > 0 /\ r.history # <<>>
             /\ reader' = IF Numbered(r) /\ r.number > 0
                          THEN StartIndexedPage(turned, previous, "previous", r.number - 1)
                          ELSE StartPage(turned, previous, "previous")
             /\ UNCHANGED commands
          \/ /\ r.mediaValid /\ ~ r.showing /\ r.current > 0 /\ r.history = <<>>
             /\ IF Numbered(r) /\ ~ r.asking /\ r.number > 0
                THEN QueryIndex(turned, TRUE, r.number - 1, rebuilt)
                ELSE reader' = rebuilt /\ UNCHANGED commands
    /\ UNCHANGED reads

-----------------------------------------------------------------------------
(* Answers, as the dispatcher delivers them.                               *)

\* Faulty variant: any block of the session will do.
AwaitedBySession(r, b) == r.active /\ r.waiting /\ b.session = r.id

\* The block is the one the reader waits for.
Awaited(r, b) ==
    /\ r.active /\ r.waiting
    /\ b.session = r.id /\ b.request = r.request /\ b.generation = r.generation
    /\ b.at = r.requested

\* handle_result: a block of a TXT file.
DeliverBlock ==
    /\ reads # <<>>
    /\ LET b == Head(reads)
           answer == [session |-> b.session, request |-> b.arg.request,
                      generation |-> b.generation, at |-> b.arg.at]
           r == CheckMedia([reader EXCEPT !.waiting = FALSE])
       IN IF ~ (reader.book \notin Epubs /\ Awaited(reader, answer))
          THEN UNCHANGED reader
          ELSE \/ ~ r.mediaValid /\ reader' = r
               \/ r.mediaValid /\ reader' = Feed(r, <<b.book, b.arg.at>>)
               \/ r.mediaValid /\ Faults /\ reader' = Fail(r)
    /\ reads' = Tail(reads)
    /\ UNCHANGED <<card, commands, service, serial>>

\* The storage service has no slot for the result.
LoseBlock ==
    /\ reads # <<>>
    /\ reads' = Tail(reads)
    /\ UNCHANGED <<card, commands, service, serial, reader>>

\* A block of the cover; after the last one the picture is there, or cannot be used.
FeedCover(r) ==
    LET more == [r EXCEPT !.coverParts = @ + 1]
        shown == [more EXCEPT !.coverWaiting = FALSE, !.busy = FALSE, !.showing = TRUE,
                              !.coverHeld = TRUE, !.status = "ready"]
    IN \/ reader' = IF more.coverParts < CoverBlocks THEN more ELSE shown
       \/ reader' = GiveUpCover(r)

\* handle_book_result: a block of an EPUB's body or cover.
DeliverResult ==
    /\ results # <<>>
    /\ LET b == Head(results)
           r == CheckMedia([reader EXCEPT !.waiting = FALSE])
       IN IF ~ (reader.book \in Epubs /\ Awaited(reader, b))
          THEN UNCHANGED reader
          ELSE \/ ~ r.mediaValid /\ reader' = r
               \/ /\ r.mediaValid /\ b.block = None
                  /\ reader' = IF r.coverWaiting THEN GiveUpCover(r) ELSE Fail(r)
               \/ /\ r.mediaValid /\ b.block # None
                  /\ IF r.coverWaiting THEN FeedCover(r) ELSE reader' = Feed(r, b.block)
    /\ results' = Tail(results)
    /\ UNCHANGED <<card, reads, commands, server, saved, events, serial>>

\* opened: the saved place is there, and for an EPUB its text.
Opened(r, e) ==
    LET ready == [r EXCEPT !.contentReady = TRUE, !.coverAvailable = e.book \in Covered]
        cover == [ready EXCEPT !.coverParts = 0, !.coverWaiting = TRUE, !.busy = TRUE,
                               !.status = "loading"]
    IN IF ~ e.contentReady THEN reader' = r /\ UNCHANGED commands
       ELSE IF ~ r.navigated /\ e.atCover /\ ready.coverAvailable
            THEN RequestCover(cover, GiveUpCover(cover))
       ELSE /\ reader' =
                 IF ~ r.navigated /\ e.page > 0
                 THEN StartBody([ready EXCEPT !.history = <<>>], e.page)
                 ELSE IF r.book \in Epubs /\ ~ r.valid /\ ~ r.busy
                      THEN StartBody(ready, e.page) ELSE ready
            /\ UNCHANGED commands

\* Faulty variant: the first page counts as the one the session resumed at.
ReadyUnmoved(r, e) ==
    [r EXCEPT !.indexed = e.indexed, !.placed = e.indexed, !.number = r.current]

\* ready: the index is complete, and numbers the page the session resumed at.
Ready(r, e) ==
    LET counted == [r EXCEPT !.indexed = e.indexed]
    IN IF ~ e.indexed \/ r.navigated \/ r.showing \/ r.coverWaiting THEN counted
       ELSE IF r.valid /\ ~ r.busy /\ r.current = e.page
            THEN [counted EXCEPT !.number = e.page, !.placed = TRUE, !.goal = None]
       ELSE StartPage([counted EXCEPT !.history = <<>>,
                                      !.goal = [page |-> e.page, number |-> e.page]],
                      e.page, "open")

\* Faulty variant: an answer is applied wherever the reader has gone since it asked.
PositionAnywhere(r, e) ==
    LET answered == [r EXCEPT !.asking = FALSE, !.lookup = FALSE]
        goal == [page |-> e.page, number |-> e.page]
    IN IF ~ (r.asking /\ e.request = r.query) THEN r
       ELSE IF ~ e.indexed THEN [answered EXCEPT !.indexed = FALSE]
       ELSE StartPage([answered EXCEPT !.goal = goal], e.page,
                      IF r.lookup THEN "previous" ELSE "open")

\* position: the answer to a query, by page or by offset.
Position(r, e) ==
    LET answered == [r EXCEPT !.asking = FALSE, !.lookup = FALSE]
        goal == [page |-> e.page, number |-> e.page]
        lost == [answered EXCEPT !.indexed = FALSE, !.placed = FALSE]
    IN IF ~ (r.asking /\ e.request = r.query) THEN r
       ELSE IF ~ e.indexed THEN (IF r.lookup THEN Fail(lost) ELSE lost)
       ELSE IF r.lookup THEN StartPage([answered EXCEPT !.goal = goal], e.page, "previous")
       ELSE IF r.busy \/ r.queried # r.current \/ r.status # "ready" THEN answered
       ELSE IF r.current = e.page
            THEN [answered EXCEPT !.number = e.page, !.placed = TRUE, !.goal = None]
       ELSE StartPage([answered EXCEPT !.history = <<>>, !.goal = goal], e.page, "open")

IndexError(r) ==
    LET lost == [r EXCEPT !.indexed = FALSE, !.placed = FALSE, !.asking = FALSE]
    IN IF (r.book \in Epubs /\ ~ r.contentReady) \/ r.lookup THEN Fail(lost) ELSE lost

\* handle_book_event.
TakeEvent ==
    /\ events # <<>>
    /\ LET e == Head(events)
           r == CheckMedia(reader)
           mine == reader.active /\ reader.submitted /\ e.session = reader.id
                   /\ e.generation = reader.generation
       IN \/ ~ mine /\ UNCHANGED <<reader, commands>>
          \/ mine /\ ~ r.mediaValid /\ reader' = r /\ UNCHANGED commands
          \/ mine /\ r.mediaValid /\ e.type = "opened" /\ Opened(r, e)
          \/ /\ mine /\ r.mediaValid /\ e.type # "opened"
             /\ reader' = CASE e.type = "ready" -> Ready(r, e)
                            [] e.type = "position" -> Position(r, e)
                            [] e.type = "error" -> IndexError(r)
                            [] OTHER -> r
             /\ UNCHANGED commands
    /\ events' = Tail(events)
    /\ UNCHANGED <<card, reads, server, saved, results, serial>>

-----------------------------------------------------------------------------
(* The book worker.  The cache and the index engines are told by phase: an  *)
(* EPUB is "parsing" until its text is cached; then, as for a TXT file, the *)
(* index is "building" and ends "ready" or "failed".  Whether the cache     *)
(* found on the card is good is left open.                                  *)

Event(type, s, request, page, error) ==
    [type |-> type, session |-> s.session, request |-> request,
     generation |-> s.generation, page |-> page, book |-> s.book,
     indexed |-> s.phase = "ready" /\ ~ error,
     contentReady |-> s.book \notin Epubs \/ s.cached,
     atCover |-> s.book \in Epubs /\ s.place.atCover]

\* publish_event: after a send that timed out the oldest event makes room, although
\* the app may have taken some of the events since.
Publish(e) ==
    \/ Len(events) < EventLength /\ events' = Append(events, e)
    \/ events # <<>> /\ events' = Append(Tail(events), e)

Reachable == Current(server.generation)

Indexing == server.phase \in {"building", "ready"}

\* A call to the card fails: when the card is not there it must.
MayFail(s) == Faults \/ ~ Current(s.generation)

EngineFails(s, page) ==
    /\ MayFail(s)
    /\ server' = [s EXCEPT !.phase = "failed"]
    /\ Publish(Event("error", s, 0, page, TRUE))

\* The engine opens a text that is there: the saved place is read.
OpenText(s) ==
    LET opened == [s EXCEPT !.phase = "building"]
    IN \/ /\ Current(s.generation)
          /\ server' = opened
          /\ Publish(Event("opened", opened, 0, s.place.page, FALSE))
       \/ EngineFails(s, 0)

\* open_book: whatever the worker was doing is cancelled.
OpenBook(command) ==
    LET place == saved[command.book]
        s == [session |-> command.session, generation |-> command.generation,
              book |-> command.book, phase |-> "idle", cached |-> FALSE,
              place |-> place, position |-> place.page]
        parsing == [s EXCEPT !.phase = "parsing"]
    IN \/ OpenText([s EXCEPT !.cached = command.book \in Epubs])
       \/ /\ command.book \in Epubs
          /\ \/ /\ server' = parsing
                /\ Publish(Event("opened", parsing, 0, 0, FALSE))
             \/ /\ server' = s
                /\ Publish(Event("error", s, 0, 0, TRUE))

\* query: an index that is not ready answers without a page.
Query(command) ==
    IF command.session # server.session THEN UNCHANGED <<server, events>>
    ELSE \/ /\ server' = server
            /\ Publish(Event("position", server, command.arg.request, command.arg.page, FALSE))
         \/ server.phase = "ready" /\ EngineFails(server, 0)

\* read_content: without a slot the request is dropped.
ReadContent(command) ==
    LET answer == [session |-> command.session, request |-> command.arg.request,
                   generation |-> command.generation, at |-> command.arg.at,
                   block |-> <<server.book, command.arg.at>>]
        error == [answer EXCEPT !.block = None]
        served == command.session = server.session /\ server.cached
    IN IF Len(results) = ResultLength THEN UNCHANGED results
       ELSE \/ served /\ results' = Append(results, answer)
            \/ (~ served \/ Faults) /\ results' = Append(results, error)

\* What the cache's metadata keep of an EPUB: the cover flag, and an offset that
\* counts where the index has left no metadata.
CacheSaved(command) ==
    {[saved EXCEPT ![server.book] = [page |-> page, atCover |-> command.arg.atCover]] :
        page \in {saved[server.book].page, command.arg.page}}

\* close: the cache saves, then the index; neither waits for the other's success.
\* What they report finds no session: the reader has closed.
Save(command) ==
    IF command.session # server.session THEN UNCHANGED <<server, saved>>
    ELSE \E kept \in (IF server.cached THEN CacheSaved(command) ELSE {})
                     \cup (IF Faults \/ ~ server.cached THEN {saved} ELSE {}) :
           \/ /\ Indexing
              /\ saved' = [kept EXCEPT ![server.book].page = command.arg.page]
              /\ server' = [server EXCEPT !.position = command.arg.page]
           \/ /\ Indexing /\ Faults
              /\ saved' = kept /\ server' = [server EXCEPT !.phase = "failed"]
           \/ ~ Indexing /\ saved' = kept /\ UNCHANGED server

\* worker: one command; one of another card is not carried out.
TakeCommand ==
    /\ commands # <<>>
    /\ LET command == Head(commands)
       IN \/ /\ ~ Current(command.generation)
             /\ UNCHANGED service
          \/ /\ Current(command.generation)
             /\ \/ command.type = "open" /\ OpenBook(command) /\ UNCHANGED <<saved, results>>
                \/ command.type = "query" /\ Query(command) /\ UNCHANGED <<saved, results>>
                \/ command.type = "read" /\ ReadContent(command)
                   /\ UNCHANGED <<server, saved, events>>
                \/ command.type = "close" /\ Save(command) /\ UNCHANGED <<events, results>>
    /\ commands' = Tail(commands)
    /\ UNCHANGED <<card, reads, serial, reader>>

\* finalize: a new cache begins at the cover if there is one, at page 0 if not,
\* whatever place was kept; the index keeps the old page until it is rebuilt.
FinishCache ==
    LET first == [page |-> 0, atCover |-> server.book \in Covered]
    IN /\ server.phase = "parsing" /\ Reachable
       /\ OpenText([server EXCEPT !.cached = TRUE, !.place = first, !.position = 0])
       /\ saved' = [saved EXCEPT ![server.book].atCover = first.atCover]

\* Without the card the cache goes on failing, until another book is opened.
CacheFails ==
    /\ server.phase = "parsing"
    /\ server' = IF Reachable THEN [server EXCEPT !.phase = "idle"] ELSE server
    /\ Publish(Event("error", server, 0, 0, TRUE))
    /\ UNCHANGED saved

FinishIndex ==
    /\ server.phase = "building" /\ Reachable
    /\ server' = [server EXCEPT !.phase = "ready"]
    /\ saved' = [saved EXCEPT ![server.book].page = server.position]
    /\ Publish(Event("ready", server', 0, server.place.page, FALSE))

\* step, of the cache or of the index, which ends or fails it.
Step ==
    /\ \/ FinishCache \/ CacheFails \/ FinishIndex
       \/ /\ server.phase = "building" /\ EngineFails(server, server.place.page)
          /\ UNCHANGED saved
    /\ UNCHANGED <<card, reads, commands, results, serial, reader>>

-----------------------------------------------------------------------------
User == NextPage \/ PreviousPage

Dispatcher == DeliverBlock \/ DeliverResult \/ TakeEvent

Worker == TakeCommand \/ Step

Next ==
    \/ MoveCard
    \/ \E b \in Books, g \in 0 .. generation : Open(b, g)
    \/ Close \/ User
    \/ \E queryLate, blockLate \in BOOLEAN : OnRunning(queryLate, blockLate)
    \/ Dispatcher \/ LoseBlock \/ Worker

Spec == Init /\ [][Next]_vars

\* The system loop goes on, and with it the clock; the workers go on.
FairSpec ==
    /\ Spec
    /\ WF_vars(OnRunning(FALSE, FALSE))
    /\ WF_vars(OnRunning(TRUE, FALSE)) /\ WF_vars(OnRunning(FALSE, TRUE))
    /\ WF_vars(Dispatcher) /\ WF_vars(TakeCommand) /\ WF_vars(Step)

-----------------------------------------------------------------------------
(* Properties.                                                             *)

TypeOK ==
    /\ inserted \in BOOLEAN /\ generation \in 0 .. MaxGeneration
    /\ Len(reads) <= ReadLength /\ Len(commands) <= CommandLength
    /\ Len(events) <= EventLength /\ Len(results) <= ResultLength
    /\ server.phase \in {"idle", "parsing", "building", "ready", "failed"}
    /\ saved \in [Books -> [page : PageStarts, atCover : BOOLEAN]]
    /\ serial \in 0 .. MaxSession + 1
    /\ reader.status \in {"loading", "ready", "error"}
    /\ reader.op \in {"open", "next", "previous", "rebuild_previous"}
    /\ {reader.start, reader.current, reader.number, reader.target} \subseteq PageStarts
    /\ reader.next \in 0 .. PageCount
    /\ Len(reader.history) <= HistoryLength
    /\ Len(reader.text) <= PageBlocks /\ reader.coverParts <= CoverBlocks

\* The text of a page is made of that page's blocks of this session's book, in
\* order, however many requests were overtaken by a later one, and the number in the
\* status bar is that of the page on the screen (handle_result, complete_page).
PageText ==
    /\ \A i \in DOMAIN reader.text :
          reader.text[i] = <<reader.book, <<"text", reader.start, i>>>>
    /\ Numbered(reader) /\ reader.valid /\ ~ reader.showing /\ reader.status = "ready"
          => reader.number = reader.current

\* A page on the way back is one the user came by: the history leads from the
\* page on the screen page by page.
HistoryLeadsBack ==
    reader.active /\ ~ reader.busy /\ reader.status = "ready" =>
        \A i \in DOMAIN reader.history :
            reader.history[i] + (Len(reader.history) - i) + 1 = reader.current

\* Once the user has turned a page, the page on the screen changes by one page at a
\* time, in the direction asked for: nothing the worker finds moves the view.
TurnsOnePage ==
    [][reader.active /\ reader'.active /\ reader.navigated /\ reader'.current # reader.current
        => reader'.current = IF reader.op = "next" THEN reader.current + 1
                             ELSE reader.current - 1]_vars

\* A reader who has turned no page is where the book was left: at the cover only if
\* it was left there, else, once the index has placed it, at the saved page.
PlaceRestored ==
    reader.active /\ ~ reader.navigated /\ reader.status = "ready" =>
        IF reader.showing THEN server.place.atCover
        ELSE Numbered(reader) /\ ~ server.place.atCover => reader.current = server.place.page

\* A page or an error is shown in the end, whatever was lost on the way.
LoadingEnds ==
    (reader.active /\ reader.status = "loading")
        ~> (~ reader.active \/ reader.status # "loading")
=============================================================================
