------------------------------ MODULE CoverStore ------------------------------
(***************************************************************************)
(* The compressed covers in external memory: those of the shelf's page     *)
(* (src/ui/paper_mono/books_cover.cpp) and the one of the book being read  *)
(* (reader_cover.cpp).  The apps, on the main loop, read a cover in blocks *)
(* into a buffer and commit it under a new generation; the renderer task   *)
(* draws frames that may be older than the covers, and holds a lease on a  *)
(* buffer while it decodes it.                                             *)
(*                                                                         *)
(* A store's critical sections of one handler are one step: the renderer   *)
(* cannot reach a buffer that is being built, and what it may do between   *)
(* them, acquire an active cover or release a retired one, it may as well  *)
(* do before or after the handler.                                         *)
(***************************************************************************)
EXTENDS Naturals, Sequences

CONSTANTS
    ShelfPages,    \* pages of the shelf; 0 is a shelf without items
    ShelfSlots,    \* positions on a page, every one a book with a cover
    BookCovers,    \* covers of the books that Reader opens,
    BrokenCovers,  \* those whose header no decoder would take
    Blocks,        \* of a cover
    Buffers,       \* that the heap could give out
    NoBuffer,
    GivenUp,       \* UINT32_MAX, a generation that no cover reaches
    MaxReads,      \* bound: blocks that Books asks for
    ReadQueueLength,
    MaxBooks       \* bound: books opened

ASSUME CoverAssumption ==
    /\ ShelfPages \subseteq Nat \ {0} /\ ShelfSlots \subseteq Nat
    /\ Blocks \in Nat \ {0} /\ NoBuffer \notin Buffers
    /\ MaxReads \in Nat /\ GivenUp \in Nat /\ MaxReads < GivenUp

VARIABLES
    heap,         \* the buffers given out, each with the blocks copied into it
    shelf,        \* books_cover.cpp: slots, and the title of each generation so far
    books,        \* books_app: page_index_, cover_generations_, cover_request_
    reads,        \* its blocks the storage worker has still to answer for
    cover,        \* reader_cover.cpp: slots, active_slot, building_slot, titles
    novel,        \* reader_app's state_.cover and the book; books opened so far
    lease         \* what the renderer is drawing

coverVars == <<heap, shelf, books, reads, cover, novel, lease>>

NoLease == [store |-> "none", slot |-> 0, data |-> NoBuffer, generation |-> 0]
NoCoverRequest == [busy |-> FALSE, slot |-> 0, started |-> FALSE, offset |-> 0]
EmptyShelfSlot == [active |-> NoBuffer, generation |-> 0, references |-> 0,
                   retired |-> FALSE, building |-> NoBuffer, used |-> 0]
EmptyCoverSlot == [data |-> NoBuffer, used |-> 0, generation |-> 0, references |-> 0,
                   retired |-> FALSE]
NoNovel == [open |-> FALSE, title |-> 0, waiting |-> FALSE, started |-> FALSE,
            generation |-> 0, opened |-> 0]

CoverTypeOK ==
    /\ DOMAIN heap \subseteq Buffers
    /\ DOMAIN shelf.slots = ShelfSlots /\ DOMAIN cover.slots = {1, 2}
    /\ books.page \in ShelfPages \cup {0} /\ books.lastRead \in 0 .. MaxReads
    /\ Len(reads) <= ReadQueueLength
    /\ cover.active \in 0 .. 2 /\ cover.building \in 0 .. 2
    /\ lease.store \in {"none", "books", "reader"}

CoversInit ==
    /\ heap = [b \in {} |-> <<>>]
    /\ shelf = [slots |-> [s \in ShelfSlots |-> EmptyShelfSlot], titles |-> <<>>]
    /\ books = [page |-> 0, generations |-> [s \in ShelfSlots |-> 0],
                request |-> NoCoverRequest, lastRead |-> 0]
    /\ reads = <<>>
    /\ cover = [slots |-> [i \in {1, 2} |-> EmptyCoverSlot], active |-> 0,
                building |-> 0, titles |-> <<>>]
    /\ novel = NoNovel
    /\ lease = NoLease
-----------------------------------------------------------------------------
Without(buffers, given) == [b \in DOMAIN given \ buffers |-> given[b]]
\* heap_caps_malloc
HasRoom(given) == Buffers \ DOMAIN given # {}
Allocated(given) == CHOOSE b \in Buffers : b \notin DOMAIN given
With(b, given) == [a \in DOMAIN given \cup {b} |-> IF a = b THEN <<>> ELSE given[a]]

\* The operations work on a record m of the heap and one of the two stores.
ShelfMemory == [heap |-> heap, store |-> shelf]
CoverMemory == [heap |-> heap, store |-> cover]

\* ui_books_cover_cancel
CancelShelf(m, s) ==
    [heap |-> Without({m.store.slots[s].building}, m.heap),
     store |-> [m.store EXCEPT !.slots[s].building = NoBuffer, !.slots[s].used = 0]]

\* ui_books_cover_begin, when there is memory
BeginShelf(m, s) ==
    LET c == CancelShelf(m, s)
        b == Allocated(c.heap)
    IN  [heap |-> With(b, c.heap),
         store |-> [c.store EXCEPT !.slots[s].building = b, !.slots[s].used = 0]]

\* ui_books_cover_append, of the block that fits
AppendShelf(m, s, block) ==
    [heap |-> [m.heap EXCEPT ![m.store.slots[s].building] = Append(@, block)],
     store |-> [m.store EXCEPT !.slots[s].used = @ + 1]]
ShelfTakes(m, s, offset) ==
    LET slot == m.store.slots[s]
    IN  slot.building # NoBuffer /\ offset = slot.used /\ slot.used < Blocks

\* Faulty variant: a cover is committed over one that is being drawn.
CommitsAnyway(slot) == slot.building # NoBuffer /\ slot.used = Blocks

MayCommit(slot) ==
    slot.building # NoBuffer /\ slot.used = Blocks /\ slot.references = 0

\* ui_books_cover_commit; title is the cover that was asked for.
CommitShelf(m, s, title) ==
    LET slot == m.store.slots[s]
        titles == Append(m.store.titles, title)
    IN  IF MayCommit(slot)
        THEN [heap |-> Without({slot.active}, m.heap),
              store |-> [slots |-> [m.store.slots EXCEPT
                             ![s] = [EmptyShelfSlot EXCEPT !.active = slot.building,
                                        !.generation = Len(titles),
                                        !.references = slot.references]],
                         titles |-> titles]]
        ELSE CancelShelf(m, s)

\* ui_books_cover_clear: what is being drawn is left to its release.
ClearShelf(m) ==
    LET held == {s \in ShelfSlots : m.store.slots[s].references # 0}
    IN  [heap |-> Without({m.store.slots[s].building : s \in ShelfSlots}
                          \cup {m.store.slots[s].active : s \in ShelfSlots \ held}, m.heap),
         store |-> [m.store EXCEPT !.slots = [s \in ShelfSlots |->
             IF s \notin held THEN EmptyShelfSlot
             ELSE [@[s] EXCEPT !.retired = TRUE, !.building = NoBuffer, !.used = 0]]]]

SetShelf(m) == heap' = m.heap /\ shelf' = m.store
-----------------------------------------------------------------------------
\* start_next_cover: slots whose read is refused are given up, until one is
\* accepted; nothing happens while storage is not ready (or the bound is reached).
Wanted(b) == {s \in ShelfSlots : b.page # 0 /\ b.generations[s] = 0}
Asked(b, slot, started, offset) ==
    [b EXCEPT !.lastRead = @ + 1,
              !.request = [busy |-> TRUE, slot |-> slot, started |-> started,
                           offset |-> offset]]
BlockAsked(b) ==
    [id |-> b.lastRead, title |-> <<b.page, b.request.slot>>, offset |-> b.request.offset]
MayAsk(b, queue) == b.lastRead < MaxReads /\ Len(queue) < ReadQueueLength

StartNextCover(b, queue) ==
    \/ books' = b /\ reads' = queue
    \/ /\ ~ b.request.busy /\ Wanted(b) # {}
       /\ \E refused \in SUBSET Wanted(b) :
            LET left == Wanted(b) \ refused
                given == [b EXCEPT !.generations =
                             [s \in ShelfSlots |-> IF s \in refused THEN GivenUp ELSE @[s]]]
            IN  /\ \A s \in refused, t \in left : s < t
                /\ \/ left = {} /\ books' = given /\ reads' = queue
                   \/ \E next \in left :
                        /\ \A t \in left : next <= t
                        /\ MayAsk(given, queue)
                        /\ books' = Asked(given, next, FALSE, 0)
                        /\ reads' = Append(queue, BlockAsked(books'))

\* cancel_cover_request: the session moves on, so no answer under way is taken.
CancelledRequest(m, b) ==
    IF b.request.started THEN CancelShelf(m, b.request.slot) ELSE m

\* load_page(true), and the arrival of a card: the page is shown without covers,
\* which are then asked for.
LoadPage ==
    /\ ~ novel.open
    /\ \E p \in ShelfPages \cup {0} :
          /\ SetShelf(ClearShelf(CancelledRequest(ShelfMemory, books)))
          /\ StartNextCover([books EXCEPT !.page = p, !.request = NoCoverRequest,
                                          !.generations = [s \in ShelfSlots |-> 0]], reads)
    /\ UNCHANGED <<cover, novel, lease>>

\* handle_storage_status when the card is lost: the request is left as it is.
LoseCard ==
    /\ ~ novel.open /\ books.page # 0
    /\ SetShelf(ClearShelf(ShelfMemory)) /\ books' = [books EXCEPT !.page = 0]
    /\ UNCHANGED <<reads, cover, novel, lease>>

\* on_running
LookForCover ==
    /\ ~ novel.open /\ ~ books.request.busy
    /\ StartNextCover(books, reads)
    /\ UNCHANGED <<heap, shelf, cover, novel, lease>>

\* An answer for an earlier request, or for nobody.
DropBlock ==
    /\ reads # <<>>
    /\ novel.open \/ ~ books.request.busy \/ Head(reads).id # books.lastRead
    /\ reads' = Tail(reads)
    /\ UNCHANGED <<heap, shelf, books, cover, novel, lease>>

Answered ==
    reads # <<>> /\ ~ novel.open /\ books.request.busy /\ Head(reads).id = books.lastRead
GiveUp(m, s) ==
    /\ SetShelf(CancelShelf(m, s))
    /\ StartNextCover([books EXCEPT !.generations[s] = GivenUp,
                                    !.request = NoCoverRequest], Tail(reads))

\* handle_storage_result: the read has failed, the file has another size or there is
\* no memory,
BlockFails ==
    /\ Answered /\ GiveUp(ShelfMemory, books.request.slot)
    /\ UNCHANGED <<cover, novel, lease>>

\* or the block is taken; a shelf without items has no encoding to begin with,
\* and a full heap no buffer.
TakeBlock ==
    /\ Answered
    /\ LET r == books.request
           begun == IF r.started THEN ShelfMemory ELSE BeginShelf(ShelfMemory, r.slot)
           title == Head(reads).title
           taken == AppendShelf(begun, r.slot, [title |-> title, offset |-> r.offset])
           done == CommitShelf(taken, r.slot, title)
           generation == IF done.store.titles = shelf.titles THEN GivenUp
                         ELSE Len(done.store.titles)
           begins == \/ r.started
                     \/ books.page # 0 /\ HasRoom(CancelShelf(ShelfMemory, r.slot).heap)
       IN  IF ~ begins \/ ~ ShelfTakes(begun, r.slot, r.offset)
           THEN GiveUp(ShelfMemory, r.slot)
           ELSE IF r.offset + 1 = Blocks
           THEN /\ SetShelf(done)
                /\ StartNextCover([books EXCEPT !.generations[r.slot] = generation,
                                                !.request = NoCoverRequest], Tail(reads))
           ELSE \/ /\ MayAsk(books, Tail(reads)) /\ SetShelf(taken)
                   /\ books' = Asked(books, r.slot, TRUE, r.offset + 1)
                   /\ reads' = Append(Tail(reads),
                                      [BlockAsked(books') EXCEPT !.title = title])
                \/ GiveUp(taken, r.slot)
    /\ UNCHANGED <<cover, novel, lease>>
-----------------------------------------------------------------------------
\* ui_reader_cover_cancel
CancelCover(m) ==
    IF m.store.building = 0 THEN m
    ELSE [heap |-> Without({m.store.slots[m.store.building].data}, m.heap),
          store |-> [m.store EXCEPT !.slots[m.store.building] = EmptyCoverSlot,
                                    !.building = 0]]

\* ui_reader_cover_begin: a slot that is neither shown nor drawn gives up its cover.
FreeCoverSlots(store) ==
    {i \in DOMAIN store.slots : i # store.active /\ store.slots[i].references = 0}
SlotForCover(store) ==
    CHOOSE k \in FreeCoverSlots(store) : \A j \in FreeCoverSlots(store) : k <= j
HeapForCover(c) == Without({c.store.slots[SlotForCover(c.store)].data}, c.heap)
BeginCover(m) ==
    LET c == CancelCover(m)
        i == SlotForCover(c.store)
        given == HeapForCover(c)
        b == Allocated(given)
    IN  [heap |-> With(b, given),
         store |-> [c.store EXCEPT !.building = i,
                                   !.slots[i] = [EmptyCoverSlot EXCEPT !.data = b]]]

\* A begin that finds no memory has given up the slot's cover before.
EvictCover(m) ==
    [heap |-> HeapForCover(m),
     store |-> [m.store EXCEPT !.slots[SlotForCover(m.store)] = EmptyCoverSlot]]

\* ui_reader_cover_append
AppendCover(m, title) ==
    LET i == m.store.building
    IN  [heap |-> [m.heap EXCEPT ![m.store.slots[i].data] =
                      Append(@, [title |-> title, offset |-> m.store.slots[i].used])],
         store |-> [m.store EXCEPT !.slots[i].used = @ + 1]]

\* image_valid
ImageValid(slot, title) == slot.used = Blocks /\ title \notin BrokenCovers

\* ui_reader_cover_commit
CommitCover(m, title) ==
    IF ~ ImageValid(m.store.slots[m.store.building], title) THEN CancelCover(m)
    ELSE [heap |-> m.heap,
          store |-> [m.store EXCEPT !.titles = Append(@, title),
                        !.active = m.store.building, !.building = 0,
                        !.slots[m.store.building].generation = Len(m.store.titles) + 1]]

\* ui_reader_cover_clear
ClearCover(m) ==
    LET c == CancelCover(m)
        held == {i \in {1, 2} : c.store.slots[i].references # 0}
    IN  [heap |-> Without({c.store.slots[i].data : i \in {1, 2} \ held}, c.heap),
         store |-> [c.store EXCEPT !.active = 0, !.slots = [i \in {1, 2} |->
             IF i \in held THEN [@[i] EXCEPT !.retired = TRUE] ELSE EmptyCoverSlot]]]

SetCover(m) == heap' = m.heap /\ cover' = m.store

\* Books is closed and Reader opened (both on_close and on_open).
OpenNovel ==
    /\ ~ novel.open /\ novel.opened < MaxBooks
    /\ \E title \in BookCovers :
        LET m == CancelledRequest(ShelfMemory, books)
            c == ClearCover([heap |-> m.heap, store |-> cover])
        IN  /\ heap' = c.heap /\ shelf' = m.store /\ cover' = c.store
            /\ novel' = [NoNovel EXCEPT !.open = TRUE, !.title = title,
                                       !.opened = novel.opened + 1]
    /\ books' = [books EXCEPT !.request = NoCoverRequest]
    /\ UNCHANGED <<reads, lease>>

\* The book is open and has a cover, or its first page is left backwards.
AskCover ==
    /\ novel.open /\ ~ novel.waiting /\ novel.generation = 0
    /\ novel' = [novel EXCEPT !.waiting = TRUE, !.started = FALSE]
    /\ UNCHANGED <<heap, shelf, books, reads, cover, lease>>

\* handle_book_result: a failed block ends the cover, as does a lack of memory,
CoverBlockFails ==
    /\ novel.waiting /\ novel' = [novel EXCEPT !.waiting = FALSE]
    /\ \/ SetCover(CancelCover(CoverMemory))
       \/ ~ novel.started /\ SetCover(EvictCover(CancelCover(CoverMemory)))
    /\ UNCHANGED <<shelf, books, reads, lease>>

\* and the last one commits it.
TakeCoverBlock ==
    /\ novel.waiting
    /\ novel.started \/ HasRoom(HeapForCover(CancelCover(CoverMemory)))
    /\ LET begun == IF novel.started THEN CoverMemory ELSE BeginCover(CoverMemory)
           taken == AppendCover(begun, novel.title)
           done == CommitCover(taken, novel.title)
       IN  IF taken.store.slots[taken.store.building].used < Blocks
           THEN SetCover(taken) /\ novel' = [novel EXCEPT !.started = TRUE]
           ELSE /\ SetCover(done)
                /\ novel' = [novel EXCEPT !.started = TRUE, !.waiting = FALSE,
                       !.generation = IF done.store.titles = cover.titles THEN 0
                                      ELSE Len(done.store.titles)]
    /\ UNCHANGED <<shelf, books, reads, lease>>

\* Reader is closed and Books opened again, with the page it had.
CloseNovel ==
    /\ novel.open /\ SetCover(ClearCover(CoverMemory))
    /\ novel' = [NoNovel EXCEPT !.opened = novel.opened]
    /\ StartNextCover(books, reads)
    /\ UNCHANGED <<shelf, lease>>
-----------------------------------------------------------------------------
\* ui_books_cover_acquire and ui_reader_cover_acquire
ShelfLeased(slot, g) == ~ slot.retired /\ slot.active # NoBuffer /\ slot.generation = g
CoverLeased(slot, g) == slot.generation = g /\ slot.data # NoBuffer

\* draw_books_item: a frame holds the generation its item had when it was submitted;
\* without a lease a placeholder is drawn.
DrawShelf ==
    /\ lease = NoLease
    /\ \E g \in DOMAIN shelf.titles :
        LET s == shelf.titles[g][2]
            slot == shelf.slots[s]
        IN  /\ ShelfLeased(slot, g)
            /\ shelf' = [shelf EXCEPT !.slots[s].references = @ + 1]
            /\ lease' = [store |-> "books", slot |-> s, data |-> slot.active,
                         generation |-> g]
    /\ UNCHANGED <<heap, books, reads, cover, novel>>

\* draw_reader_view
DrawCover ==
    /\ lease = NoLease /\ cover.active # 0
    /\ \E g \in DOMAIN cover.titles :
        LET slot == cover.slots[cover.active]
        IN  /\ CoverLeased(slot, g)
            /\ cover' = [cover EXCEPT !.slots[cover.active].references = @ + 1]
            /\ lease' = [store |-> "reader", slot |-> cover.active, data |-> slot.data,
                         generation |-> g]
    /\ UNCHANGED <<heap, shelf, books, reads, novel>>

\* ui_books_cover_release
ReleaseShelf ==
    /\ lease.store = "books" /\ lease' = NoLease
    /\ LET slot == shelf.slots[lease.slot]
           last == slot.references = 1 /\ slot.retired
       IN  IF slot.active = lease.data /\ slot.generation = lease.generation
                /\ slot.references # 0
           THEN /\ heap' = IF last THEN Without({slot.active}, heap) ELSE heap
                /\ shelf' = [shelf EXCEPT !.slots[lease.slot] =
                       IF last THEN [EmptyShelfSlot EXCEPT !.building = slot.building,
                                                           !.used = slot.used]
                       ELSE [slot EXCEPT !.references = @ - 1]]
           ELSE UNCHANGED <<heap, shelf>>
    /\ UNCHANGED <<books, reads, cover, novel>>

\* ui_reader_cover_release
ReleaseCover ==
    /\ lease.store = "reader" /\ lease' = NoLease
    /\ LET slot == cover.slots[lease.slot]
           last == slot.references = 1 /\ slot.retired
       IN  IF slot.data = lease.data /\ slot.generation = lease.generation
                /\ slot.references # 0
           THEN /\ heap' = IF last THEN Without({slot.data}, heap) ELSE heap
                /\ cover' = [cover EXCEPT !.slots[lease.slot] =
                       IF last THEN EmptyCoverSlot ELSE [slot EXCEPT !.references = @ - 1]]
           ELSE UNCHANGED <<heap, cover>>
    /\ UNCHANGED <<shelf, books, reads, novel>>

AppActs ==
    \/ LoadPage \/ LoseCard \/ LookForCover \/ DropBlock \/ BlockFails \/ TakeBlock
    \/ OpenNovel \/ AskCover \/ CoverBlockFails \/ TakeCoverBlock \/ CloseNovel
RendererDraws == DrawShelf \/ DrawCover \/ ReleaseShelf \/ ReleaseCover

CoversNext == AppActs \/ RendererDraws

CoversSpec == CoversInit /\ [][CoversNext]_coverVars
-----------------------------------------------------------------------------
Whole(title) == [i \in 1 .. Blocks |-> [title |-> title, offset |-> i - 1]]
ShelfBuffers(f) == {shelf.slots[s][f] : s \in ShelfSlots} \ {NoBuffer}
ReaderBuffers == {cover.slots[i].data : i \in {1, 2}} \ {NoBuffer}

\* What the renderer decodes is, until it lets go of it, the whole cover of the
\* generation its frame holds, whatever the apps clear, build and commit meanwhile
\* (ui_books_cover_acquire, ui_reader_cover_acquire).
LeaseKept ==
    lease # NoLease =>
        /\ lease.data \in DOMAIN heap
        /\ heap[lease.data] = Whole(
               IF lease.store = "books" THEN shelf.titles[lease.generation]
               ELSE cover.titles[lease.generation])

\* No buffer is lost: each one given out is in a slot.
NoneLost ==
    DOMAIN heap = ShelfBuffers("active") \cup ShelfBuffers("building") \cup ReaderBuffers

\* A position on the shelf shows the cover of the item it has now.
CoverOfItem ==
    \A s \in ShelfSlots : books.generations[s] \in DOMAIN shelf.titles =>
        books.page = 0 \/ shelf.titles[books.generations[s]] = <<books.page, s>>

\* Reader finds a slot for a new cover though the renderer may still draw the last one.
CoverHasSlot == novel.waiting /\ ~ novel.started => FreeCoverSlots(cover) # {}

CoversKept == LeaseKept /\ NoneLost /\ CoverOfItem /\ CoverHasSlot
=============================================================================
