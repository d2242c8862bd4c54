------------------------- MODULE ReaderSessionProofs -------------------------
(***************************************************************************)
(* What a reading session shows, for any books, pages, blocks and queues.  *)
(* The reader alone: the blocks of a page are asked for one by one, and    *)
(* the history leads back from the page on the screen or from the one      *)
(* under way (Laid, WayBack).  With its messages: what carries the         *)
(* session's number is of its book, an answer to the query that is out     *)
(* has the page that was asked for, and the worker tells the saved place   *)
(* of an EPUB before it says anything of its index (Told).                 *)
(***************************************************************************)
EXTENDS ReaderSession, SequenceTheorems, TLAPS

Fields == DOMAIN NoReader
SavedPlaces == [page : PageStarts, atCover : BOOLEAN]

Blocks(book, page, n) == [i \in 1 .. n |-> <<book, <<"text", page, i>>>>]

\* From page back through the history, page by page.
Leads(history, page) ==
    /\ history \in Seq(Nat)
    /\ \A i \in 1 .. Len(history) : history[i] + (Len(history) - i) + 1 = page

-----------------------------------------------------------------------------
(* A reader r.                                                             *)

Shaped(r) ==
    /\ DOMAIN r = Fields /\ r.showing \in BOOLEAN
    /\ {r.start, r.current, r.number, r.target} \subseteq PageStarts
    /\ {r.next, r.query, r.request, r.coverParts} \subseteq Nat
    /\ r.goal # None => /\ r.goal \in [page : PageStarts, number : PageStarts]
                        /\ r.goal.number = r.goal.page

\* The paginator holds the first blocks of the page, and the next one is asked for.
Laid(r) ==
    /\ Len(r.text) \in Nat /\ r.text = Blocks(r.book, r.start, Len(r.text))
    /\ r.waiting => r.requested = IF r.coverWaiting THEN <<"cover", 0, r.coverParts + 1>>
                                  ELSE <<"text", r.start, Len(r.text) + 1>>
    /\ r.coverWaiting \/ r.coverAvailable => r.book \in Epubs

\* The page under way.
UnderWay(r) ==
    /\ ~ r.showing
    /\ \/ /\ r.op = "open" /\ r.history = <<>>
          /\ r.navigated => r.start = r.current
       \/ /\ r.valid /\ r.navigated
          /\ \/ /\ r.op = "next" /\ Leads(r.history, r.current)
                /\ r.start = r.current + 1
             \/ /\ r.op = "previous" /\ Leads(r.history, r.current)
                /\ r.start + 1 = r.current
             \/ /\ r.op = "rebuild_previous" /\ Leads(r.history, r.start)
                /\ r.start < r.target /\ r.target = r.current

WayBack(r) ==
    /\ ~ r.valid \/ ~ r.navigated => r.history = <<>>
    /\ r.showing \/ r.coverWaiting => r.history = <<>> /\ r.current = 0
    /\ r.coverWaiting => r.busy /\ ~ r.lookup
    /\ r.lookup => /\ r.asking /\ r.busy /\ r.navigated /\ r.valid /\ ~ r.waiting
                   /\ ~ r.showing /\ r.history = <<>>
    /\ r.status = "ready" => ~ r.busy
    /\ r.waiting => r.busy
    /\ r.status = "ready" /\ ~ r.showing =>
          /\ r.valid /\ Leads(r.history, r.current) /\ r.next = r.current + 1
          /\ r.placed => r.number = r.current
    /\ r.busy /\ ~ r.lookup /\ ~ r.coverWaiting => UnderWay(r)

Sound(r) == Shaped(r) /\ Laid(r) /\ WayBack(r)

\* An EPUB of which the worker has told nothing yet.
Fresh(r) ==
    /\ ~ r.navigated /\ ~ r.valid /\ ~ r.busy /\ ~ r.waiting /\ ~ r.showing
    /\ ~ r.coverWaiting /\ ~ r.indexed /\ ~ r.asking /\ ~ r.lookup
    /\ r.status # "ready" /\ r.history = <<>> /\ r.current = 0

-----------------------------------------------------------------------------
(* Its messages.                                                           *)

Mine(m) == reader.active /\ m.session = reader.id

\* The answer to the query that is out.
Fits(r, request, page) ==
    /\ request <= r.query
    /\ r.asking /\ request = r.query =>
          IF r.lookup THEN page + 1 = r.current ELSE page = r.queried

Reads == [type : {"read"}, session : Nat, generation : Nat, book : Books,
          arg : [request : Nat, at : {"text", "cover"} \X Nat \X Nat]]
Queries == [type : {"query"}, session : Nat, generation : Nat, book : Books,
            arg : [request : Nat, page : PageStarts]]
Opens == [type : {"open"}, session : Nat, generation : Nat, book : Books, arg : {Start}]
Closes == [type : {"close"}, session : Nat, generation : Nat, book : Books,
           arg : SavedPlaces]

OwnReads ==
    {m \in Reads : m.session <= serial /\ (Mine(m) => m.book = reader.book)}
OwnCommands ==
    {m \in Reads \cup Queries \cup Opens \cup Closes :
        /\ m.session <= serial
        /\ Mine(m) => m.book = reader.book
        /\ Mine(m) /\ m.type = "query" => Fits(reader, m.arg.request, m.arg.page)}

Results == [session : Nat, request : Nat, generation : Nat,
            at : {"text", "cover"} \X Nat \X Nat,
            block : {None} \cup ((Books \cup {None}) \X ({"text", "cover"} \X Nat \X Nat))]
OwnResults ==
    {m \in Results : /\ m.session <= serial
                     /\ Mine(m) /\ m.block # None => m.block = <<reader.book, m.at>>}

Events == [type : {"opened", "ready", "position", "error"}, session : Nat, request : Nat,
           generation : Nat, page : PageStarts, book : Books \cup {None},
           indexed : BOOLEAN, contentReady : BOOLEAN, atCover : BOOLEAN]

\* The worker serves the session of r and knows the place it begins at.
Served(r) == server.session = r.id /\ server.phase # "parsing"

\* It tells the place: where the text begins, and again when the index is ready.
Told(m) == Mine(m) /\ (m.type = "opened" => m.contentReady) /\ m.type \in {"opened", "ready"}

OwnEvents ==
    {m \in Events :
        /\ m.session <= serial
        /\ Mine(m) => m.book = reader.book
        /\ Mine(m) /\ m.type = "position" => Fits(reader, m.request, m.page)
        /\ Told(m) => /\ Served(reader) /\ m.page = server.place.page
                      /\ m.atCover => server.place.atCover /\ server.book \in Epubs
        /\ Told(m) /\ m.type = "opened" /\ reader.book \in Epubs => Fresh(reader)}

Servers == [session : Nat, generation : Nat, book : Books \cup {None},
            phase : {"idle", "parsing", "building", "ready", "failed"}, cached : BOOLEAN,
            place : SavedPlaces, position : PageStarts]

MessageShape ==
    /\ serial \in Nat /\ generation \in Nat
    /\ reads \in Seq(OwnReads) /\ commands \in Seq(OwnCommands)
    /\ events \in Seq(OwnEvents) /\ results \in Seq(OwnResults)
    /\ saved \in [Books -> SavedPlaces]
    /\ server \in Servers /\ server.session <= serial
    /\ server.phase = "parsing" => server.book \in Epubs
    /\ reader.active => /\ reader.id \in Nat /\ reader.id <= serial /\ reader.book \in Books
                        /\ reader.generation \in Nat
                        /\ server.session = reader.id => server.book = reader.book

\* No session is opened twice, and its place is told once.
InOrder ==
    /\ \A i, j \in 1 .. Len(commands) :
          i < j /\ commands[j].type = "open" =>
              ~ (commands[i].type = "open" /\ Mine(commands[i]))
    /\ reader.active /\ server.session = reader.id =>
          \A i \in 1 .. Len(commands) : commands[i].type # "open"
    /\ \A i, j \in 1 .. Len(events) :
          i < j /\ Told(events[j]) /\ events[j].type = "opened" => ~ Told(events[i])

\* What a reader took from the worker about the place.
Placed(r) ==
    r.active =>
        /\ r.book \in Epubs /\ ~ Served(r) => Fresh(r)
        /\ r.indexed => Served(r)
        /\ ~ r.navigated =>
              /\ r.showing \/ r.coverWaiting => Served(r) /\ server.place.atCover
              /\ r.indexed /\ ~ server.place.atCover =>
                    /\ r.busy => r.start = server.place.page
                    /\ r.status = "ready" => r.current = server.place.page

SessionInv == Sound(reader) /\ MessageShape /\ InOrder /\ Placed(reader)
-----------------------------------------------------------------------------
(* Histories and blocks.                                                   *)

\* An empty history leads back from every page.
LEMMA LeadsFromNothing == ASSUME NEW page PROVE Leads(<<>>, page)
<1>1. <<>> \in Seq(Nat) /\ Len(<<>>) = 0
  OBVIOUS
<1> QED
  BY <1>1 DEF Leads

\* The last entry of a history is the page before.
LEMMA LastLeads ==
    ASSUME NEW page \in Nat, NEW history, Leads(history, page), history # <<>>
    PROVE  Last(history) \in Nat /\ Last(history) + 1 = page
<1>1. Len(history) \in 1 .. Len(history) /\ Len(history) \in Nat
  BY DEF Leads
<1>2. history[Len(history)] + (Len(history) - Len(history)) + 1 = page
      /\ history[Len(history)] \in Nat
  BY <1>1 DEF Leads
<1> QED
  BY <1>1, <1>2 DEF Last

\* A page back takes one entry from the history,
LEMMA PopLeads ==
    ASSUME NEW page \in Nat, NEW history, Leads(history, page + 1)
    PROVE  Leads(Pop(history), page)
<1>1. CASE history = <<>>
  BY <1>1, LeadsFromNothing DEF Pop
<1>2. CASE history # <<>>
  <2>1. PICK n \in Nat : n + 1 = Len(history)
    <3>1. Len(history) \in Nat /\ Len(history) # 0
      BY <1>2 DEF Leads
    <3>2. Len(history) - 1 \in Nat /\ (Len(history) - 1) + 1 = Len(history)
      BY <3>1
    <3> QED
      BY <3>2
  <2>2. Pop(history) = SubSeq(history, 1, n)
    BY <1>2, <2>1 DEF Pop, Front
  <2>3. /\ SubSeq(history, 1, n) \in Seq(Nat) /\ Len(SubSeq(history, 1, n)) = n
        /\ \A i \in 1 .. n : SubSeq(history, 1, n)[i] = history[i]
    BY <2>1 DEF Leads
  <2>4. \A i \in 1 .. n : i \in 1 .. Len(history) /\ history[i] \in Nat
    BY <2>1 DEF Leads
  <2>5. ASSUME NEW i \in 1 .. n PROVE history[i] + (n - i) + 1 = page
    <3>1. history[i] + (Len(history) - i) + 1 = page + 1
      BY <2>4 DEF Leads
    <3> QED
      BY <2>1, <2>4, <3>1
  <2> QED
    BY <2>2, <2>3, <2>5 DEF Leads
<1> QED
  BY <1>1, <1>2

\* and a page on adds one; a history that is full loses its oldest entry and still leads
\* back.
LEMMA PushLeads ==
    ASSUME ReaderAssumption, NEW page \in Nat, NEW history, Leads(history, page)
    PROVE  Leads(Push(history, page), page + 1)
<1>1. ~ (history # <<>> /\ Last(history) = page)
  BY LastLeads
<1>2. PICK n \in Nat : n = Len(history)
  BY DEF Leads
<1>3. \A i \in 1 .. n : history[i] \in Nat /\ history[i] + (n - i) + 1 = page
  <2>1. \A i \in 1 .. n : history[i] \in Nat
    <3>1. history \in Seq(Nat)
      BY DEF Leads
    <3> QED
      BY <1>2, <3>1
  <2>2. \A i \in 1 .. n : history[i] + (n - i) + 1 = page
    BY <1>2 DEF Leads
  <2> QED
    BY <2>1, <2>2
<1>4. CASE Len(history) # HistoryLength
  <2>1. PICK h : h = Append(history, page)
    OBVIOUS
  <2>2. /\ h \in Seq(Nat) /\ Len(h) = n + 1 /\ h[n + 1] = page
        /\ \A i \in 1 .. n : h[i] = history[i]
    BY <1>2, <2>1 DEF Leads
  <2>3. ASSUME NEW i \in 1 .. n + 1
        PROVE  h[i] + ((n + 1) - i) + 1 = page + 1
    <3>1. CASE i = n + 1
      BY <2>2, <3>1
    <3>2. CASE i \in 1 .. n
      <4>1. PICK p \in Nat : p = history[i] /\ p + (n - i) + 1 = page
        BY <1>3, <3>2
      <4>2. h[i] = p
        BY <2>2, <3>2, <4>1
      <4>3. p + ((n + 1) - i) + 1 = page + 1
        BY <4>1
      <4> QED
        BY <4>2, <4>3
    <3> QED
      BY <3>1, <3>2
  <2> QED
    BY <1>1, <1>4, <2>1, <2>2, <2>3 DEF Push, Leads
<1>5. CASE Len(history) = HistoryLength
  <2>1. n >= 1 /\ history # <<>>
    BY <1>2, <1>5 DEF ReaderAssumption, Leads
  <2>2. PICK t : t = Tail(history)
    OBVIOUS
  <2>3. /\ t \in Seq(Nat) /\ Len(t) = n - 1
        /\ \A i \in 1 .. n - 1 : t[i] = history[i + 1]
    BY <1>2, <2>1, <2>2 DEF Leads
  <2>4. PICK h : h = Append(t, page)
    OBVIOUS
  <2>5. /\ h \in Seq(Nat) /\ Len(h) = n /\ h[n] = page
        /\ \A i \in 1 .. n - 1 : h[i] = history[i + 1]
    BY <2>1, <2>3, <2>4
  <2>6. ASSUME NEW i \in 1 .. n
        PROVE  h[i] + (n - i) + 1 = page + 1
    <3>1. CASE i = n
      BY <2>5, <3>1
    <3>2. CASE i \in 1 .. n - 1
      <4>1. i + 1 \in 1 .. n /\ h[i] = history[i + 1]
        BY <2>5, <3>2
      <4>2. history[i + 1] \in Nat /\ history[i + 1] + (n - (i + 1)) + 1 = page
        BY <1>3, <4>1
      <4> QED
        BY <4>1, <4>2
    <3> QED
      BY <3>1, <3>2
  <2> QED
    BY <1>1, <1>5, <2>2, <2>4, <2>5, <2>6 DEF Push, Leads
<1> QED
  BY <1>4, <1>5

\* A page begins with no block of its text,
LEMMA NoBlocks == ASSUME NEW book, NEW page PROVE <<>> = Blocks(book, page, 0) /\ Len(<<>>) = 0
  BY DEF Blocks

\* and each block that comes is the next one.
LEMMA BlocksGrow ==
    ASSUME NEW book, NEW page, NEW n \in Nat
    PROVE  /\ Append(Blocks(book, page, n), <<book, <<"text", page, n + 1>>>>)
               = Blocks(book, page, n + 1)
           /\ Len(Blocks(book, page, n + 1)) = n + 1
  BY DEF Blocks

\* The elements of sequences.
LEMMA HeadIn == ASSUME NEW S, NEW q \in Seq(S), q # <<>> PROVE Head(q) \in S /\ Tail(q) \in Seq(S)
  OBVIOUS

\* A queue with a message more.
LEMMA AppendIn ==
    ASSUME NEW S, NEW q \in Seq(S), NEW x \in S
    PROVE  /\ Append(q, x) \in Seq(S)
           /\ q # <<>> => Append(Tail(q), x) \in Seq(S)
  OBVIOUS

\* A sequence over a set is one over a larger set.
LEMMA SubsetIn == ASSUME NEW S, NEW T, S \subseteq T, NEW q \in Seq(S) PROVE q \in Seq(T)
  OBVIOUS
-----------------------------------------------------------------------------
(* The reader's own functions.                                             *)

\* The query that is out, if it still is, is the one that was.
Follows(r, n) ==
    /\ n.active = r.active /\ n.id = r.id /\ n.book = r.book
    /\ n.generation = r.generation /\ r.query <= n.query
    /\ n.asking /\ n.query = r.query =>
          /\ r.asking /\ n.lookup = r.lookup /\ n.queried = r.queried
          /\ n.lookup => n.current = r.current

\* Only the user turns pages.
Turns(r, n) ==
    r.navigated /\ n.current # r.current =>
        n.current = IF r.op = "next" THEN r.current + 1 ELSE r.current - 1

Moves(r, n) == Sound(n) /\ Follows(r, n) /\ Turns(r, n) /\ (Placed(r) => Placed(n))

Keeps(r, n) == Moves(r, n) /\ (Fresh(r) => Fresh(n))

SameView(r, n) ==
    /\ n.current = r.current /\ n.op = r.op /\ n.navigated = r.navigated
    /\ n.request = r.request
    /\ n.mediaValid => r.mediaValid

\* The fields of a reader.
LEMMA FieldsAre ==
    Fields = {"active", "id", "book", "generation", "mediaValid", "op", "start", "text",
        "current", "next", "target", "number", "status", "valid", "history", "request",
        "requested", "busy", "waiting", "submitted", "contentReady", "indexed", "placed",
        "query", "asking", "lookup", "queried", "goal", "coverAvailable", "coverParts",
        "coverWaiting", "coverHeld", "showing", "navigated"}
  BY DEF Fields, NoReader

\* Pages are numbered from zero.
LEMMA PagesAre ==
    ASSUME ReaderAssumption
    PROVE  0 \in PageStarts /\ PageStarts \subseteq Nat /\ PageCount \in Nat
  BY DEF ReaderAssumption, PageStarts

\* Two steps of the reader, one after the other, are one if the first leaves the view
\* alone or the second the page.
LEMMA MovesChain ==
    ASSUME NEW r, NEW m, NEW n, Sound(r), Moves(r, m), Moves(m, n),
           SameView(r, m) \/ n.current = r.current
    PROVE  Moves(r, n)
<1>1. r.query \in Nat /\ m.query \in Nat /\ n.query \in Nat
  BY DEF Moves, Sound, Shaped
<1>2. r.query <= n.query
      /\ (n.query = r.query => m.query = r.query /\ n.query = m.query)
  BY <1>1 DEF Moves, Follows
<1>3. Follows(r, n)
  BY <1>2 DEF Moves, Follows
<1>4. Turns(r, n)
  BY DEF Moves, Turns, SameView
<1> QED
  BY <1>3, <1>4 DEF Moves

\* So are two that keep the promise about a reader that was told nothing.
LEMMA KeepsChain ==
    ASSUME NEW r, NEW m, NEW n, Sound(r), Keeps(r, m), Keeps(m, n),
           SameView(r, m) \/ n.current = r.current
    PROVE  Keeps(r, n)
  BY MovesChain DEF Keeps

\* An error ends the loading and leaves the page that is shown and the way back alone.
LEMMA FailKeeps ==
    ASSUME NEW r, Sound(r)
    PROVE  Keeps(r, Fail(r)) /\ SameView(r, Fail(r))
<1> DEFINE n == Fail(r)
<1>1. DOMAIN r = Fields
  BY DEF Sound, Shaped
<1>2. Shaped(n)
  BY <1>1, FieldsAre DEF Sound, Shaped, Fail
<1>3. Laid(n)
  BY <1>1, FieldsAre DEF Sound, Laid, Fail
<1>4. WayBack(n)
  BY <1>1, FieldsAre DEF Sound, Laid, WayBack, UnderWay, Fail
<1>5. Follows(r, n) /\ Turns(r, n) /\ (Fresh(r) => Fresh(n))
  BY <1>1, FieldsAre DEF Shaped, Follows, Turns, Fresh, Sound, WayBack, Fail
<1>6. ASSUME Placed(r) PROVE Placed(n)
  BY <1>1, <1>6, FieldsAre DEF Placed, Served, Fresh, Sound, WayBack, Fail
<1>7. SameView(r, n)
  BY <1>1, FieldsAre DEF SameView, Fail
<1> QED
  BY <1>2, <1>3, <1>4, <1>5, <1>6, <1>7 DEF Keeps, Moves, Sound

\* The check of the card shows an error or changes nothing.
LEMMA CheckMediaKeeps ==
    ASSUME NEW r, Sound(r)
    PROVE  Keeps(r, CheckMedia(r)) /\ SameView(r, CheckMedia(r))
<1> DEFINE n == CheckMedia(r)
<1>1. DOMAIN r = Fields
  BY DEF Sound, Shaped
<1>2. Shaped(n)
  BY <1>1, FieldsAre DEF Sound, Shaped, CheckMedia, Fail
<1>3. Laid(n)
  BY <1>1, FieldsAre DEF Sound, Laid, CheckMedia, Fail
<1>4. WayBack(n)
  BY <1>1, FieldsAre DEF Sound, Laid, WayBack, UnderWay, CheckMedia, Fail
<1>5. Follows(r, n) /\ Turns(r, n) /\ (Fresh(r) => Fresh(n))
  <2>1. r.query \in Nat
    BY DEF Sound, Shaped
  <2>2. PICK query \in Nat : query = r.query /\ query = n.query
    BY <1>1, <2>1, FieldsAre DEF CheckMedia, Fail
  <2>3. /\ n.active = r.active /\ n.id = r.id /\ n.book = r.book
        /\ n.generation = r.generation
        /\ n.asking => r.asking /\ n.lookup = r.lookup /\ n.queried = r.queried
        /\ n.current = r.current
    BY <1>1, FieldsAre DEF CheckMedia, Fail
  <2>4. Follows(r, n)
    <3> HIDE DEF n
    <3> QED
      BY <2>2, <2>3 DEF Follows
  <2>5. Turns(r, n)
    BY <1>1, FieldsAre DEF Turns, CheckMedia, Fail
  <2>6. Fresh(r) => Fresh(n)
    BY <1>1, FieldsAre DEF Fresh, CheckMedia, Fail
  <2> QED
    BY <2>4, <2>5, <2>6
<1>6. ASSUME Placed(r) PROVE Placed(n)
  BY <1>1, <1>6, FieldsAre DEF Placed, Served, Fresh, Sound, WayBack, CheckMedia, Fail
<1>7. SameView(r, n)
  BY <1>1, FieldsAre DEF SameView, CheckMedia, Fail
<1> QED
  BY <1>2, <1>3, <1>4, <1>5, <1>6, <1>7 DEF Keeps, Moves, Sound

\* A late answer of the index ends the wait for a page's number, and the loading too if a
\* page was looked up.
LEMMA TimeoutKeeps ==
    ASSUME NEW r, NEW late \in BOOLEAN, Sound(r)
    PROVE  Keeps(r, IndexTimeout(r, late)) /\ SameView(r, IndexTimeout(r, late))
<1> DEFINE n == IndexTimeout(r, late)
<1>1. DOMAIN r = Fields
  BY DEF Sound, Shaped
<1>2. Shaped(n)
  BY <1>1, FieldsAre DEF Sound, Shaped, IndexTimeout, Fail
<1>3. Laid(n)
  BY <1>1, FieldsAre DEF Sound, Laid, IndexTimeout, Fail
<1>4. WayBack(n)
  BY <1>1, FieldsAre DEF Sound, Laid, WayBack, UnderWay, IndexTimeout, Fail
<1>5. Follows(r, n) /\ Turns(r, n) /\ (Fresh(r) => Fresh(n))
  BY <1>1, FieldsAre DEF Shaped, Follows, Turns, Fresh, Sound, WayBack, IndexTimeout, Fail
<1>6. ASSUME Placed(r) PROVE Placed(n)
  BY <1>1, <1>6, FieldsAre DEF Placed, Served, Fresh, Sound, WayBack, IndexTimeout, Fail
<1>7. SameView(r, n)
  BY <1>1, FieldsAre DEF SameView, IndexTimeout, Fail
<1> QED
  BY <1>2, <1>3, <1>4, <1>5, <1>6, <1>7 DEF Keeps, Moves, Sound

\* Where a cover is given up, the text of the first page is loaded, from which no way
\* leads back.
LEMMA GiveUpKeeps ==
    ASSUME NEW r, Sound(r), r.history = <<>>, r.current = 0, ~ r.lookup, 
           r.navigated \/ server.place.atCover, r.status = "ready" \/ r.coverWaiting
    PROVE  Keeps(r, GiveUpCover(r))
<1> DEFINE n == GiveUpCover(r)
<1>1. DOMAIN r = Fields
  BY DEF Sound, Shaped
<1>2. Shaped(n)
  BY <1>1, FieldsAre DEF Sound, Shaped, GiveUpCover, StartBody, StartPage
<1>3. Laid(n)
  BY <1>1, FieldsAre, NoBlocks DEF Sound, Laid, GiveUpCover, StartBody, StartPage
<1>4. WayBack(n)
  BY <1>1, FieldsAre DEF Sound, Laid, WayBack, UnderWay, GiveUpCover, StartBody, StartPage
<1>5. Follows(r, n) /\ Turns(r, n) /\ (Fresh(r) => Fresh(n))
  BY <1>1, FieldsAre DEF Shaped, Follows, Turns, Fresh, Sound, WayBack, GiveUpCover, StartBody,
     StartPage
<1>6. ASSUME Placed(r) PROVE Placed(n)
  BY <1>1, <1>6, FieldsAre DEF Placed, Served, Fresh, Sound, WayBack, GiveUpCover, StartBody,
     StartPage
<1> QED
  BY <1>2, <1>3, <1>4, <1>5, <1>6 DEF Keeps, Moves, Sound

\* The page is complete, or the one before it while the way back is rebuilt.
LEMMA CompleteKeeps ==
    ASSUME ReaderAssumption, NEW r, Sound(r), r.busy, ~ r.lookup, ~ r.coverWaiting,
           ~ r.waiting
    PROVE  Keeps(r, CompletePage(r))
<1> DEFINE n == CompletePage(r)
           found == r.indexed /\ r.goal # None /\ r.goal.page = r.start
<1>1. /\ DOMAIN r = Fields /\ UnderWay(r) /\ r.start \in Nat /\ r.current \in Nat
      /\ r.start \in PageStarts /\ r.target \in PageStarts /\ PageCount \in Nat
      /\ r.current \in PageStarts
  BY DEF Sound, Shaped, WayBack, PageStarts, ReaderAssumption
<1>2. CASE Rebuilding(r)
  <2>1. PICK h : h = Push(r.history, r.start)
    OBVIOUS
  <2>2. n = [r EXCEPT !.history = h, !.start = r.start + 1, !.text = <<>>]
    BY <1>2, <2>1 DEF CompletePage
  <2>3. /\ r.op = "rebuild_previous" /\ Leads(r.history, r.start) /\ r.target = r.current
        /\ r.start + 1 < r.target /\ r.start + 1 \in PageStarts
        /\ r.valid /\ r.navigated /\ ~ r.showing
    BY <1>1, <1>2 DEF Rebuilding, UnderWay, PageStarts
  <2>4. Leads(h, r.start + 1)
    BY <1>1, <2>1, <2>3, PushLeads
  <2>5. Shaped(n)
    BY <1>1, <2>2, <2>3, FieldsAre DEF Sound, Shaped
  <2>6. Laid(n)
    BY <1>1, <2>2, FieldsAre, NoBlocks DEF Sound, Laid
  <2>7. WayBack(n)
    BY <1>1, <2>2, <2>3, <2>4, FieldsAre DEF Sound, WayBack, UnderWay
  <2>8. Follows(r, n) /\ Turns(r, n) /\ ~ Fresh(r)
    BY <1>1, <2>2, <2>3, FieldsAre DEF Sound, Shaped, Follows, Turns, Fresh
  <2>9. Placed(r) => Placed(n)
    BY <1>1, <2>2, <2>3, FieldsAre DEF Placed, Fresh, Served
  <2> QED
    BY <2>5, <2>6, <2>7, <2>8, <2>9 DEF Keeps, Moves, Sound
<1>3. CASE ~ Rebuilding(r)
  <2>1. PICK h : h = (CASE r.op = "next" -> Push(r.history, r.current)
                        [] r.op = "previous" -> Pop(r.history)
                        [] OTHER -> r.history)
    OBVIOUS
  <2>2. PICK placed \in BOOLEAN : placed = found
    OBVIOUS
  <2>3. PICK number : number = IF placed THEN r.goal.number ELSE r.number
    OBVIOUS
  <2>4. n = [r EXCEPT !.history = h, !.current = r.start, !.next = r.start + 1,
                      !.valid = TRUE, !.busy = FALSE, !.status = "ready", !.placed = placed,
                      !.number = number, !.goal = None]
    BY <1>3, <2>1, <2>2, <2>3 DEF CompletePage
  <2>5. ~ r.showing /\ Leads(h, r.start) /\ (~ r.navigated => h = <<>>)
    <3>1. CASE r.op = "open"
      BY <1>1, <2>1, <3>1, LeadsFromNothing DEF UnderWay
    <3>2. CASE r.op = "next"
      BY <1>1, <2>1, <3>2, PushLeads DEF UnderWay
    <3>3. CASE r.op = "previous"
      BY <1>1, <2>1, <3>3, PopLeads DEF UnderWay
    <3>4. CASE r.op = "rebuild_previous"
      BY <1>1, <2>1, <3>4 DEF UnderWay
    <3> QED
      BY <1>1, <3>1, <3>2, <3>3, <3>4 DEF UnderWay
  <2>6. number \in PageStarts /\ (placed => number = r.start)
    BY <1>1, <2>2, <2>3 DEF Sound, Shaped
  <2>7. PICK next \in Nat : next = r.start + 1
    BY <1>1
  <2>8. Shaped(n)
    <3>1. n = [r EXCEPT !.history = h, !.current = r.start, !.next = next, !.valid = TRUE,
                        !.busy = FALSE, !.status = "ready", !.placed = placed,
                        !.number = number, !.goal = None]
      BY <2>4, <2>7
    <3>2. /\ DOMAIN n = Fields /\ n.showing = r.showing /\ n.start = r.start
          /\ n.current = r.start /\ n.number = number /\ n.target = r.target
          /\ n.next = next /\ n.query = r.query /\ n.request = r.request
          /\ n.coverParts = r.coverParts /\ n.goal = None
      BY <1>1, <3>1, FieldsAre
    <3> HIDE DEF n
    <3> QED
      BY <1>1, <2>6, <3>2 DEF Sound, Shaped
  <2>9. Laid(n)
    BY <1>1, <2>4, FieldsAre DEF Sound, Laid
  <2>10. WayBack(n)
    BY <1>1, <2>4, <2>5, <2>6, FieldsAre DEF Sound, WayBack
  <2>11. Follows(r, n) /\ ~ Fresh(r)
    BY <1>1, <2>4, FieldsAre DEF Follows, Fresh, Sound, Shaped, WayBack
  <2>12. Turns(r, n)
    <3>1. r.op = "rebuild_previous" => r.start + 1 = r.current
      BY <1>1, <1>3 DEF UnderWay, Rebuilding, PageStarts
    <3> QED
      BY <1>1, <2>4, <3>1, FieldsAre DEF Turns, UnderWay
  <2>13. Placed(r) => Placed(n)
    BY <1>1, <2>4, <2>5, FieldsAre DEF Placed, Fresh, Served
  <2> QED
    BY <2>8, <2>9, <2>10, <2>11, <2>12, <2>13 DEF Keeps, Moves, Sound
<1> QED
  BY <1>2, <1>3

\* The block that was asked for comes.
LEMMA FeedKeeps ==
    ASSUME ReaderAssumption, NEW r, Sound(r), r.busy, ~ r.lookup, ~ r.coverWaiting,
           ~ r.waiting, NEW block, block = <<r.book, <<"text", r.start, Len(r.text) + 1>>>>
    PROVE  Keeps(r, Feed(r, block))
<1>1. PICK n \in Nat : n = Len(r.text)
  BY DEF Sound, Laid
<1>2. PICK text : text = Append(r.text, block)
  OBVIOUS
<1>3. text = Blocks(r.book, r.start, n + 1) /\ Len(text) = n + 1
  <2>1. r.text = Blocks(r.book, r.start, n) /\ block = <<r.book, <<"text", r.start, n + 1>>>>
    BY <1>1 DEF Sound, Laid
  <2>2. PICK b, p : b = r.book /\ p = r.start
    OBVIOUS
  <2>3. Append(Blocks(b, p, n), <<b, <<"text", p, n + 1>>>>) = Blocks(b, p, n + 1)
        /\ Len(Blocks(b, p, n + 1)) = n + 1
    BY BlocksGrow
  <2> QED
    BY <1>2, <2>1, <2>2, <2>3
<1>4. PICK f : f = [r EXCEPT !.text = text]
  OBVIOUS
<1>5. DOMAIN r = Fields
  BY DEF Sound, Shaped
<1>6. Shaped(f)
  BY <1>4, <1>5, FieldsAre DEF Sound, Shaped
<1>7. Laid(f)
  BY <1>3, <1>4, <1>5, FieldsAre DEF Sound, Laid
<1>8. WayBack(f)
  BY <1>4, <1>5, FieldsAre DEF Sound, WayBack, UnderWay
<1>9. /\ f.busy /\ ~ f.lookup /\ ~ f.coverWaiting /\ ~ f.waiting
      /\ Follows(r, f) /\ Turns(r, f) /\ SameView(r, f)
      /\ Placed(r) => Placed(f)
      /\ ~ Fresh(r)
  BY <1>4, <1>5, FieldsAre DEF Sound, Shaped, Follows, Turns, SameView, Fresh, Placed, Served
<1>10. Feed(r, block) = IF Len(text) = PageBlocks THEN CompletePage(f) ELSE f
  BY <1>2, <1>4, <1>5, FieldsAre DEF Feed
<1>11. Sound(f)
  BY <1>6, <1>7, <1>8 DEF Sound
<1>12. Keeps(f, CompletePage(f))
  BY <1>9, <1>11, CompleteKeeps
<1> QED
  BY <1>9, <1>10, <1>11, <1>12, KeepsChain DEF Keeps, Moves

\* The user turns a page: from the cover, to a page next to this one, or back through
\* the file to find the one before.
LEMMA LeaveCoverKeeps ==
    ASSUME ReaderAssumption,
           NEW r,
           Sound(r),
           ~ r.busy,
           r.status = "ready",
           r.showing
    PROVE  Keeps(r, StartBody([r EXCEPT !.navigated = TRUE], 0))
<1> DEFINE n == StartBody([r EXCEPT !.navigated = TRUE], 0)
<1>1. DOMAIN r = Fields
  BY DEF Sound, Shaped
<1>2. Shaped(n)
  BY <1>1, FieldsAre, NoBlocks, PagesAre DEF Sound, Shaped, StartBody, StartIndexedPage, StartPage
<1>3. Laid(n)
  BY <1>1, FieldsAre, NoBlocks, PagesAre DEF Sound, Laid, StartBody, StartIndexedPage, StartPage
<1>4. WayBack(n)
  BY <1>1, FieldsAre, NoBlocks, PagesAre DEF Sound, Laid, WayBack, UnderWay, StartBody,
     StartIndexedPage, StartPage
<1>5. Follows(r, n) /\ Turns(r, n) /\ (Fresh(r) => Fresh(n))
  BY <1>1, FieldsAre DEF Shaped, Follows, Turns, Fresh, Sound, WayBack, StartBody,
     StartIndexedPage, StartPage
<1>6. ASSUME Placed(r) PROVE Placed(n)
  BY <1>1, <1>6, FieldsAre DEF Placed, Served, Fresh, Sound, WayBack, StartBody,
     StartIndexedPage, StartPage
<1> QED
  BY <1>2, <1>3, <1>4, <1>5, <1>6 DEF Keeps, Moves, Sound

\* A turn of the page: the page that loads is the next one, which the current one leads
\* to, or the one the history ends with.
LEMMA TurnKeeps ==
    ASSUME ReaderAssumption,
           NEW r,
           Sound(r),
           ~ r.busy,
           r.status = "ready",
           ~ r.showing,
           NEW page \in PageStarts,
           NEW op,
           \/ op = "next" /\ page = r.current + 1
           \/ op = "previous" /\ page + 1 = r.current
    PROVE  Keeps(r, StartPage([r EXCEPT !.navigated = TRUE], page, op))
<1> DEFINE n == StartPage([r EXCEPT !.navigated = TRUE], page, op)
<1>1. DOMAIN r = Fields
  BY DEF Sound, Shaped
<1>2. Shaped(n)
  BY <1>1, FieldsAre, NoBlocks, PagesAre DEF Sound, Shaped, StartBody, StartIndexedPage, StartPage
<1>3. Laid(n)
  BY <1>1, FieldsAre, NoBlocks, PagesAre DEF Sound, Laid, StartBody, StartIndexedPage, StartPage
<1>4. WayBack(n)
  BY <1>1, FieldsAre, NoBlocks, PagesAre DEF Sound, Laid, WayBack, UnderWay, StartBody,
     StartIndexedPage, StartPage
<1>5. Follows(r, n) /\ Turns(r, n) /\ (Fresh(r) => Fresh(n))
  BY <1>1, FieldsAre DEF Shaped, Follows, Turns, Fresh, Sound, WayBack, StartBody,
     StartIndexedPage, StartPage
<1>6. ASSUME Placed(r) PROVE Placed(n)
  BY <1>1, <1>6, FieldsAre DEF Placed, Served, Fresh, Sound, WayBack, StartBody,
     StartIndexedPage, StartPage
<1> QED
  BY <1>2, <1>3, <1>4, <1>5, <1>6 DEF Keeps, Moves, Sound

\* So with the number of the page known.
LEMMA TurnIndexedKeeps ==
    ASSUME ReaderAssumption,
           NEW r,
           Sound(r),
           ~ r.busy,
           r.status = "ready",
           ~ r.showing,
           NEW page \in PageStarts,
           NEW op,
           \/ op = "next" /\ page = r.current + 1
           \/ op = "previous" /\ page + 1 = r.current
    PROVE  Keeps(r, StartIndexedPage([r EXCEPT !.navigated = TRUE], page, op, page))
<1> DEFINE n == StartIndexedPage([r EXCEPT !.navigated = TRUE], page, op, page)
<1>1. DOMAIN r = Fields
  BY DEF Sound, Shaped
<1>2. Shaped(n)
  BY <1>1, FieldsAre, NoBlocks, PagesAre DEF Sound, Shaped, StartBody, StartIndexedPage, StartPage
<1>3. Laid(n)
  BY <1>1, FieldsAre, NoBlocks, PagesAre DEF Sound, Laid, StartBody, StartIndexedPage, StartPage
<1>4. WayBack(n)
  BY <1>1, FieldsAre, NoBlocks, PagesAre DEF Sound, Laid, WayBack, UnderWay, StartBody,
     StartIndexedPage, StartPage
<1>5. Follows(r, n) /\ Turns(r, n) /\ (Fresh(r) => Fresh(n))
  BY <1>1, FieldsAre DEF Shaped, Follows, Turns, Fresh, Sound, WayBack, StartBody,
     StartIndexedPage, StartPage
<1>6. ASSUME Placed(r) PROVE Placed(n)
  BY <1>1, <1>6, FieldsAre DEF Placed, Served, Fresh, Sound, WayBack, StartBody,
     StartIndexedPage, StartPage
<1> QED
  BY <1>2, <1>3, <1>4, <1>5, <1>6 DEF Keeps, Moves, Sound

\* A way back that was lost is built again from the first page up to the current one.
LEMMA RebuildKeeps ==
    ASSUME ReaderAssumption,
           NEW r,
           Sound(r),
           ~ r.busy,
           r.status = "ready",
           ~ r.showing,
           0 < r.current,
           r.history = <<>>
    PROVE  Keeps(r, StartPage([[r EXCEPT !.navigated = TRUE] EXCEPT !.target = r.current], 0,
                             "rebuild_previous"))
<1> DEFINE n == StartPage([[r EXCEPT !.navigated = TRUE] EXCEPT !.target = r.current], 0,
                             "rebuild_previous")
<1>1. DOMAIN r = Fields
  BY DEF Sound, Shaped
<1>2. Shaped(n)
  BY <1>1, FieldsAre, NoBlocks, LeadsFromNothing, PagesAre DEF Sound, Shaped, StartBody,
     StartIndexedPage, StartPage
<1>3. Laid(n)
  BY <1>1, FieldsAre, NoBlocks, LeadsFromNothing, PagesAre DEF Sound, Laid, StartBody,
     StartIndexedPage, StartPage
<1>4. WayBack(n)
  BY <1>1, FieldsAre, NoBlocks, LeadsFromNothing, PagesAre DEF Sound, Laid, WayBack, UnderWay,
     StartBody, StartIndexedPage, StartPage
<1>5. Follows(r, n) /\ Turns(r, n) /\ (Fresh(r) => Fresh(n))
  BY <1>1, FieldsAre DEF Shaped, Follows, Turns, Fresh, Sound, WayBack, StartBody,
     StartIndexedPage, StartPage
<1>6. ASSUME Placed(r) PROVE Placed(n)
  BY <1>1, <1>6, FieldsAre DEF Placed, Served, Fresh, Sound, WayBack, StartBody,
     StartIndexedPage, StartPage
<1> QED
  BY <1>2, <1>3, <1>4, <1>5, <1>6 DEF Keeps, Moves, Sound

-----------------------------------------------------------------------------
(* What the reader asks for and what it is told.                           *)

\* Nothing leads to the first page.
LEMMA LeadsToStart == ASSUME NEW history, Leads(history, 0) PROVE history = <<>>
  BY LastLeads

\* The user has turned a page: the place is no longer the worker's.
LEMMA NavigatedKeeps ==
    ASSUME ReaderAssumption,
           NEW r,
           Sound(r),
           ~ r.busy,
           r.status = "ready"
    PROVE  Keeps(r, [r EXCEPT !.navigated = TRUE])
<1> DEFINE n == [r EXCEPT !.navigated = TRUE]
<1>1. DOMAIN r = Fields
  BY DEF Sound, Shaped
<1>2. Shaped(n)
  BY <1>1, FieldsAre DEF Sound, Shaped
<1>3. Laid(n)
  BY <1>1, FieldsAre DEF Sound, Laid
<1>4. WayBack(n)
  BY <1>1, FieldsAre DEF Sound, Laid, WayBack, UnderWay
<1>5. Follows(r, n) /\ Turns(r, n) /\ (Fresh(r) => Fresh(n))
  BY <1>1, FieldsAre DEF Shaped, Follows, Turns, Fresh, Sound, WayBack
<1>6. ASSUME Placed(r) PROVE Placed(n)
  BY <1>1, <1>6, FieldsAre DEF Placed, Served, Fresh, Sound, WayBack
<1> QED
  BY <1>2, <1>3, <1>4, <1>5, <1>6 DEF Keeps, Moves, Sound

\* From the first page back to the cover that is held,
LEMMA HeldCoverKeeps ==
    ASSUME ReaderAssumption,
           NEW r,
           Sound(r),
           ~ r.busy,
           r.status = "ready",
           ~ r.showing,
           r.current = 0,
           r.navigated
    PROVE  Keeps(r, [r EXCEPT !.showing = TRUE])
<1> DEFINE n == [r EXCEPT !.showing = TRUE]
<1>1. DOMAIN r = Fields
  BY DEF Sound, Shaped
<1>2. Shaped(n)
  BY <1>1, FieldsAre, LeadsToStart DEF Sound, Shaped
<1>3. Laid(n)
  BY <1>1, FieldsAre, LeadsToStart DEF Sound, Laid
<1>4. WayBack(n)
  BY <1>1, FieldsAre, LeadsToStart DEF Sound, Laid, WayBack, UnderWay
<1>5. Follows(r, n) /\ Turns(r, n) /\ (Fresh(r) => Fresh(n))
  BY <1>1, FieldsAre DEF Shaped, Follows, Turns, Fresh, Sound, WayBack
<1>6. ASSUME Placed(r) PROVE Placed(n)
  BY <1>1, <1>6, FieldsAre DEF Placed, Served, Fresh, Sound, WayBack
<1> QED
  BY <1>2, <1>3, <1>4, <1>5, <1>6 DEF Keeps, Moves, Sound

\* or to the cover that is to be read again.
LEMMA BackToCoverKeeps ==
    ASSUME ReaderAssumption,
           NEW r,
           Sound(r),
           ~ r.busy,
           r.status = "ready",
           ~ r.showing,
           r.current = 0,
           r.navigated,
           r.book \in Epubs
    PROVE  Keeps(r, [r EXCEPT !.coverParts = 0, !.coverWaiting = TRUE, !.busy = TRUE,
                               !.status = "loading"])
<1> DEFINE n == [r EXCEPT !.coverParts = 0, !.coverWaiting = TRUE, !.busy = TRUE,
                               !.status = "loading"]
<1>1. DOMAIN r = Fields
  BY DEF Sound, Shaped
<1>2. Shaped(n)
  BY <1>1, FieldsAre, LeadsToStart DEF Sound, Shaped
<1>3. Laid(n)
  BY <1>1, FieldsAre DEF Sound, Laid, WayBack
<1>4. WayBack(n)
  BY <1>1, FieldsAre, LeadsToStart DEF Sound, Laid, WayBack, UnderWay
<1>5. Follows(r, n) /\ Turns(r, n) /\ (Fresh(r) => Fresh(n))
  BY <1>1, FieldsAre DEF Shaped, Follows, Turns, Fresh, Sound, WayBack
<1>6. ASSUME Placed(r) PROVE Placed(n)
  BY <1>1, <1>6, FieldsAre DEF Placed, Served, Fresh, Sound, WayBack
<1> QED
  BY <1>2, <1>3, <1>4, <1>5, <1>6 DEF Keeps, Moves, Sound

\* A part of the cover is asked for.
LEMMA AskCoverKeeps ==
    ASSUME ReaderAssumption,
           NEW r,
           Sound(r),
           r.coverWaiting
    PROVE  Keeps(r, [r EXCEPT !.request = @ + 1, !.waiting = TRUE,
                               !.requested = <<"cover", 0, r.coverParts + 1>>])
<1> DEFINE n == [r EXCEPT !.request = @ + 1, !.waiting = TRUE,
                               !.requested = <<"cover", 0, r.coverParts + 1>>]
<1>1. DOMAIN r = Fields
  BY DEF Sound, Shaped
<1>2. Shaped(n)
  BY <1>1, FieldsAre DEF Sound, Shaped
<1>3. Laid(n)
  BY <1>1, FieldsAre DEF Sound, Laid
<1>4. WayBack(n)
  BY <1>1, FieldsAre DEF Sound, Laid, WayBack, UnderWay
<1>5. Follows(r, n) /\ Turns(r, n) /\ (Fresh(r) => Fresh(n))
  BY <1>1, FieldsAre DEF Shaped, Follows, Turns, Fresh, Sound, WayBack
<1>6. ASSUME Placed(r) PROVE Placed(n)
  BY <1>1, <1>6, FieldsAre DEF Placed, Served, Fresh, Sound, WayBack
<1> QED
  BY <1>2, <1>3, <1>4, <1>5, <1>6 DEF Keeps, Moves, Sound

\* The next block of the page's text is asked for.
LEMMA AskTextKeeps ==
    ASSUME ReaderAssumption,
           NEW r,
           Sound(r),
           r.busy,
           ~ r.lookup,
           ~ r.coverWaiting
    PROVE  Keeps(r, [r EXCEPT !.request = @ + 1, !.waiting = TRUE,
                               !.requested = <<"text", r.start, Len(r.text) + 1>>])
<1> DEFINE n == [r EXCEPT !.request = @ + 1, !.waiting = TRUE,
                               !.requested = <<"text", r.start, Len(r.text) + 1>>]
<1>1. DOMAIN r = Fields
  BY DEF Sound, Shaped
<1>2. Shaped(n)
  BY <1>1, FieldsAre DEF Sound, Shaped
<1>3. Laid(n)
  BY <1>1, FieldsAre DEF Sound, Laid
<1>4. WayBack(n)
  BY <1>1, FieldsAre DEF Sound, Laid, WayBack, UnderWay
<1>5. Follows(r, n) /\ Turns(r, n) /\ (Fresh(r) => Fresh(n))
  BY <1>1, FieldsAre DEF Shaped, Follows, Turns, Fresh, Sound, WayBack
<1>6. ASSUME Placed(r) PROVE Placed(n)
  BY <1>1, <1>6, FieldsAre DEF Placed, Served, Fresh, Sound, WayBack
<1> QED
  BY <1>2, <1>3, <1>4, <1>5, <1>6 DEF Keeps, Moves, Sound

\* The index is asked for the number of the current page or for the page before it.
LEMMA QueryKeeps ==
    ASSUME ReaderAssumption,
           NEW r,
           Sound(r),
           ~ r.busy,
           ~ r.asking,
           r.indexed,
           NEW byPage \in BOOLEAN,
           byPage => r.navigated /\ r.valid /\ ~ r.showing /\ r.history = <<>>
    PROVE  Keeps(r, [r EXCEPT !.query = @ + 1, !.asking = TRUE, !.queried = r.current,
                               !.lookup = byPage, !.busy = byPage,
                               !.waiting = IF byPage THEN FALSE ELSE @,
                               !.status = IF byPage THEN "loading" ELSE @])
<1> DEFINE n == [r EXCEPT !.query = @ + 1, !.asking = TRUE, !.queried = r.current,
                               !.lookup = byPage, !.busy = byPage,
                               !.waiting = IF byPage THEN FALSE ELSE @,
                               !.status = IF byPage THEN "loading" ELSE @]
<1>1. DOMAIN r = Fields
  BY DEF Sound, Shaped
<1>2. Shaped(n)
  BY <1>1, FieldsAre DEF Sound, Shaped
<1>3. Laid(n)
  BY <1>1, FieldsAre DEF Sound, Laid
<1>4. WayBack(n)
  BY <1>1, FieldsAre DEF Sound, Laid, WayBack, UnderWay
<1>5. Follows(r, n) /\ Turns(r, n) /\ (Fresh(r) => Fresh(n))
  BY <1>1, FieldsAre DEF Shaped, Follows, Turns, Fresh, Sound, WayBack
<1>6. ASSUME Placed(r) PROVE Placed(n)
  BY <1>1, <1>6, FieldsAre DEF Placed, Served, Fresh, Sound, WayBack
<1> QED
  BY <1>2, <1>3, <1>4, <1>5, <1>6 DEF Keeps, Moves, Sound

\* What was asked for has come.
LEMMA ArrivedKeeps ==
    ASSUME ReaderAssumption,
           NEW r,
           Sound(r)
    PROVE  Keeps(r, [r EXCEPT !.waiting = FALSE]) /\ SameView(r, [r EXCEPT !.waiting = FALSE])
<1> DEFINE n == [r EXCEPT !.waiting = FALSE]
<1>1. DOMAIN r = Fields
  BY DEF Sound, Shaped
<1>2. Shaped(n)
  BY <1>1, FieldsAre DEF Sound, Shaped
<1>3. Laid(n)
  BY <1>1, FieldsAre DEF Sound, Laid
<1>4. WayBack(n)
  BY <1>1, FieldsAre DEF Sound, Laid, WayBack, UnderWay
<1>5. Follows(r, n) /\ Turns(r, n) /\ (Fresh(r) => Fresh(n))
  BY <1>1, FieldsAre DEF Shaped, Follows, Turns, Fresh, Sound, WayBack
<1>6. ASSUME Placed(r) PROVE Placed(n)
  BY <1>1, <1>6, FieldsAre DEF Placed, Served, Fresh, Sound, WayBack
<1>7. SameView(r, n)
  BY <1>1, FieldsAre DEF SameView, Sound
<1> QED
  BY <1>2, <1>3, <1>4, <1>5, <1>6, <1>7 DEF Keeps, Moves, Sound

\* A part of the cover has come.
LEMMA CoverPartKeeps ==
    ASSUME ReaderAssumption,
           NEW r,
           Sound(r),
           r.coverWaiting,
           ~ r.waiting
    PROVE  Keeps(r, [r EXCEPT !.coverParts = @ + 1])
<1> DEFINE n == [r EXCEPT !.coverParts = @ + 1]
<1>1. DOMAIN r = Fields
  BY DEF Sound, Shaped
<1>2. Shaped(n)
  BY <1>1, FieldsAre DEF Sound, Shaped
<1>3. Laid(n)
  BY <1>1, FieldsAre DEF Sound, Laid
<1>4. WayBack(n)
  BY <1>1, FieldsAre DEF Sound, Laid, WayBack, UnderWay
<1>5. Follows(r, n) /\ Turns(r, n) /\ (Fresh(r) => Fresh(n))
  BY <1>1, FieldsAre DEF Shaped, Follows, Turns, Fresh, Sound, WayBack
<1>6. ASSUME Placed(r) PROVE Placed(n)
  BY <1>1, <1>6, FieldsAre DEF Placed, Served, Fresh, Sound, WayBack
<1> QED
  BY <1>2, <1>3, <1>4, <1>5, <1>6 DEF Keeps, Moves, Sound

\* The last part of the cover has come and is shown; no page leads to it.
LEMMA CoverShownKeeps ==
    ASSUME ReaderAssumption,
           NEW r,
           Sound(r),
           r.coverWaiting,
           ~ r.waiting
    PROVE  Keeps(r, [[r EXCEPT !.coverParts = @ + 1] EXCEPT !.coverWaiting = FALSE,
                     !.busy = FALSE, !.showing = TRUE, !.coverHeld = TRUE,
                     !.status = "ready"])
<1> DEFINE n == [[r EXCEPT !.coverParts = @ + 1] EXCEPT !.coverWaiting = FALSE,
                     !.busy = FALSE, !.showing = TRUE, !.coverHeld = TRUE,
                     !.status = "ready"]
<1>1. DOMAIN r = Fields
  BY DEF Sound, Shaped
<1>2. Shaped(n)
  BY <1>1, FieldsAre DEF Sound, Shaped
<1>3. Laid(n)
  BY <1>1, FieldsAre DEF Sound, Laid
<1>4. WayBack(n)
  BY <1>1, FieldsAre DEF Sound, Laid, WayBack, UnderWay
<1>5. Follows(r, n) /\ Turns(r, n) /\ (Fresh(r) => Fresh(n))
  BY <1>1, FieldsAre DEF Shaped, Follows, Turns, Fresh, Sound, WayBack
<1>6. ASSUME Placed(r) PROVE Placed(n)
  BY <1>1, <1>6, FieldsAre DEF Placed, Served, Fresh, Sound, WayBack
<1> QED
  BY <1>2, <1>3, <1>4, <1>5, <1>6 DEF Keeps, Moves, Sound

\* Without an index the reader goes on without numbers, unless it waits for what only the
\* index can tell.
LEMMA IndexErrorKeeps ==
    ASSUME ReaderAssumption,
           NEW r,
           Sound(r)
    PROVE  Keeps(r, IndexError(r))
<1> DEFINE n == IndexError(r)
<1>1. DOMAIN r = Fields
  BY DEF Sound, Shaped
<1>2. Shaped(n)
  BY <1>1, FieldsAre DEF Sound, Shaped, IndexError, Fail
<1>3. Laid(n)
  BY <1>1, FieldsAre DEF Sound, Laid, IndexError, Fail
<1>4. WayBack(n)
  BY <1>1, FieldsAre DEF Sound, Laid, WayBack, UnderWay, IndexError, Fail
<1>5. Follows(r, n) /\ Turns(r, n) /\ (Fresh(r) => Fresh(n))
  BY <1>1, FieldsAre DEF Shaped, Follows, Turns, Fresh, Sound, WayBack, IndexError, Fail
<1>6. ASSUME Placed(r) PROVE Placed(n)
  BY <1>1, <1>6, FieldsAre DEF Placed, Served, Fresh, Sound, WayBack, IndexError, Fail
<1> QED
  BY <1>2, <1>3, <1>4, <1>5, <1>6 DEF Keeps, Moves, Sound

\* The text of an EPUB can be read from now on.
LEMMA TextThereKeeps ==
    ASSUME ReaderAssumption,
           NEW r,
           Sound(r),
           NEW available \in BOOLEAN,
           available => r.book \in Epubs
    PROVE  Keeps(r, [r EXCEPT !.contentReady = TRUE, !.coverAvailable = available])
<1> DEFINE n == [r EXCEPT !.contentReady = TRUE, !.coverAvailable = available]
<1>1. DOMAIN r = Fields
  BY DEF Sound, Shaped
<1>2. Shaped(n)
  BY <1>1, FieldsAre DEF Sound, Shaped
<1>3. Laid(n)
  BY <1>1, FieldsAre DEF Sound, Laid
<1>4. WayBack(n)
  BY <1>1, FieldsAre DEF Sound, Laid, WayBack, UnderWay
<1>5. Follows(r, n) /\ Turns(r, n) /\ (Fresh(r) => Fresh(n))
  BY <1>1, FieldsAre DEF Shaped, Follows, Turns, Fresh, Sound, WayBack
<1>6. ASSUME Placed(r) PROVE Placed(n)
  BY <1>1, <1>6, FieldsAre DEF Placed, Served, Fresh, Sound, WayBack
<1> QED
  BY <1>2, <1>3, <1>4, <1>5, <1>6 DEF Keeps, Moves, Sound

\* The book opens at its cover. The reader was told nothing before, so no page is shown.
LEMMA OpenedCoverMoves ==
    ASSUME ReaderAssumption,
           NEW r,
           Sound(r),
           Fresh(r),
           r.book \in Epubs,
           Served(r),
           server.place.atCover,
           NEW available \in BOOLEAN,
           available => r.book \in Epubs
    PROVE  Moves(r, [[r EXCEPT !.contentReady = TRUE, !.coverAvailable = available] EXCEPT
                     !.coverParts = 0, !.coverWaiting = TRUE, !.busy = TRUE,
                     !.status = "loading"])
<1> DEFINE n == [[r EXCEPT !.contentReady = TRUE, !.coverAvailable = available] EXCEPT
                     !.coverParts = 0, !.coverWaiting = TRUE, !.busy = TRUE,
                     !.status = "loading"]
<1>1. DOMAIN r = Fields
  BY DEF Sound, Shaped
<1>2. Shaped(n)
  BY <1>1, FieldsAre DEF Sound, Shaped, Fresh
<1>3. Laid(n)
  BY <1>1, FieldsAre DEF Sound, Laid, Fresh
<1>4. WayBack(n)
  BY <1>1, FieldsAre DEF Sound, Laid, WayBack, UnderWay, Fresh
<1>5. Follows(r, n) /\ Turns(r, n)
  BY <1>1, FieldsAre DEF Shaped, Follows, Turns, Fresh, Sound, WayBack, Fresh
<1>6. ASSUME Placed(r) PROVE Placed(n)
  BY <1>1, <1>6, FieldsAre DEF Placed, Served, Fresh, Sound, WayBack
<1> QED
  BY <1>2, <1>3, <1>4, <1>5, <1>6 DEF Moves, Sound

\* The text opens at the place the worker has told, from which no way leads back.
LEMMA OpenedBodyMoves ==
    ASSUME ReaderAssumption,
           NEW r,
           Sound(r),
           ~ r.navigated,
           r.book \in Epubs => Fresh(r),
           Served(r),
           NEW available \in BOOLEAN,
           available => r.book \in Epubs,
           NEW page \in PageStarts,
           page = server.place.page
    PROVE  Moves(r, StartBody([[r EXCEPT !.contentReady = TRUE, !.coverAvailable = available]
                                EXCEPT !.history = <<>>], page))
<1> DEFINE n == StartBody([[r EXCEPT !.contentReady = TRUE, !.coverAvailable = available]
                                EXCEPT !.history = <<>>], page)
<1>1. DOMAIN r = Fields
  BY DEF Sound, Shaped
<1>2. Shaped(n)
  <2>1. /\ DOMAIN n = Fields /\ n.showing = FALSE /\ n.start = page
        /\ n.current = r.current /\ n.number = r.number /\ n.target = r.target
        /\ n.next = r.next /\ n.query = r.query /\ n.request = r.request
        /\ n.coverParts = r.coverParts /\ n.goal = r.goal
    BY <1>1, FieldsAre DEF StartBody, StartPage
  <2> HIDE DEF n
  <2> QED
    BY <2>1 DEF Sound, Shaped
<1>3. Laid(n)
  BY <1>1, FieldsAre, NoBlocks DEF Sound, Laid, StartBody, StartPage, Fresh
<1>4. WayBack(n)
  BY <1>1, FieldsAre, NoBlocks DEF Sound, Laid, WayBack, UnderWay, StartBody, StartPage, Fresh
<1>5. Follows(r, n) /\ Turns(r, n)
  BY <1>1, FieldsAre DEF Shaped, Follows, Turns, Fresh, Sound, WayBack, StartBody, StartPage, Fresh
<1>6. ASSUME Placed(r) PROVE Placed(n)
  BY <1>1, <1>6, FieldsAre DEF Placed, Served, Fresh, Sound, WayBack, StartBody, StartPage, Fresh
<1> QED
  BY <1>2, <1>3, <1>4, <1>5, <1>6 DEF Moves, Sound

\* So where an EPUB's text follows no cover.
LEMMA OpenedTextMoves ==
    ASSUME ReaderAssumption,
           NEW r,
           Sound(r),
           r.book \in Epubs,
           Fresh(r),
           Served(r),
           NEW available \in BOOLEAN,
           available => r.book \in Epubs,
           NEW page \in PageStarts,
           page = server.place.page
    PROVE  Moves(r, StartBody([r EXCEPT !.contentReady = TRUE, !.coverAvailable = available], page))
<1> DEFINE n == StartBody([r EXCEPT !.contentReady = TRUE, !.coverAvailable = available], page)
<1>1. DOMAIN r = Fields
  BY DEF Sound, Shaped
<1>2. Shaped(n)
  <2>1. /\ DOMAIN n = Fields /\ n.showing = FALSE /\ n.start = page
        /\ n.current = r.current /\ n.number = r.number /\ n.target = r.target
        /\ n.next = r.next /\ n.query = r.query /\ n.request = r.request
        /\ n.coverParts = r.coverParts /\ n.goal = r.goal
    BY <1>1, FieldsAre DEF StartBody, StartPage
  <2> HIDE DEF n
  <2> QED
    BY <2>1 DEF Sound, Shaped
<1>3. Laid(n)
  BY <1>1, FieldsAre, NoBlocks DEF Sound, Laid, StartBody, StartPage, Fresh
<1>4. WayBack(n)
  BY <1>1, FieldsAre, NoBlocks DEF Sound, Laid, WayBack, UnderWay, StartBody, StartPage, Fresh
<1>5. Follows(r, n) /\ Turns(r, n)
  BY <1>1, FieldsAre DEF Shaped, Follows, Turns, Fresh, Sound, WayBack, StartBody, StartPage, Fresh
<1>6. ASSUME Placed(r) PROVE Placed(n)
  BY <1>1, <1>6, FieldsAre DEF Placed, Served, Fresh, Sound, WayBack, StartBody, StartPage, Fresh
<1> QED
  BY <1>2, <1>3, <1>4, <1>5, <1>6 DEF Moves, Sound

\* The index is there and the reader stays where it is.
LEMMA CountedMoves ==
    ASSUME ReaderAssumption,
           NEW r,
           Sound(r),
           NEW indexed \in BOOLEAN,
           Served(r),
           ~ indexed \/ r.navigated \/ r.showing \/ r.coverWaiting
    PROVE  Moves(r, [r EXCEPT !.indexed = indexed])
<1> DEFINE n == [r EXCEPT !.indexed = indexed]
<1>1. DOMAIN r = Fields
  BY DEF Sound, Shaped
<1>2. Shaped(n)
  BY <1>1, FieldsAre DEF Sound, Shaped, Served
<1>3. Laid(n)
  BY <1>1, FieldsAre DEF Sound, Laid, Served
<1>4. WayBack(n)
  BY <1>1, FieldsAre DEF Sound, Laid, WayBack, UnderWay, Served
<1>5. Follows(r, n) /\ Turns(r, n)
  BY <1>1, FieldsAre DEF Shaped, Follows, Turns, Fresh, Sound, WayBack
<1>6. ASSUME Placed(r) PROVE Placed(n)
  BY <1>1, <1>6, FieldsAre DEF Placed, Served, Fresh, Sound, WayBack
<1> QED
  BY <1>2, <1>3, <1>4, <1>5, <1>6 DEF Moves, Sound

\* The worker's place is the page that is shown: its number is known.
LEMMA ReadyHereMoves ==
    ASSUME ReaderAssumption,
           NEW r,
           Sound(r),
           NEW page \in PageStarts,
           Served(r),
           page = server.place.page,
           r.current = page,
           r.valid,
           ~ r.busy
    PROVE  Moves(r, [[r EXCEPT !.indexed = TRUE]
                     EXCEPT !.number = page, !.placed = TRUE, !.goal = None])
<1> DEFINE n == [[r EXCEPT !.indexed = TRUE]
                     EXCEPT !.number = page, !.placed = TRUE, !.goal = None]
<1>1. DOMAIN r = Fields
  BY DEF Sound, Shaped
<1>2. Shaped(n)
  BY <1>1, FieldsAre DEF Sound, Shaped, Served
<1>3. Laid(n)
  BY <1>1, FieldsAre DEF Sound, Laid, Served
<1>4. WayBack(n)
  BY <1>1, FieldsAre DEF Sound, Laid, WayBack, UnderWay, Served
<1>5. Follows(r, n) /\ Turns(r, n)
  BY <1>1, FieldsAre DEF Shaped, Follows, Turns, Fresh, Sound, WayBack
<1>6. ASSUME Placed(r) PROVE Placed(n)
  BY <1>1, <1>6, FieldsAre DEF Placed, Served, Fresh, Sound, WayBack
<1> QED
  BY <1>2, <1>3, <1>4, <1>5, <1>6 DEF Moves, Sound

\* The worker's place is another page, and the user has turned none: the reader goes
\* there.
LEMMA ReadyThereMoves ==
    ASSUME ReaderAssumption,
           NEW r,
           Sound(r),
           NEW page \in PageStarts,
           Served(r),
           page = server.place.page,
           ~ r.navigated,
           ~ r.showing,
           ~ r.coverWaiting
    PROVE  Moves(r, StartPage([[r EXCEPT !.indexed = TRUE] EXCEPT !.history = <<>>,
                              !.goal = [page |-> page, number |-> page]], page, "open"))
<1> DEFINE n == StartPage([[r EXCEPT !.indexed = TRUE] EXCEPT !.history = <<>>,
                              !.goal = [page |-> page, number |-> page]], page, "open")
<1>1. DOMAIN r = Fields
  BY DEF Sound, Shaped
<1>2. Shaped(n)
  BY <1>1, FieldsAre, NoBlocks DEF Sound, Shaped, StartPage
<1>3. Laid(n)
  BY <1>1, FieldsAre, NoBlocks DEF Sound, Laid, StartPage
<1>4. WayBack(n)
  BY <1>1, FieldsAre, NoBlocks DEF Sound, Laid, WayBack, UnderWay, StartPage
<1>5. Follows(r, n) /\ Turns(r, n)
  BY <1>1, FieldsAre DEF Shaped, Follows, Turns, Fresh, Sound, WayBack, StartPage
<1>6. ASSUME Placed(r) PROVE Placed(n)
  BY <1>1, <1>6, FieldsAre DEF Placed, Served, Fresh, Sound, WayBack, StartPage
<1> QED
  BY <1>2, <1>3, <1>4, <1>5, <1>6 DEF Moves, Sound

\* An answer about a number is in.
LEMMA AnsweredKeeps ==
    ASSUME ReaderAssumption,
           NEW r,
           Sound(r),
           r.asking,
           ~ r.lookup
    PROVE  Keeps(r, [r EXCEPT !.asking = FALSE, !.lookup = FALSE])
<1> DEFINE n == [r EXCEPT !.asking = FALSE, !.lookup = FALSE]
<1>1. DOMAIN r = Fields
  BY DEF Sound, Shaped
<1>2. Shaped(n)
  BY <1>1, FieldsAre DEF Sound, Shaped
<1>3. Laid(n)
  BY <1>1, FieldsAre DEF Sound, Laid
<1>4. WayBack(n)
  BY <1>1, FieldsAre DEF Sound, Laid, WayBack, UnderWay
<1>5. Follows(r, n) /\ Turns(r, n) /\ (Fresh(r) => Fresh(n))
  BY <1>1, FieldsAre DEF Shaped, Follows, Turns, Fresh, Sound, WayBack
<1>6. ASSUME Placed(r) PROVE Placed(n)
  BY <1>1, <1>6, FieldsAre DEF Placed, Served, Fresh, Sound, WayBack
<1> QED
  BY <1>2, <1>3, <1>4, <1>5, <1>6 DEF Keeps, Moves, Sound

\* The index is lost: the number is not known, the page stays.
LEMMA LostKeeps ==
    ASSUME ReaderAssumption,
           NEW r,
           Sound(r),
           r.asking,
           ~ r.lookup
    PROVE  Keeps(r, [[r EXCEPT !.asking = FALSE, !.lookup = FALSE] EXCEPT !.indexed = FALSE, !.placed = FALSE])
<1> DEFINE n == [[r EXCEPT !.asking = FALSE, !.lookup = FALSE] EXCEPT !.indexed = FALSE, !.placed = FALSE]
<1>1. DOMAIN r = Fields
  BY DEF Sound, Shaped
<1>2. Shaped(n)
  BY <1>1, FieldsAre DEF Sound, Shaped
<1>3. Laid(n)
  BY <1>1, FieldsAre DEF Sound, Laid
<1>4. WayBack(n)
  BY <1>1, FieldsAre DEF Sound, Laid, WayBack, UnderWay
<1>5. Follows(r, n) /\ Turns(r, n) /\ (Fresh(r) => Fresh(n))
  BY <1>1, FieldsAre DEF Shaped, Follows, Turns, Fresh, Sound, WayBack
<1>6. ASSUME Placed(r) PROVE Placed(n)
  BY <1>1, <1>6, FieldsAre DEF Placed, Served, Fresh, Sound, WayBack
<1> QED
  BY <1>2, <1>3, <1>4, <1>5, <1>6 DEF Keeps, Moves, Sound

\* The index is lost while a page was looked up: the loading ends with an error.
LEMMA LookupLostKeeps ==
    ASSUME ReaderAssumption,
           NEW r,
           Sound(r),
           r.asking,
           r.lookup
    PROVE  Keeps(r, Fail([[r EXCEPT !.asking = FALSE, !.lookup = FALSE] EXCEPT !.indexed = FALSE, !.placed = FALSE]))
<1> DEFINE n == Fail([[r EXCEPT !.asking = FALSE, !.lookup = FALSE] EXCEPT !.indexed = FALSE, !.placed = FALSE])
<1>1. DOMAIN r = Fields
  BY DEF Sound, Shaped
<1>2. Shaped(n)
  BY <1>1, FieldsAre DEF Sound, Shaped, Fail
<1>3. Laid(n)
  BY <1>1, FieldsAre DEF Sound, Laid, Fail
<1>4. WayBack(n)
  BY <1>1, FieldsAre DEF Sound, Laid, WayBack, UnderWay, Fail
<1>5. Follows(r, n) /\ Turns(r, n) /\ (Fresh(r) => Fresh(n))
  BY <1>1, FieldsAre DEF Shaped, Follows, Turns, Fresh, Sound, WayBack, Fail
<1>6. ASSUME Placed(r) PROVE Placed(n)
  BY <1>1, <1>6, FieldsAre DEF Placed, Served, Fresh, Sound, WayBack, Fail
<1> QED
  BY <1>2, <1>3, <1>4, <1>5, <1>6 DEF Keeps, Moves, Sound

\* The index has found the page before the current one, which is loaded.
LEMMA LookupFoundKeeps ==
    ASSUME ReaderAssumption,
           NEW r,
           Sound(r),
           r.asking,
           NEW page \in PageStarts,
           r.lookup,
           page + 1 = r.current
    PROVE  Keeps(r, StartPage([[r EXCEPT !.asking = FALSE, !.lookup = FALSE]
                              EXCEPT !.goal = [page |-> page, number |-> page]],
                           page, "previous"))
<1> DEFINE n == StartPage([[r EXCEPT !.asking = FALSE, !.lookup = FALSE]
                              EXCEPT !.goal = [page |-> page, number |-> page]],
                           page, "previous")
<1>1. DOMAIN r = Fields
  BY DEF Sound, Shaped
<1>2. Shaped(n)
  BY <1>1, FieldsAre, NoBlocks, LeadsFromNothing DEF Sound, Shaped, StartPage
<1>3. Laid(n)
  BY <1>1, FieldsAre, NoBlocks, LeadsFromNothing DEF Sound, Laid, StartPage
<1>4. WayBack(n)
  BY <1>1, FieldsAre, NoBlocks, LeadsFromNothing DEF Sound, Laid, WayBack, UnderWay, StartPage
<1>5. Follows(r, n) /\ Turns(r, n) /\ (Fresh(r) => Fresh(n))
  BY <1>1, FieldsAre DEF Shaped, Follows, Turns, Fresh, Sound, WayBack, StartPage
<1>6. ASSUME Placed(r) PROVE Placed(n)
  BY <1>1, <1>6, FieldsAre DEF Placed, Served, Fresh, Sound, WayBack, StartPage
<1> QED
  BY <1>2, <1>3, <1>4, <1>5, <1>6 DEF Keeps, Moves, Sound

\* The index has told the number of the current page.
LEMMA NumberFoundKeeps ==
    ASSUME ReaderAssumption,
           NEW r,
           Sound(r),
           r.asking,
           NEW page \in PageStarts,
           ~ r.lookup,
           page = r.current
    PROVE  Keeps(r, [[r EXCEPT !.asking = FALSE, !.lookup = FALSE]
                     EXCEPT !.number = page, !.placed = TRUE, !.goal = None])
<1> DEFINE n == [[r EXCEPT !.asking = FALSE, !.lookup = FALSE]
                     EXCEPT !.number = page, !.placed = TRUE, !.goal = None]
<1>1. DOMAIN r = Fields
  BY DEF Sound, Shaped
<1>2. Shaped(n)
  BY <1>1, FieldsAre DEF Sound, Shaped
<1>3. Laid(n)
  BY <1>1, FieldsAre DEF Sound, Laid
<1>4. WayBack(n)
  BY <1>1, FieldsAre DEF Sound, Laid, WayBack, UnderWay
<1>5. Follows(r, n) /\ Turns(r, n) /\ (Fresh(r) => Fresh(n))
  BY <1>1, FieldsAre DEF Shaped, Follows, Turns, Fresh, Sound, WayBack
<1>6. ASSUME Placed(r) PROVE Placed(n)
  BY <1>1, <1>6, FieldsAre DEF Placed, Served, Fresh, Sound, WayBack
<1> QED
  BY <1>2, <1>3, <1>4, <1>5, <1>6 DEF Keeps, Moves, Sound

-----------------------------------------------------------------------------
(* The messages of the session as the reader moves.                        *)

\* Nothing done is a step as well.
LEMMA KeepsSame == ASSUME NEW r, Sound(r) PROVE Keeps(r, r) /\ SameView(r, r)
<1>1. PICK query \in Nat : query = r.query
  BY DEF Sound, Shaped
<1>2. r.query <= r.query
  BY <1>1
<1> QED
  BY <1>2 DEF Keeps, Moves, Follows, Turns, SameView

\* An answer fits the query it belongs to as long as that query is out, and later too,
\* when it is stale.
LEMMA FitsStays ==
    ASSUME NEW r, NEW n, Sound(r), Moves(r, n), NEW request \in Nat, NEW page, Fits(r, request, page)
    PROVE  Fits(n, request, page)
<1>1. r.query \in Nat /\ n.query \in Nat
  BY DEF Moves, Sound, Shaped
<1>2. request <= n.query /\ (request = n.query => n.query = r.query)
  BY <1>1 DEF Fits, Moves, Follows
<1> QED
  BY <1>2 DEF Fits, Moves, Follows

\* A step of the reader leaves the messages under way what they were: answers to it or
\* stale.
LEMMA OwnStays ==
    ASSUME Sound(reader), Moves(reader, reader'), UNCHANGED <<server, serial>>
    PROVE  /\ OwnReads \subseteq OwnReads' /\ OwnCommands \subseteq OwnCommands'
           /\ OwnResults \subseteq OwnResults'
           /\ \A m \in OwnEvents :
                 (Told(m) /\ m.type = "opened" => (Fresh(reader) => Fresh(reader')))
                    => m \in OwnEvents'
<1>1. reader'.active = reader.active /\ reader'.id = reader.id /\ reader'.book = reader.book
  BY DEF Moves, Follows
<1>2. \A m : Mine(m)' <=> Mine(m)
  BY <1>1 DEF Mine
<1>3. Served(reader)' <=> Served(reader)
  BY <1>1 DEF Served
<1>4. OwnReads \subseteq OwnReads'
  BY <1>1, <1>2 DEF OwnReads
<1>5. OwnResults \subseteq OwnResults'
  BY <1>1, <1>2 DEF OwnResults
<1>6. ASSUME NEW m \in OwnCommands PROVE m \in OwnCommands'
  <2>1. Mine(m) /\ m.type = "query" => Fits(reader', m.arg.request, m.arg.page)
    <3>1. SUFFICES ASSUME Mine(m), m.type = "query"
                   PROVE  Fits(reader', m.arg.request, m.arg.page)
      OBVIOUS
    <3>2. m.arg.request \in Nat /\ Fits(reader, m.arg.request, m.arg.page)
      BY <3>1 DEF OwnCommands, Queries, Reads, Opens, Closes
    <3> QED
      BY <3>2, FitsStays
  <2> QED
    BY <1>1, <1>2, <2>1 DEF OwnCommands
<1>7. ASSUME NEW m \in OwnEvents,
             Told(m) /\ m.type = "opened" => (Fresh(reader) => Fresh(reader'))
      PROVE  m \in OwnEvents'
  <2>1. Mine(m) /\ m.type = "position" => Fits(reader', m.request, m.page)
    <3>1. SUFFICES ASSUME Mine(m), m.type = "position"
                   PROVE  Fits(reader', m.request, m.page)
      OBVIOUS
    <3>2. m.request \in Nat /\ Fits(reader, m.request, m.page)
      BY <3>1 DEF OwnEvents, Events
    <3> QED
      BY <3>2, FitsStays
  <2>2. Told(m)' <=> Told(m)
    BY <1>2 DEF Told
  <2>3. Told(m) => Served(reader)' /\ m.page = server'.place.page
                   /\ (m.atCover => server'.place.atCover /\ server'.book \in Epubs)
    BY <1>3 DEF OwnEvents
  <2>4. Told(m) /\ m.type = "opened" /\ reader'.book \in Epubs => Fresh(reader')
    BY <1>1, <1>7 DEF OwnEvents
  <2> QED
    BY <1>1, <1>2, <2>1, <2>2, <2>3, <2>4 DEF OwnEvents
<1> QED
  BY <1>4, <1>5, <1>6, <1>7

\* A message the reader sends is its own.
LEMMA AskedOwn ==
    ASSUME SessionInv, reader.active, NEW r, Moves(reader, r), Moves(reader, reader'),
           UNCHANGED serial, NEW arg \in [request : Nat, at : {"text", "cover"} \X Nat \X Nat]
    PROVE  Command("read", r, arg) \in OwnReads' \cap OwnCommands'
<1>1. /\ r.id = reader.id /\ r.book = reader.book /\ r.generation = reader.generation
      /\ reader'.active = reader.active /\ reader'.id = reader.id /\ reader'.book = reader.book
  BY DEF Moves, Follows
<1>2. /\ reader.id \in Nat /\ reader.id <= serial /\ reader.book \in Books
      /\ reader.generation \in Nat
  BY DEF SessionInv, MessageShape
<1>3. PICK c : c = Command("read", r, arg)
  OBVIOUS
<1>4. c \in Reads /\ c.session = reader.id /\ c.book = reader.book /\ c.type = "read"
  BY <1>1, <1>2, <1>3 DEF Command, Reads
<1> QED
  BY <1>1, <1>2, <1>3, <1>4 DEF OwnReads, OwnCommands

\* A query that is sent fits the reader that sent it.
LEMMA QueriedOwn ==
    ASSUME SessionInv, reader.active, NEW r, Moves(reader, r), Moves(reader, reader'),
           UNCHANGED serial, NEW arg \in [request : Nat, page : PageStarts],
           Fits(reader', arg.request, arg.page)
    PROVE  Command("query", r, arg) \in OwnCommands'
<1>1. /\ r.id = reader.id /\ r.book = reader.book /\ r.generation = reader.generation
      /\ reader'.active = reader.active /\ reader'.id = reader.id /\ reader'.book = reader.book
  BY DEF Moves, Follows
<1>2. /\ reader.id \in Nat /\ reader.id <= serial /\ reader.book \in Books
      /\ reader.generation \in Nat
  BY DEF SessionInv, MessageShape
<1>3. PICK c : c = Command("query", r, arg)
  OBVIOUS
<1>4. /\ c \in Queries /\ c.session = reader.id /\ c.book = reader.book
      /\ c.type = "query" /\ c.arg = arg
  BY <1>1, <1>2, <1>3 DEF Command, Queries
<1> QED
  BY <1>1, <1>2, <1>3, <1>4 DEF OwnCommands

\* A queue after a step: the same, without its head, with one more, or both.
Moved(queue, next, S) ==
    \/ next = queue
    \/ queue # <<>> /\ next = Tail(queue)
    \/ \E m \in S : next = Append(queue, m)
    \/ queue # <<>> /\ \E m \in S : next = Append(Tail(queue), m)

\* Queues that move hold old messages and those that came.
LEMMA MovedIn ==
    ASSUME NEW S, NEW T, S \subseteq T, NEW R, R \subseteq T,
           NEW queue \in Seq(S), NEW next, Moved(queue, next, R)
    PROVE  next \in Seq(T)
<1>1. queue \in Seq(T)
  BY SubsetIn
<1>2. CASE next = queue
  BY <1>1, <1>2
<1>3. CASE queue # <<>> /\ next = Tail(queue)
  BY <1>1, <1>3, HeadIn
<1>4. CASE \E m \in R : next = Append(queue, m)
  BY <1>1, <1>4, AppendIn
<1>5. CASE queue # <<>> /\ \E m \in R : next = Append(Tail(queue), m)
  BY <1>1, <1>5, AppendIn
<1> QED
  BY <1>2, <1>3, <1>4, <1>5 DEF Moved

\* The places of what is left of a queue.
LEMMA TailAt ==
    ASSUME NEW S, NEW q \in Seq(S), q # <<>>
    PROVE  /\ Len(q) \in Nat \ {0} /\ Len(Tail(q)) = Len(q) - 1
           /\ \A i \in 1 .. Len(q) - 1 : Tail(q)[i] = q[i + 1] /\ i + 1 \in 1 .. Len(q)
           /\ Head(q) = q[1]
  OBVIOUS

\* The places of a queue with a message more.
LEMMA AppendAt ==
    ASSUME NEW S, NEW q \in Seq(S), NEW x
    PROVE  /\ Len(q) \in Nat /\ Len(Append(q, x)) = Len(q) + 1
           /\ Append(q, x)[Len(q) + 1] = x
           /\ \A i \in 1 .. Len(q) : Append(q, x)[i] = q[i]
  OBVIOUS

\* Each element of a queue that has moved is an older one, in the same order, or new.
LEMMA MovedFrom ==
    ASSUME NEW S, NEW queue \in Seq(S), NEW next, NEW R, Moved(queue, next, R)
    PROVE  \A j \in 1 .. Len(next) :
              \/ \E m \in R :
                    /\ next[j] = m
                    /\ \A i \in 1 .. Len(next) : i < j =>
                          \E k \in 1 .. Len(queue) : next[i] = queue[k]
              \/ \E l \in 1 .. Len(queue) :
                    /\ next[j] = queue[l]
                    /\ \A i \in 1 .. Len(next) : i < j =>
                          \E k \in 1 .. Len(queue) : k < l /\ next[i] = queue[k]
<1>1. CASE next = queue
  BY <1>1
<1>2. CASE queue # <<>> /\ next = Tail(queue)
  <2>1. PICK n \in Nat : n + 1 = Len(queue)
    <3>1. Len(queue) - 1 \in Nat /\ (Len(queue) - 1) + 1 = Len(queue)
      BY <1>2, TailAt
    <3> QED
      BY <3>1
  <2>2. Len(next) = n /\ \A i \in 1 .. n : next[i] = queue[i + 1] /\ i + 1 \in 1 .. Len(queue)
    BY <1>2, <2>1, TailAt
  <2>3. ASSUME NEW j \in 1 .. n
        PROVE  \E l \in 1 .. Len(queue) :
                    /\ next[j] = queue[l]
                    /\ \A i \in 1 .. n : i < j =>
                          \E k \in 1 .. Len(queue) : k < l /\ next[i] = queue[k]
    <3>1. \A i \in 1 .. n : i < j => i + 1 < j + 1
      OBVIOUS
    <3> QED
      BY <2>2, <3>1
  <2> QED
    BY <2>2, <2>3
<1>3. CASE \E m \in R : next = Append(queue, m)
  <2>1. PICK m \in R : next = Append(queue, m)
    BY <1>3
  <2>2. PICK n \in Nat : n = Len(queue)
    OBVIOUS
  <2>3. /\ Len(next) = n + 1 /\ next[n + 1] = m
        /\ \A i \in 1 .. n : next[i] = queue[i]
    BY <2>1, <2>2, AppendAt
  <2>4. ASSUME NEW j \in 1 .. n + 1, j # n + 1
        PROVE  \E l \in 1 .. n :
                    /\ next[j] = queue[l]
                    /\ \A i \in 1 .. n + 1 : i < j =>
                          \E k \in 1 .. n : k < l /\ next[i] = queue[k]
    <3>1. j \in 1 .. n /\ \A i \in 1 .. n + 1 : i < j => i \in 1 .. n
      BY <2>4
    <3> QED
      BY <2>3, <3>1
  <2>5. \A i \in 1 .. n + 1 : i < n + 1 => \E k \in 1 .. n : next[i] = queue[k]
    BY <2>3
  <2> QED
    BY <2>2, <2>3, <2>4, <2>5
<1>4. CASE queue # <<>> /\ \E m \in R : next = Append(Tail(queue), m)
  <2>1. PICK m \in R : next = Append(Tail(queue), m)
    BY <1>4
  <2>2. PICK n \in Nat : n + 1 = Len(queue)
    <3>1. Len(queue) - 1 \in Nat /\ (Len(queue) - 1) + 1 = Len(queue)
      BY <1>4, TailAt
    <3> QED
      BY <3>1
  <2>3. PICK t \in Seq(S) : t = Tail(queue)
    BY <1>4, HeadIn
  <2>4. Len(t) = n /\ \A i \in 1 .. n : t[i] = queue[i + 1] /\ i + 1 \in 1 .. Len(queue)
    BY <1>4, <2>2, <2>3, TailAt
  <2>5. /\ Len(next) = n + 1 /\ next[n + 1] = m
        /\ \A i \in 1 .. n : next[i] = queue[i + 1] /\ i + 1 \in 1 .. Len(queue)
    BY <2>1, <2>3, <2>4, AppendAt
  <2>6. ASSUME NEW j \in 1 .. n + 1, j # n + 1
        PROVE  \E l \in 1 .. Len(queue) :
                    /\ next[j] = queue[l]
                    /\ \A i \in 1 .. n + 1 : i < j =>
                          \E k \in 1 .. Len(queue) : k < l /\ next[i] = queue[k]
    <3>1. j \in 1 .. n /\ \A i \in 1 .. n + 1 : i < j => i \in 1 .. n /\ i + 1 < j + 1
      BY <2>6
    <3> QED
      BY <2>5, <3>1
  <2>7. \A i \in 1 .. n + 1 : i < n + 1 => \E k \in 1 .. Len(queue) : next[i] = queue[k]
    <3>1. \A i \in 1 .. n + 1 : i < n + 1 => i \in 1 .. n
      OBVIOUS
    <3> QED
      BY <2>5, <3>1
  <2>8. next[n + 1] = m /\ Len(next) = n + 1
    BY <2>5
  <2>9. ASSUME NEW j \in 1 .. n + 1
        PROVE  \/ \E x \in R :
                    /\ next[j] = x
                    /\ \A i \in 1 .. n + 1 : i < j =>
                          \E k \in 1 .. Len(queue) : next[i] = queue[k]
               \/ \E l \in 1 .. Len(queue) :
                    /\ next[j] = queue[l]
                    /\ \A i \in 1 .. n + 1 : i < j =>
                          \E k \in 1 .. Len(queue) : k < l /\ next[i] = queue[k]
    <3>1. CASE j = n + 1
      BY <2>7, <2>8, <3>1
    <3>2. CASE j # n + 1
      BY <2>6, <3>2
    <3> QED
      BY <3>1, <3>2
  <2> QED
    BY <2>8, <2>9
<1> QED
  BY <1>1, <1>2, <1>3, <1>4 DEF Moved

\* While queues move, no session is opened twice and no place told twice.
LEMMA OrderStays ==
    ASSUME InOrder, commands \in Seq(OwnCommands), events \in Seq(OwnEvents),
           NEW C, \A c \in C : c.type # "open", Moved(commands, commands', C),
           NEW E, Moved(events, events', E),
           \A e \in E : e.session = reader.id /\ e.type = "opened" /\ e.contentReady =>
              \A i \in 1 .. Len(events) : ~ Told(events[i]),
           reader'.active => reader.active /\ reader'.id = reader.id,
           reader'.active /\ server'.session = reader'.id =>
              \A i \in 1 .. Len(commands') : commands'[i].type # "open"
    PROVE  InOrder'
<1>1. ASSUME NEW i \in 1 .. Len(commands'), NEW j \in 1 .. Len(commands'), i < j,
             commands'[j].type = "open", commands'[i].type = "open",
             reader'.active, commands'[i].session = reader'.id
      PROVE  FALSE
  <2>1. PICK b : b = commands'
    OBVIOUS
  <2>2. i \in 1 .. Len(b) /\ j \in 1 .. Len(b) /\ Moved(commands, b, C)
    BY <1>1, <2>1
  <2>3. b[j].type = "open" /\ b[i].type = "open" /\ b[i].session = reader.id /\ reader.active
    BY <1>1, <2>1
  <2>4. PICK l \in 1 .. Len(commands), k \in 1 .. Len(commands) :
           k < l /\ b[j] = commands[l] /\ b[i] = commands[k]
    BY <1>1, <2>2, <2>3, MovedFrom
  <2> QED
    BY <2>3, <2>4 DEF InOrder, Mine
<1>2. ASSUME NEW i \in 1 .. Len(events'), NEW j \in 1 .. Len(events'), i < j,
             Told(events[i])', Told(events[j])', events'[j].type = "opened"
      PROVE  FALSE
  <2>1. PICK b : b = events'
    OBVIOUS
  <2>2. i \in 1 .. Len(b) /\ j \in 1 .. Len(b) /\ Moved(events, b, E)
    BY <1>2, <2>1
  <2>3. /\ Told(b[i]) /\ Told(b[j]) /\ b[j].type = "opened"
        /\ b[j].session = reader.id /\ b[j].contentReady
    BY <1>2, <2>1 DEF Told, Mine
  <2>4. \/ \E m \in E : /\ b[j] = m
                        /\ \E k \in 1 .. Len(events) : b[i] = events[k]
        \/ \E l \in 1 .. Len(events), k \in 1 .. Len(events) :
              k < l /\ b[j] = events[l] /\ b[i] = events[k]
    <3>1. \A x \in 1 .. Len(b) :
              \/ \E m \in E :
                    /\ b[x] = m
                    /\ \A y \in 1 .. Len(b) : y < x =>
                          \E k \in 1 .. Len(events) : b[y] = events[k]
              \/ \E l \in 1 .. Len(events) :
                    /\ b[x] = events[l]
                    /\ \A y \in 1 .. Len(b) : y < x =>
                          \E k \in 1 .. Len(events) : k < l /\ b[y] = events[k]
      BY <2>2, MovedFrom
    <3> QED
      BY <1>2, <2>2, <3>1
  <2> QED
    BY <2>3, <2>4 DEF InOrder
<1> QED
  BY <1>1, <1>2 DEF InOrder, Mine, Told

\* What is in a queue that moved is new or was in it.
LEMMA MovedAll ==
    ASSUME NEW S, NEW queue \in Seq(S), NEW next, NEW R, Moved(queue, next, R)
    PROVE  \A j \in 1 .. Len(next) :
              (\E m \in R : next[j] = m) \/ \E l \in 1 .. Len(queue) : next[j] = queue[l]
  BY MovedFrom

\* What the reader sends to a session that is open.
Asks == {c \in OwnCommands : c.type # "open"}

\* A step of the reader, or of what brings it its messages.
LEMMA ReaderStep ==
    ASSUME SessionInv, Moves(reader, reader'), UNCHANGED <<server, saved, serial>>,
           generation' \in Nat, Moved(reads, reads', OwnReads'),
           Moved(commands, commands', Asks'),
           Moved(events, events', {}), Moved(results, results', {}),
           \/ Fresh(reader) => Fresh(reader')
           \/ events # <<>> /\ events' = Tail(events) /\ Told(Head(events))
    PROVE  SessionInv'
<1>1. /\ Sound(reader) /\ InOrder
      /\ reads \in Seq(OwnReads) /\ commands \in Seq(OwnCommands)
      /\ events \in Seq(OwnEvents) /\ results \in Seq(OwnResults)
  BY DEF SessionInv, MessageShape
<1>2. /\ OwnReads \subseteq OwnReads' /\ OwnCommands \subseteq OwnCommands'
      /\ OwnResults \subseteq OwnResults'
      /\ \A m \in OwnEvents :
            (Told(m) /\ m.type = "opened" => (Fresh(reader) => Fresh(reader')))
               => m \in OwnEvents'
  BY <1>1, OwnStays
<1>3. reads' \in Seq(OwnReads')
  BY <1>1, <1>2, MovedIn
<1>4. commands' \in Seq(OwnCommands')
  <2>1. Asks' \subseteq OwnCommands'
    BY DEF Asks
  <2> QED
    BY <1>1, <1>2, <2>1, MovedIn
<1>5. results' \in Seq(OwnResults')
  <2>1. {} \subseteq OwnResults'
    OBVIOUS
  <2> QED
    BY <1>1, <1>2, <2>1, MovedIn
<1>6. events' \in Seq(OwnEvents')
  <2>1. CASE Fresh(reader) => Fresh(reader')
    <3>1. OwnEvents \subseteq OwnEvents' /\ {} \subseteq OwnEvents'
      BY <1>2, <2>1
    <3> QED
      BY <1>1, <3>1, MovedIn
  <2>2. CASE events # <<>> /\ events' = Tail(events) /\ Told(Head(events))
    <3>1. PICK n \in Nat : n + 1 = Len(events)
      <4>1. Len(events) - 1 \in Nat /\ (Len(events) - 1) + 1 = Len(events)
        BY <1>1, <2>2, TailAt
      <4> QED
        BY <4>1
    <3>2. PICK t : t = Tail(events)
      OBVIOUS
    <3>3. /\ t \in Seq(OwnEvents) /\ Len(t) = n /\ Head(events) = events[1]
          /\ \A i \in 1 .. n : t[i] = events[i + 1] /\ i + 1 \in 1 .. Len(events)
      BY <1>1, <2>2, <3>1, <3>2, TailAt, HeadIn
    <3>4. ASSUME NEW i \in 1 .. n PROVE t[i] \in OwnEvents'
      <4>1. 1 \in 1 .. Len(events) /\ i + 1 \in 1 .. Len(events) /\ 1 < i + 1
        BY <3>1
      <4>2. ~ (Told(t[i]) /\ t[i].type = "opened")
        BY <1>1, <2>2, <3>3, <4>1 DEF InOrder
      <4>3. t[i] \in OwnEvents
        BY <3>3
      <4> QED
        BY <1>2, <4>2, <4>3
    <3>5. t \in Seq(OwnEvents')
      BY <3>3, <3>4
    <3> QED
      BY <2>2, <3>2, <3>5
  <2> QED
    BY <2>1, <2>2
<1>7. /\ reader'.active = reader.active /\ reader'.id = reader.id /\ reader'.book = reader.book
      /\ reader'.generation = reader.generation
  BY DEF Moves, Follows
<1>8. reader'.active /\ server'.session = reader'.id =>
         \A i \in 1 .. Len(commands') : commands'[i].type # "open"
  <2>1. SUFFICES ASSUME reader.active, server.session = reader.id
                 PROVE  \A i \in 1 .. Len(commands') : commands'[i].type # "open"
    BY <1>7
  <2>2. \A i \in 1 .. Len(commands) : commands[i].type # "open"
    BY <1>1, <2>1 DEF InOrder
  <2>3. PICK next : next = commands'
    OBVIOUS
  <2>4. \A j \in 1 .. Len(next) :
           (\E m \in Asks' : next[j] = m) \/ \E l \in 1 .. Len(commands) : next[j] = commands[l]
    BY <1>1, <2>3, MovedAll
  <2> QED
    BY <2>2, <2>3, <2>4 DEF Asks
<1>9. InOrder'
  <2>1. \A e \in {} : e.session = reader.id /\ e.type = "opened" /\ e.contentReady =>
              \A i \in 1 .. Len(events) : ~ Told(events[i])
    OBVIOUS
  <2>2. \A c \in Asks' : c.type # "open"
    BY DEF Asks
  <2> QED
    BY <1>1, <1>7, <1>8, <2>1, <2>2, OrderStays
<1>10. Placed(reader)'
  <2>1. Placed(reader')
    BY DEF SessionInv, Moves
  <2> QED
    BY <2>1 DEF Placed, Served, Fresh
<1>11. MessageShape'
  BY <1>3, <1>4, <1>5, <1>6, <1>7 DEF SessionInv, MessageShape, Servers
<1>12. Sound(reader)'
  BY DEF Moves, Sound, Shaped, Laid, WayBack, UnderWay, PageStarts
<1> QED
  BY <1>9, <1>10, <1>11, <1>12 DEF SessionInv

\* The cover's next part is asked for; if the queue refuses, the cover is given up.
LEMMA RequestCoverMoves ==
    ASSUME ReaderAssumption, SessionInv, reader.active, UNCHANGED serial,
           NEW r, Moves(reader, r), r.current = reader.current, r.coverWaiting,
           NEW refused, Moves(reader, refused), RequestCover(r, refused)
    PROVE  /\ Moves(reader, reader') /\ Moved(commands, commands', Asks')
           /\ Keeps(reader, r) /\ Keeps(reader, refused) => Keeps(reader, reader')
<1>1. CASE reader' = refused /\ commands' = commands
  BY <1>1 DEF Moved
<1>2. ASSUME NEW asked, NEW arg, NEW command,
             asked = [r EXCEPT !.request = @ + 1, !.waiting = TRUE,
                               !.requested = <<"cover", 0, r.coverParts + 1>>],
             arg = [request |-> asked.request, at |-> asked.requested],
             command = Command("read", r, arg),
             reader' = asked, commands' = Append(commands, command)
      PROVE  /\ Moves(reader, reader') /\ Moved(commands, commands', Asks')
             /\ Keeps(reader, r) => Keeps(reader, reader')
  <2>1. Sound(r) /\ Sound(reader)
    BY DEF Moves, SessionInv
  <2>2. /\ DOMAIN r = Fields /\ r.request \in Nat /\ r.coverParts \in Nat
        /\ r.request + 1 \in Nat /\ r.coverParts + 1 \in Nat
    BY <2>1 DEF Sound, Shaped
  <2>3. Keeps(r, asked)
    BY <1>2, <2>1, AskCoverKeeps
  <2>4. asked.current = reader.current
    BY <1>2, <2>2, FieldsAre
  <2>5. Moves(reader, asked) /\ (Keeps(reader, r) => Keeps(reader, asked))
    BY <2>1, <2>3, <2>4, MovesChain, KeepsChain DEF Keeps
  <2>6. asked.request = r.request + 1 /\ asked.requested = <<"cover", 0, r.coverParts + 1>>
    BY <1>2, <2>2, FieldsAre
  <2>7. arg \in [request : Nat, at : {"text", "cover"} \X Nat \X Nat]
    <3>1. PICK request \in Nat, part \in Nat : request = r.request + 1 /\ part = r.coverParts + 1
      BY <2>2
    <3>2. arg = [request |-> request, at |-> <<"cover", 0, part>>]
      BY <1>2, <2>6, <3>1
    <3>3. <<"cover", 0, part>> \in {"text", "cover"} \X Nat \X Nat
      OBVIOUS
    <3> QED
      BY <3>2, <3>3
  <2>8. command \in OwnCommands'
    BY <1>2, <2>5, <2>7, AskedOwn
  <2>9. command.type = "read"
    BY <1>2 DEF Command
  <2>10. command \in Asks'
    BY <2>8, <2>9 DEF Asks
  <2> QED
    BY <1>2, <2>5, <2>10 DEF Moved
<1> QED
  BY <1>1, <1>2 DEF RequestCover

\* The next block is asked for, of the storage or of the worker; if that fails, the
\* loading ends.
LEMMA RequestChunkKeeps ==
    ASSUME ReaderAssumption, SessionInv, reader.active, UNCHANGED serial,
           NEW r, Keeps(reader, r), SameView(reader, r), r.busy, ~ r.lookup,
           ~ r.coverWaiting, RequestChunk(r)
    PROVE  /\ Keeps(reader, reader') /\ Moved(commands, commands', Asks')
           /\ Moved(reads, reads', OwnReads')
<1>1. Sound(r) /\ Sound(reader)
  BY DEF Keeps, Moves, SessionInv
<1>2. CASE reader' = Fail(r) /\ UNCHANGED <<reads, commands>>
  BY <1>1, <1>2, FailKeeps, KeepsChain DEF Moved
<1>3. ASSUME NEW asked, NEW arg, NEW command,
             asked = [r EXCEPT !.request = @ + 1, !.waiting = TRUE,
                               !.requested = <<"text", r.start, Len(r.text) + 1>>],
             arg = [request |-> asked.request, at |-> asked.requested],
             command = Command("read", r, arg), reader' = asked
      PROVE  Keeps(reader, reader') /\ command \in Asks' /\ command \in OwnReads'
  <2>1. DOMAIN r = Fields /\ r.request \in Nat /\ r.start \in PageStarts
        /\ Len(r.text) \in Nat
    BY <1>1 DEF Sound, Shaped, Laid
  <2>2. r.request + 1 \in Nat /\ r.start \in Nat /\ Len(r.text) + 1 \in Nat
    <3>1. PICK request \in Nat, length \in Nat : request = r.request /\ length = Len(r.text)
      BY <2>1
    <3>2. request + 1 \in Nat /\ length + 1 \in Nat
      OBVIOUS
    <3>3. r.start \in Nat
      BY <2>1, PagesAre
    <3> QED
      BY <3>1, <3>2, <3>3
  <2>3. Keeps(r, asked)
    BY <1>1, <1>3, AskTextKeeps
  <2>4. asked.current = reader.current
    BY <1>3, <2>1, FieldsAre DEF SameView
  <2>5. Keeps(reader, asked)
    BY <1>1, <2>3, <2>4, KeepsChain DEF Keeps
  <2>6. asked.request = r.request + 1 /\ asked.requested = <<"text", r.start, Len(r.text) + 1>>
    BY <1>3, <2>1, FieldsAre
  <2>7. arg \in [request : Nat, at : {"text", "cover"} \X Nat \X Nat]
    BY <1>3, <2>2, <2>6
  <2>8. command \in OwnCommands' /\ command \in OwnReads'
    BY <1>3, <2>5, <2>7, AskedOwn DEF Keeps
  <2>9. command.type = "read"
    BY <1>3 DEF Command
  <2> QED
    BY <1>3, <2>5, <2>8, <2>9 DEF Asks
<1> QED
  BY <1>2, <1>3 DEF RequestChunk, Moved

\* The index is asked; if the queue refuses, the reader goes on without.
LEMMA QueryMoves ==
    ASSUME ReaderAssumption, SessionInv, reader.active, UNCHANGED serial,
           NEW r, Keeps(reader, r), r.current = reader.current, ~ r.busy,
           NEW byPage \in BOOLEAN,
           byPage => r.navigated /\ r.valid /\ ~ r.showing /\ r.history = <<>>,
           NEW page \in PageStarts, IF byPage THEN page + 1 = r.current ELSE page = r.current,
           NEW refused, Keeps(reader, refused), QueryIndex(r, byPage, page, refused)
    PROVE  Keeps(reader, reader') /\ Moved(commands, commands', Asks')
<1>1. CASE reader' = refused /\ commands' = commands
  BY <1>1 DEF Moved
<1>2. ASSUME NEW asked, NEW arg, NEW command,
             asked = [r EXCEPT !.query = @ + 1, !.asking = TRUE, !.queried = r.current,
                               !.lookup = byPage, !.busy = byPage,
                               !.waiting = IF byPage THEN FALSE ELSE @,
                               !.status = IF byPage THEN "loading" ELSE @],
             arg = [request |-> asked.query, page |-> page],
             command = Command("query", r, arg), r.indexed, ~ r.asking,
             reader' = asked, commands' = Append(commands, command)
      PROVE  Keeps(reader, reader') /\ Moved(commands, commands', Asks')
  <2>1. Sound(r) /\ Sound(reader)
    BY DEF Keeps, Moves, SessionInv
  <2>2. DOMAIN r = Fields /\ r.query \in Nat /\ r.query + 1 \in Nat
    <3>1. DOMAIN r = Fields /\ r.query \in Nat
      BY <2>1 DEF Sound, Shaped
    <3> QED
      BY <3>1
  <2>3. Keeps(r, asked)
    BY <1>2, <2>1, QueryKeeps
  <2>4. /\ asked.current = reader.current /\ asked.query = r.query + 1
        /\ asked.lookup = byPage /\ asked.queried = r.current
    BY <1>2, <2>2, FieldsAre
  <2>5. Keeps(reader, asked)
    BY <2>1, <2>3, <2>4, KeepsChain
  <2>6. arg \in [request : Nat, page : PageStarts] /\ arg.request = asked.query
        /\ arg.page = page
    BY <1>2, <2>2, <2>4
  <2>7. Fits(asked, arg.request, arg.page)
    BY <2>2, <2>4, <2>6 DEF Fits
  <2>8. command \in OwnCommands'
    BY <1>2, <2>5, <2>6, <2>7, QueriedOwn DEF Keeps
  <2>9. command.type = "query"
    BY <1>2 DEF Command
  <2>10. command \in Asks'
    BY <2>8, <2>9 DEF Asks
  <2> QED
    BY <1>2, <2>5, <2>10 DEF Moved
<1> QED
  BY <1>1, <1>2 DEF QueryIndex

-----------------------------------------------------------------------------
(* The steps of the reader.                                                *)

\* A view left alone twice is left alone.
LEMMA SameViewChain ==
    ASSUME NEW r, NEW m, NEW n, SameView(r, m), SameView(m, n)
    PROVE  SameView(r, n)
  BY DEF SameView

\* A step of the reader on its own, which takes nothing from a queue.
LEMMA ReaderOwnStep ==
    ASSUME SessionInv, Keeps(reader, reader'), UNCHANGED <<card, service, serial>>,
           Moved(reads, reads', OwnReads'), Moved(commands, commands', Asks')
    PROVE  SessionInv' /\ Turns(reader, reader')
<1>1. generation' \in Nat /\ UNCHANGED <<server, saved, serial>>
  BY DEF SessionInv, MessageShape, card, service
<1>2. Moved(events, events', {}) /\ Moved(results, results', {})
  BY DEF Moved, service
<1>3. Moves(reader, reader') /\ (Fresh(reader) => Fresh(reader'))
  BY DEF Keeps
<1>4. SessionInv'
  BY <1>1, <1>2, <1>3, ReaderStep
<1> QED
  BY <1>3, <1>4 DEF Moves

\* The tick: what has waited too long is given up, and what is due is asked for.
LEMMA RunningStep ==
    ASSUME ReaderAssumption, SessionInv, NEW queryLate \in BOOLEAN, NEW blockLate \in BOOLEAN,
           OnRunning(queryLate, blockLate)
    PROVE  SessionInv' /\ Turns(reader, reader')
<1> DEFINE r == IndexTimeout(CheckMedia(reader), queryLate)
           content == r.busy /\ ~ r.lookup
           unplaced == r.indexed /\ ~ r.placed /\ ~ r.busy /\ ~ r.asking /\ r.valid
                       /\ r.status = "ready"
<1>1. Sound(reader) /\ reader.active /\ UNCHANGED <<card, service, serial>> /\ UNCHANGED serial
  BY DEF OnRunning, SessionInv
<1>2. Keeps(reader, r) /\ SameView(reader, r)
  <2>1. PICK m : m = CheckMedia(reader)
    OBVIOUS
  <2>2. Keeps(reader, m) /\ SameView(reader, m)
    BY <1>1, <2>1, CheckMediaKeeps
  <2>3. Sound(m)
    BY <2>2 DEF Keeps, Moves
  <2>4. Keeps(m, IndexTimeout(m, queryLate)) /\ SameView(m, IndexTimeout(m, queryLate))
    BY <2>3, TimeoutKeeps
  <2> QED
    BY <1>1, <2>1, <2>2, <2>4, KeepsChain, SameViewChain
<1>3. \/ content /\ r.waiting /\ reader' = (IF blockLate THEN Fail(r) ELSE r)
         /\ UNCHANGED <<reads, commands>>
      \/ content /\ r.coverWaiting /\ RequestCover(r, r) /\ UNCHANGED reads
      \/ content /\ ~ r.coverWaiting /\ RequestChunk(r)
      \/ unplaced /\ QueryIndex(r, FALSE, r.current, r) /\ UNCHANGED reads
      \/ reader' = r /\ UNCHANGED <<reads, commands>>
  BY DEF OnRunning
<1>4. Sound(r) /\ r.current = reader.current
  BY <1>2 DEF Keeps, Moves, SameView
<1> HIDE DEF r
<1>5. CASE content /\ r.waiting /\ reader' = (IF blockLate THEN Fail(r) ELSE r)
           /\ UNCHANGED <<reads, commands>>
  <2>1. Keeps(reader, Fail(r))
    BY <1>1, <1>2, <1>4, FailKeeps, KeepsChain
  <2>2. Keeps(reader, reader')
    BY <1>2, <1>5, <2>1
  <2>3. Moved(reads, reads', OwnReads') /\ Moved(commands, commands', Asks')
    BY <1>5 DEF Moved
  <2> QED
    BY <1>1, <2>2, <2>3, ReaderOwnStep
<1>6. CASE content /\ r.coverWaiting /\ RequestCover(r, r) /\ UNCHANGED reads
  <2>1. Moves(reader, r)
    BY <1>2 DEF Keeps
  <2>2. Keeps(reader, reader') /\ Moved(commands, commands', Asks')
    BY <1>1, <1>2, <1>4, <1>6, <2>1, RequestCoverMoves
  <2>3. Moved(reads, reads', OwnReads')
    BY <1>6 DEF Moved
  <2> QED
    BY <1>1, <2>2, <2>3, ReaderOwnStep
<1>7. CASE content /\ ~ r.coverWaiting /\ RequestChunk(r)
  <2>1. /\ Keeps(reader, reader') /\ Moved(commands, commands', Asks')
        /\ Moved(reads, reads', OwnReads')
    BY <1>1, <1>2, <1>7, RequestChunkKeeps
  <2> QED
    BY <1>1, <2>1, ReaderOwnStep
<1>8. CASE unplaced /\ QueryIndex(r, FALSE, r.current, r) /\ UNCHANGED reads
  <2>1. r.current \in PageStarts
    BY <1>4 DEF Sound, Shaped
  <2>2. Keeps(reader, reader') /\ Moved(commands, commands', Asks')
    BY <1>1, <1>2, <1>4, <1>8, <2>1, QueryMoves
  <2>3. Moved(reads, reads', OwnReads')
    BY <1>8 DEF Moved
  <2> QED
    BY <1>1, <2>2, <2>3, ReaderOwnStep
<1>9. CASE reader' = r /\ UNCHANGED <<reads, commands>>
  <2>1. Moved(reads, reads', OwnReads') /\ Moved(commands, commands', Asks')
    BY <1>9 DEF Moved
  <2> QED
    BY <1>1, <1>2, <1>9, <2>1, ReaderOwnStep
<1> QED
  BY <1>3, <1>5, <1>6, <1>7, <1>8, <1>9

\* A reader whose card is there passes the check unchanged.
LEMMA MediaThere ==
    ASSUME NEW r, Sound(r), CheckMedia(r).mediaValid
    PROVE  CheckMedia(r) = r
<1>1. CASE r.mediaValid /\ ~ Current(r.generation)
  <2>1. DOMAIN r = Fields
    BY DEF Sound, Shaped
  <2>2. CheckMedia(r).mediaValid = FALSE
    BY <1>1, <2>1, FieldsAre DEF CheckMedia, Fail
  <2> QED
    BY <2>2
<1>2. CASE ~ (r.mediaValid /\ ~ Current(r.generation))
  BY <1>2 DEF CheckMedia
<1> QED
  BY <1>1, <1>2

\* Page forward: out of the cover, or to the next page.
LEMMA NextPageStep ==
    ASSUME ReaderAssumption, SessionInv, NextPage
    PROVE  SessionInv' /\ Turns(reader, reader')
<1> DEFINE r == CheckMedia(reader)
           turned == [r EXCEPT !.navigated = TRUE]
<1>1. /\ Sound(reader) /\ reader.active /\ ~ reader.busy /\ reader.status = "ready"
      /\ UNCHANGED <<card, service, serial>> /\ UNCHANGED <<reads, commands>>
  BY DEF NextPage, Paging, SessionInv
<1>2. Moved(reads, reads', OwnReads') /\ Moved(commands, commands', Asks')
  BY <1>1 DEF Moved
<1>3. Keeps(reader, r)
  BY <1>1, CheckMediaKeeps
<1>4. \/ reader' = r
      \/ r.mediaValid /\ r.showing /\ reader' = StartBody(turned, 0)
      \/ /\ r.mediaValid /\ ~ r.showing /\ ~ EndOfFile(r)
         /\ \/ /\ Numbered(r)
               /\ reader' = StartIndexedPage(turned, r.next, "next", r.number + 1)
            \/ reader' = StartPage(turned, r.next, "next")
  BY DEF NextPage
<1>5. CASE reader' = r
  BY <1>1, <1>2, <1>3, <1>5, ReaderOwnStep
<1>6. CASE r.mediaValid /\ r.showing /\ reader' = StartBody(turned, 0)
  <2>1. r = reader
    BY <1>1, <1>6, MediaThere
  <2>2. Keeps(reader, reader')
    BY <1>1, <1>6, <2>1, LeaveCoverKeeps
  <2> QED
    BY <1>1, <1>2, <2>2, ReaderOwnStep
<1>7. CASE /\ r.mediaValid /\ ~ r.showing /\ ~ EndOfFile(r)
           /\ \/ /\ Numbered(r)
                 /\ reader' = StartIndexedPage(turned, r.next, "next", r.number + 1)
              \/ reader' = StartPage(turned, r.next, "next")
  <2>1. r = reader
    BY <1>1, <1>7, MediaThere
  <2>2. /\ reader.next = reader.current + 1 /\ reader.next # PageCount
        /\ reader.current \in PageStarts
        /\ Numbered(reader) => reader.number = reader.current
    BY <1>1, <1>7, <2>1 DEF Sound, Shaped, WayBack, EndOfFile, Numbered
  <2>3. reader.next \in PageStarts
    BY <2>2 DEF PageStarts, ReaderAssumption
  <2>4. PICK page \in PageStarts : page = reader.next
    BY <2>3
  <2>5. page = reader.current + 1
        /\ (Numbered(reader) => page = reader.number + 1)
    BY <2>2, <2>4
  <2>6. Keeps(reader, StartPage([reader EXCEPT !.navigated = TRUE], page, "next"))
    BY <1>1, <1>7, <2>1, <2>5, TurnKeeps
  <2>7. Keeps(reader, StartIndexedPage([reader EXCEPT !.navigated = TRUE], page, "next", page))
    BY <1>1, <1>7, <2>1, <2>5, TurnIndexedKeeps
  <2>8. Keeps(reader, reader')
    BY <1>7, <2>1, <2>4, <2>5, <2>6, <2>7
  <2> QED
    BY <1>1, <1>2, <2>8, ReaderOwnStep
<1> QED
  BY <1>4, <1>5, <1>6, <1>7

\* Giving a cover up, as a step of a reader.
LEMMA GiveUpIsKept ==
    ASSUME NEW r, Sound(r), r.coverWaiting, r.navigated \/ server.place.atCover
    PROVE  Keeps(r, GiveUpCover(r)) /\ GiveUpCover(r).current = r.current
<1>1. r.history = <<>> /\ r.current = 0 /\ ~ r.lookup
  BY DEF Sound, WayBack
<1>2. Keeps(r, GiveUpCover(r))
  BY <1>1, GiveUpKeeps
<1>3. DOMAIN r = Fields
  BY DEF Sound, Shaped
<1>4. GiveUpCover(r).current = r.current
  BY <1>3, FieldsAre DEF GiveUpCover, StartBody, StartPage
<1> QED
  BY <1>2, <1>4

\* Page back: by the history, by the index, by building the way again, or to the cover.
LEMMA PreviousPageStep ==
    ASSUME ReaderAssumption, SessionInv, PreviousPage
    PROVE  SessionInv' /\ Turns(reader, reader')
<1> DEFINE r == CheckMedia(reader)
           turned == [r EXCEPT !.navigated = TRUE]
           rebuilt == StartPage([turned EXCEPT !.target = r.current], 0, "rebuild_previous")
           previous == Last(r.history)
<1>1. /\ Sound(reader) /\ reader.active /\ ~ reader.busy /\ reader.status = "ready"
      /\ UNCHANGED <<card, service, serial>> /\ UNCHANGED reads /\ UNCHANGED serial
  BY DEF PreviousPage, Paging, SessionInv
<1>2. Moved(reads, reads', OwnReads') /\ (commands' = commands => Moved(commands, commands', Asks'))
  BY <1>1 DEF Moved
<1>3. DOMAIN reader = Fields /\ reader.current \in PageStarts
  BY <1>1 DEF Sound, Shaped
<1>4. ~ reader.showing => /\ reader.valid /\ Leads(reader.history, reader.current)
                          /\ Numbered(reader) => reader.number = reader.current
  BY <1>1 DEF Sound, WayBack, Numbered
<1>5. PICK t : t = [reader EXCEPT !.navigated = TRUE]
  OBVIOUS
<1>6. Keeps(reader, t) /\ t.current = reader.current
  BY <1>1, <1>3, <1>5, FieldsAre, NavigatedKeeps
<1>7. /\ t.navigated /\ t.showing = reader.showing /\ t.busy = reader.busy
      /\ t.status = reader.status /\ t.valid = reader.valid /\ t.book = reader.book
      /\ t.history = reader.history
  BY <1>3, <1>5, FieldsAre
<1>8. \/ reader' = r /\ UNCHANGED commands
      \/ /\ r.mediaValid /\ ~ r.showing /\ r.current = 0 /\ r.book \in Epubs
         /\ ShowCover(turned)
      \/ /\ r.mediaValid /\ ~ r.showing /\ r.current > 0 /\ r.history # <<>>
         /\ \/ /\ Numbered(r) /\ r.number > 0
               /\ reader' = StartIndexedPage(turned, previous, "previous", r.number - 1)
            \/ reader' = StartPage(turned, previous, "previous")
         /\ UNCHANGED commands
      \/ /\ r.mediaValid /\ ~ r.showing /\ r.current > 0 /\ r.history = <<>>
         /\ \/ /\ Numbered(r) /\ r.number > 0
               /\ QueryIndex(turned, TRUE, r.number - 1, rebuilt)
            \/ reader' = rebuilt /\ UNCHANGED commands
  BY DEF PreviousPage
<1>9. CASE reader' = r /\ UNCHANGED commands
  BY <1>1, <1>2, <1>9, CheckMediaKeeps, ReaderOwnStep
<1>10. CASE /\ r.mediaValid /\ ~ r.showing /\ r.current = 0 /\ r.book \in Epubs
            /\ ShowCover(turned)
  <2>1. r = reader /\ turned = t
    BY <1>1, <1>5, <1>10, MediaThere
  <2>2. Sound(t) /\ ~ t.busy /\ t.status = "ready" /\ ~ t.showing /\ t.current = 0
        /\ t.book \in Epubs
    BY <1>1, <1>6, <1>7, <1>10, <2>1 DEF Keeps, Moves
  <2>3. CASE reader' = [t EXCEPT !.showing = TRUE] /\ UNCHANGED commands
    <3>1. Keeps(t, reader') /\ reader'.current = reader.current
      <4>1. Keeps(t, reader')
        BY <1>7, <2>2, <2>3, HeldCoverKeeps
      <4>2. DOMAIN t = Fields
        BY <2>2 DEF Sound, Shaped
      <4> QED
        BY <1>6, <2>3, <4>1, <4>2, FieldsAre
    <3>2. Keeps(reader, reader')
      BY <1>1, <1>6, <3>1, KeepsChain
    <3> QED
      BY <1>1, <1>2, <2>3, <3>2, ReaderOwnStep
  <2>4. ASSUME NEW cover, cover = [t EXCEPT !.coverParts = 0, !.coverWaiting = TRUE,
                                            !.busy = TRUE, !.status = "loading"],
               RequestCover(cover, GiveUpCover(t))
        PROVE  SessionInv' /\ Turns(reader, reader')
    <3>1. Keeps(t, cover)
      BY <1>7, <2>2, <2>4, BackToCoverKeeps
    <3>2. DOMAIN t = Fields
      BY <2>2 DEF Sound, Shaped
    <3>3. cover.current = reader.current /\ cover.coverWaiting /\ cover.navigated
      BY <1>6, <1>7, <2>4, <3>2, FieldsAre
    <3>4. Keeps(reader, cover)
      BY <1>1, <1>6, <3>1, <3>3, KeepsChain
    <3>5. Sound(cover)
      BY <3>4 DEF Keeps, Moves
    <3>6. Keeps(reader, GiveUpCover(t))
      <4>1. t.history = <<>> /\ ~ t.lookup
        <5>1. Leads(t.history, 0)
          BY <2>2 DEF Sound, WayBack
        <5>2. ~ t.lookup
          BY <2>2 DEF Sound, WayBack
        <5> QED
          BY <5>1, <5>2, LeadsToStart
      <4>2. Keeps(t, GiveUpCover(t))
        BY <1>7, <2>2, <4>1, GiveUpKeeps
      <4>3. GiveUpCover(t).current = t.current
        BY <3>2, FieldsAre DEF GiveUpCover, StartBody, StartPage
      <4> QED
        BY <1>1, <1>6, <4>2, <4>3, KeepsChain
    <3>7. Keeps(reader, reader') /\ Moved(commands, commands', Asks')
      <4>1. Moves(reader, cover) /\ Moves(reader, GiveUpCover(t))
        BY <3>4, <3>6 DEF Keeps
      <4>2. PICK give : give = GiveUpCover(t)
        OBVIOUS
      <4> QED
        BY <1>1, <2>4, <3>3, <3>4, <3>6, <4>1, <4>2, RequestCoverMoves
    <3> QED
      BY <1>1, <1>2, <3>7, ReaderOwnStep
  <2>5. PICK cover : cover = [t EXCEPT !.coverParts = 0, !.coverWaiting = TRUE,
                                      !.busy = TRUE, !.status = "loading"]
    OBVIOUS
  <2>6. \/ reader' = [t EXCEPT !.showing = TRUE] /\ UNCHANGED commands
        \/ RequestCover(cover, GiveUpCover(t))
    <3>1. ShowCover(t)
      BY <1>10, <2>1
    <3> QED
      BY <2>5, <3>1 DEF ShowCover
  <2> QED
    BY <2>3, <2>4, <2>5, <2>6
<1>11. CASE /\ r.mediaValid /\ ~ r.showing /\ r.current > 0 /\ r.history # <<>>
            /\ \/ /\ Numbered(r) /\ r.number > 0
                  /\ reader' = StartIndexedPage(turned, previous, "previous", r.number - 1)
               \/ reader' = StartPage(turned, previous, "previous")
            /\ UNCHANGED commands
  <2>1. r = reader /\ turned = t
    BY <1>1, <1>5, <1>11, MediaThere
  <2>2. PICK current \in PageStarts : current = reader.current
    BY <1>3
  <2>3. previous \in Nat /\ previous + 1 = current
    <3>1. Leads(reader.history, current) /\ reader.history # <<>> /\ current \in Nat
      BY <1>4, <1>11, <2>1, <2>2, PagesAre
    <3>2. Last(reader.history) \in Nat /\ Last(reader.history) + 1 = current
      BY <3>1, LastLeads
    <3> QED
      BY <2>1, <3>2
  <2>4. PICK page \in PageStarts : page = previous
    <3>1. previous \in PageStarts
      BY <2>2, <2>3 DEF PageStarts, ReaderAssumption
    <3> QED
      BY <3>1
  <2>5. page + 1 = reader.current /\ (Numbered(r) => r.number - 1 = page)
    <3>1. page \in Nat /\ page + 1 = current
      BY <2>3, <2>4, PagesAre
    <3>2. Numbered(r) => r.number = current
      BY <1>4, <1>11, <2>1, <2>2
    <3> QED
      BY <2>2, <3>1, <3>2
  <2>6. Keeps(reader, StartPage([reader EXCEPT !.navigated = TRUE], page, "previous"))
    BY <1>1, <1>11, <2>1, <2>5, TurnKeeps
  <2>7. Keeps(reader, StartIndexedPage([reader EXCEPT !.navigated = TRUE], page, "previous", page))
    BY <1>1, <1>11, <2>1, <2>5, TurnIndexedKeeps
  <2>8. Keeps(reader, reader')
    BY <1>5, <1>11, <2>1, <2>4, <2>5, <2>6, <2>7
  <2> QED
    BY <1>1, <1>2, <1>11, <2>8, ReaderOwnStep
<1>12. CASE /\ r.mediaValid /\ ~ r.showing /\ r.current > 0 /\ r.history = <<>>
            /\ \/ /\ Numbered(r) /\ r.number > 0
                  /\ QueryIndex(turned, TRUE, r.number - 1, rebuilt)
               \/ reader' = rebuilt /\ UNCHANGED commands
  <2>1. r = reader /\ turned = t
    BY <1>1, <1>5, <1>12, MediaThere
  <2>2. PICK back : back = rebuilt
    OBVIOUS
  <2>3. Keeps(reader, back)
    <3>1. back = StartPage([[reader EXCEPT !.navigated = TRUE] EXCEPT !.target = reader.current], 0,
                           "rebuild_previous")
      BY <1>5, <2>1, <2>2
    <3>2. 0 < reader.current
      BY <1>3, <1>12, <2>1, PagesAre
    <3> QED
      BY <1>1, <1>12, <2>1, <3>1, <3>2, RebuildKeeps
  <2>4. CASE reader' = back /\ UNCHANGED commands
    BY <1>1, <1>2, <2>3, <2>4, ReaderOwnStep
  <2>5. CASE Numbered(r) /\ r.number > 0 /\ QueryIndex(t, TRUE, r.number - 1, back)
    <3>1. PICK current \in PageStarts : current = reader.current /\ r.number = current
                                        /\ current > 0
      BY <1>3, <1>4, <1>12, <2>1, <2>5
    <3>2. PICK page \in PageStarts : page = r.number - 1 /\ page + 1 = t.current
      <4>1. current - 1 \in PageStarts /\ (current - 1) + 1 = current
        BY <3>1 DEF PageStarts, ReaderAssumption
      <4> QED
        BY <1>6, <3>1, <4>1
    <3>3. QueryIndex(t, TRUE, page, back)
      BY <2>5, <3>2
    <3>4. ~ t.busy /\ t.navigated /\ t.valid /\ ~ t.showing /\ t.history = <<>>
      BY <1>1, <1>4, <1>7, <1>12, <2>1
    <3>5. Keeps(reader, reader') /\ Moved(commands, commands', Asks')
      BY <1>1, <1>6, <2>3, <3>2, <3>3, <3>4, QueryMoves
    <3> QED
      BY <1>1, <1>2, <3>5, ReaderOwnStep
  <2> QED
    BY <1>12, <2>1, <2>2, <2>4, <2>5
<1> QED
  BY <1>8, <1>9, <1>10, <1>11, <1>12

\* A step of the reader that takes a message, with what it does to the page.
LEMMA StepHolds ==
    ASSUME SessionInv, UNCHANGED <<card, server, saved, serial>>, Moves(reader, reader'),
           Moved(reads, reads', OwnReads'), Moved(commands, commands', Asks'),
           Moved(events, events', {}), Moved(results, results', {}),
           \/ Fresh(reader) => Fresh(reader')
           \/ events # <<>> /\ events' = Tail(events) /\ Told(Head(events))
    PROVE  SessionInv' /\ Turns(reader, reader')
<1>1. generation' \in Nat
  BY DEF SessionInv, MessageShape, card
<1>2. SessionInv'
  BY <1>1, ReaderStep
<1> QED
  BY <1>2 DEF Moves

\* The block that was asked for, of the body or of the cover.
LEMMA BlockAwaited ==
    ASSUME ReaderAssumption, Sound(reader), reader.waiting, NEW m, m = [reader EXCEPT !.waiting = FALSE]
    PROVE  /\ Keeps(reader, m) /\ SameView(reader, m) /\ Sound(m) /\ ~ m.waiting
           /\ m.busy /\ ~ m.lookup
           /\ m.coverWaiting = reader.coverWaiting /\ m.book = reader.book
           /\ m.navigated = reader.navigated
           /\ ~ m.coverWaiting => reader.requested = <<"text", m.start, Len(m.text) + 1>>
<1>1. DOMAIN reader = Fields
  BY DEF Sound, Shaped
<1>2. Keeps(reader, m) /\ SameView(reader, m)
  BY ArrivedKeeps
<1>3. Sound(m)
  BY <1>2 DEF Keeps, Moves
<1>4. ~ m.waiting /\ m.coverWaiting = reader.coverWaiting /\ m.book = reader.book
      /\ m.busy = reader.busy /\ m.lookup = reader.lookup /\ m.start = reader.start
      /\ m.text = reader.text /\ m.navigated = reader.navigated
  BY <1>1, FieldsAre
<1>5. reader.busy /\ ~ reader.lookup
  BY DEF Sound, WayBack
<1>6. ~ reader.coverWaiting => reader.requested = <<"text", reader.start, Len(reader.text) + 1>>
  BY DEF Sound, Laid
<1> QED
  BY <1>2, <1>3, <1>4, <1>5, <1>6

\* A block that was read by the storage: of the request that is out, or dropped.
LEMMA DeliverBlockStep ==
    ASSUME ReaderAssumption, SessionInv, DeliverBlock
    PROVE  SessionInv' /\ Turns(reader, reader')
<1> DEFINE b == Head(reads)
           answer == [session |-> b.session, request |-> b.arg.request,
                      generation |-> b.generation, at |-> b.arg.at]
           r == CheckMedia([reader EXCEPT !.waiting = FALSE])
<1>1. /\ Sound(reader) /\ UNCHANGED <<card, commands, service, serial>>
      /\ reads # <<>> /\ reads' = Tail(reads) /\ reads \in Seq(OwnReads)
  BY DEF DeliverBlock, SessionInv, MessageShape
<1>2. Moved(reads, reads', OwnReads') /\ Moved(commands, commands', Asks')
      /\ UNCHANGED <<card, service, serial>>
  BY <1>1 DEF Moved
<1>3. CASE UNCHANGED reader
  BY <1>1, <1>2, <1>3, KeepsSame, ReaderOwnStep
<1>4. CASE reader.book \notin Epubs /\ Awaited(reader, answer)
  <2>1. PICK m : m = [reader EXCEPT !.waiting = FALSE]
    OBVIOUS
  <2>2. reader.active /\ reader.waiting /\ b.session = reader.id /\ b.arg.at = reader.requested
    BY <1>4 DEF Awaited
  <2>3. /\ Keeps(reader, m) /\ SameView(reader, m) /\ Sound(m) /\ ~ m.waiting
        /\ m.busy /\ ~ m.lookup
        /\ m.coverWaiting = reader.coverWaiting /\ m.book = reader.book
        /\ ~ m.coverWaiting => reader.requested = <<"text", m.start, Len(m.text) + 1>>
    BY <1>1, <2>1, <2>2, BlockAwaited
  <2>4. ~ m.coverWaiting
    BY <1>4, <2>3 DEF Sound, Laid
  <2>5. b.book = reader.book
    <3>1. b \in OwnReads
      BY <1>1, HeadIn
    <3> QED
      BY <2>2, <3>1 DEF OwnReads, Mine
  <2>6. PICK block : block = <<b.book, b.arg.at>>
    OBVIOUS
  <2>7. block = <<m.book, <<"text", m.start, Len(m.text) + 1>>>>
    BY <2>2, <2>3, <2>4, <2>5, <2>6
  <2>8. Keeps(m, Feed(m, block))
    BY <2>3, <2>4, <2>7, FeedKeeps
  <2>9. Keeps(m, Fail(m)) /\ Keeps(m, CheckMedia(m))
    BY <2>3, FailKeeps, CheckMediaKeeps
  <2>10. \/ reader' = CheckMedia(m)
         \/ CheckMedia(m).mediaValid /\ reader' = Feed(CheckMedia(m), block)
         \/ CheckMedia(m).mediaValid /\ reader' = Fail(CheckMedia(m))
    BY <1>4, <2>1, <2>6 DEF DeliverBlock
  <2>11. CheckMedia(m).mediaValid => CheckMedia(m) = m
    BY <2>3, MediaThere
  <2>12. Keeps(m, reader')
    BY <2>8, <2>9, <2>10, <2>11
  <2>13. Keeps(reader, reader')
    BY <1>1, <2>3, <2>12, KeepsChain
  <2> QED
    BY <1>2, <2>13, ReaderOwnStep
<1>5. UNCHANGED reader \/ (reader.book \notin Epubs /\ Awaited(reader, answer))
  BY DEF DeliverBlock
<1> QED
  BY <1>3, <1>4, <1>5

\* A block or part of the cover read by the worker: of the request that is out, or
\* dropped.
LEMMA DeliverResultStep ==
    ASSUME ReaderAssumption, SessionInv, DeliverResult
    PROVE  SessionInv' /\ Turns(reader, reader')
<1> DEFINE b == Head(results)
           r == CheckMedia([reader EXCEPT !.waiting = FALSE])
<1>1. /\ Sound(reader) /\ UNCHANGED <<card, reads, commands, server, saved, events, serial>>
      /\ results # <<>> /\ results' = Tail(results) /\ results \in Seq(OwnResults)
  BY DEF DeliverResult, SessionInv, MessageShape
<1>2. /\ Moved(reads, reads', OwnReads') /\ Moved(commands, commands', Asks')
      /\ Moved(events, events', {}) /\ Moved(results, results', {})
      /\ UNCHANGED <<card, server, saved, serial>>
  BY <1>1 DEF Moved
<1>3. Keeps(reader, reader') => SessionInv' /\ Turns(reader, reader')
  BY <1>2, StepHolds DEF Keeps
<1>4. CASE UNCHANGED reader
  BY <1>1, <1>3, <1>4, KeepsSame
<1>5. CASE reader.book \in Epubs /\ Awaited(reader, b)
  <2>1. PICK m : m = [reader EXCEPT !.waiting = FALSE]
    OBVIOUS
  <2>2. reader.active /\ reader.waiting /\ b.session = reader.id /\ b.at = reader.requested
    BY <1>5 DEF Awaited
  <2>3. /\ Keeps(reader, m) /\ SameView(reader, m) /\ Sound(m) /\ ~ m.waiting
        /\ m.busy /\ ~ m.lookup
        /\ m.coverWaiting = reader.coverWaiting /\ m.book = reader.book
        /\ m.navigated = reader.navigated
        /\ ~ m.coverWaiting => reader.requested = <<"text", m.start, Len(m.text) + 1>>
    BY <1>1, <2>1, <2>2, BlockAwaited
  <2>4. b.block # None => b.block = <<reader.book, b.at>>
    <3>1. b \in OwnResults
      BY <1>1, HeadIn
    <3> QED
      BY <2>2, <3>1 DEF OwnResults, Mine
  <2>5. ~ m.coverWaiting /\ b.block # None => Keeps(m, Feed(m, b.block))
    <3>1. ~ m.coverWaiting /\ b.block # None =>
             b.block = <<m.book, <<"text", m.start, Len(m.text) + 1>>>>
      BY <2>2, <2>3, <2>4
    <3>2. PICK block : block = b.block
      OBVIOUS
    <3> QED
      BY <2>3, <3>1, <3>2, FeedKeeps
  <2>6. Keeps(m, Fail(m)) /\ Keeps(m, CheckMedia(m))
    BY <2>3, FailKeeps, CheckMediaKeeps
  <2>7. m.coverWaiting => Keeps(m, GiveUpCover(m))
    <3>1. m.coverWaiting => m.navigated \/ server.place.atCover
      BY <2>2, <2>3 DEF SessionInv, Placed
    <3> QED
      BY <2>3, <3>1, GiveUpIsKept
  <2>8. m.coverWaiting /\ FeedCover(m) => Keeps(m, reader')
    <3>1. SUFFICES ASSUME m.coverWaiting, FeedCover(m) PROVE Keeps(m, reader')
      OBVIOUS
    <3>2. PICK more : more = [m EXCEPT !.coverParts = @ + 1]
      OBVIOUS
    <3>3. Keeps(m, more)
      BY <2>3, <3>1, <3>2, CoverPartKeeps
    <3>4. PICK shown : shown = [more EXCEPT !.coverWaiting = FALSE, !.busy = FALSE,
                                     !.showing = TRUE, !.coverHeld = TRUE,
                                     !.status = "ready"]
      OBVIOUS
    <3>5. Keeps(m, shown)
      BY <2>3, <3>1, <3>2, <3>4, CoverShownKeeps
    <3>6. reader' = more \/ reader' = shown \/ reader' = GiveUpCover(m)
      BY <3>1, <3>2, <3>4 DEF FeedCover
    <3> QED
      BY <2>7, <3>1, <3>3, <3>5, <3>6
  <2>9. PICK c : c = CheckMedia(m)
    OBVIOUS
  <2>10. \/ reader' = c
         \/ /\ c.mediaValid /\ b.block = None
            /\ reader' = IF c.coverWaiting THEN GiveUpCover(c) ELSE Fail(c)
         \/ /\ c.mediaValid /\ b.block # None
            /\ IF c.coverWaiting THEN FeedCover(c) ELSE reader' = Feed(c, b.block)
    BY <1>5, <2>1, <2>9 DEF DeliverResult
  <2>11. c.mediaValid => c = m
    BY <2>3, <2>9, MediaThere
  <2>12. Keeps(m, reader')
    <3>1. CASE reader' = c
      BY <2>6, <2>9, <3>1
    <3>2. CASE /\ c.mediaValid /\ b.block = None
               /\ reader' = IF c.coverWaiting THEN GiveUpCover(c) ELSE Fail(c)
      BY <2>6, <2>7, <2>11, <3>2
    <3>3. CASE /\ c.mediaValid /\ b.block # None
               /\ IF c.coverWaiting THEN FeedCover(c) ELSE reader' = Feed(c, b.block)
      <4>1. c = m
        BY <2>11, <3>3
      <4>2. CASE m.coverWaiting
        <5>1. FeedCover(m)
          BY <3>3, <4>1, <4>2
        <5> QED
          BY <2>8, <4>2, <5>1
      <4>3. CASE ~ m.coverWaiting
        BY <2>5, <3>3, <4>1, <4>3
      <4> QED
        BY <4>2, <4>3
    <3> QED
      BY <2>10, <3>1, <3>2, <3>3
  <2>13. Keeps(reader, reader')
    BY <1>1, <2>3, <2>12, KeepsChain
  <2> QED
    BY <1>3, <2>13
<1>6. UNCHANGED reader \/ (reader.book \in Epubs /\ Awaited(reader, b))
  BY DEF DeliverResult
<1> QED
  BY <1>4, <1>5, <1>6

\* The event that a book is opened: at the cover, at its text, or only its shell.
LEMMA OpenedMoves ==
    ASSUME ReaderAssumption, SessionInv, reader.active, NEW e \in OwnEvents,
           e.session = reader.id, e.type = "opened", Opened(reader, e), UNCHANGED serial
    PROVE  /\ Moves(reader, reader') /\ Moved(commands, commands', Asks')
           /\ ~ Told(e) => Keeps(reader, reader')
<1>1. Sound(reader) /\ Mine(e) /\ DOMAIN reader = Fields
  BY DEF SessionInv, Mine, Sound, Shaped
<1>2. CASE ~ e.contentReady
  <2>1. reader' = reader /\ UNCHANGED commands
    BY <1>2 DEF Opened
  <2> QED
    BY <1>1, <2>1, KeepsSame DEF Keeps, Moved
<1>3. CASE e.contentReady
  <2>1. Told(e)
    BY <1>1, <1>3 DEF Told
  <2>2. /\ e.book = reader.book /\ Served(reader) /\ e.page = server.place.page
        /\ e.atCover => server.place.atCover /\ server.book \in Epubs
        /\ reader.book \in Epubs => Fresh(reader)
    BY <1>1, <2>1 DEF OwnEvents
  <2>3. PICK available \in BOOLEAN : available = (e.book \in Covered)
    <3>1. (e.book \in Covered) \in BOOLEAN
      OBVIOUS
    <3> QED
      BY <3>1
  <2>4. available => reader.book \in Epubs
    BY <2>2, <2>3 DEF ReaderAssumption
  <2>5. PICK page \in PageStarts : page = e.page
    BY DEF OwnEvents, Events
  <2>6. PICK ready : ready = [reader EXCEPT !.contentReady = TRUE,
                                            !.coverAvailable = available]
    OBVIOUS
  <2>7. PICK cover : cover = [ready EXCEPT !.coverParts = 0, !.coverWaiting = TRUE,
                                           !.busy = TRUE, !.status = "loading"]
    OBVIOUS
  <2>8. ready.coverAvailable = available /\ ready.current = reader.current
        /\ DOMAIN ready = Fields
    BY <1>1, <2>6, FieldsAre
  <2>9. \/ e.atCover /\ available /\ RequestCover(cover, GiveUpCover(cover))
        \/ /\ UNCHANGED commands
           /\ \/ /\ ~ reader.navigated
                 /\ reader' = StartBody([ready EXCEPT !.history = <<>>], page)
              \/ reader.book \in Epubs /\ reader' = StartBody(ready, page)
              \/ reader' = ready
    BY <1>3, <2>3, <2>5, <2>6, <2>7, <2>8 DEF Opened
  <2>10. CASE e.atCover /\ available /\ RequestCover(cover, GiveUpCover(cover))
    <3>1. reader.book \in Epubs /\ Fresh(reader) /\ server.place.atCover
      BY <2>2, <2>4, <2>10
    <3>2. Moves(reader, cover)
      BY <1>1, <2>2, <2>4, <2>6, <2>7, <3>1, OpenedCoverMoves
    <3>3. cover.current = reader.current /\ cover.coverWaiting
      BY <2>7, <2>8, FieldsAre
    <3>4. Sound(cover)
      BY <3>2 DEF Moves
    <3>5. Keeps(cover, GiveUpCover(cover)) /\ GiveUpCover(cover).current = cover.current
      BY <3>1, <3>3, <3>4, GiveUpIsKept
    <3>6. PICK give : give = GiveUpCover(cover)
      OBVIOUS
    <3>7. Moves(reader, give)
      BY <1>1, <3>2, <3>3, <3>5, <3>6, MovesChain DEF Keeps
    <3>8. RequestCover(cover, give)
      BY <2>10, <3>6
    <3>9. Moves(reader, reader') /\ Moved(commands, commands', Asks')
      BY <3>2, <3>3, <3>7, <3>8, RequestCoverMoves
    <3> QED
      BY <2>1, <3>9
  <2>11. CASE UNCHANGED commands /\ ~ reader.navigated
              /\ reader' = StartBody([ready EXCEPT !.history = <<>>], page)
    <3>1. Moves(reader, reader')
      BY <1>1, <2>2, <2>4, <2>5, <2>6, <2>11, OpenedBodyMoves
    <3> QED
      BY <2>1, <2>11, <3>1 DEF Moved
  <2>12. CASE UNCHANGED commands /\ reader.book \in Epubs /\ reader' = StartBody(ready, page)
    <3>1. Moves(reader, reader')
      BY <1>1, <2>2, <2>4, <2>5, <2>6, <2>12, OpenedTextMoves
    <3> QED
      BY <2>1, <2>12, <3>1 DEF Moved
  <2>13. CASE UNCHANGED commands /\ reader' = ready
    <3>1. Keeps(reader, reader')
      BY <1>1, <2>4, <2>6, <2>13, TextThereKeeps
    <3> QED
      BY <2>1, <2>13, <3>1 DEF Moved, Keeps
  <2> QED
    BY <2>9, <2>10, <2>11, <2>12, <2>13
<1> QED
  BY <1>2, <1>3

\* The event that the index is ready, which tells the worker's place.
LEMMA ReadyMoves ==
    ASSUME ReaderAssumption, SessionInv, reader.active, NEW e \in OwnEvents,
           e.session = reader.id, e.type = "ready"
    PROVE  Moves(reader, Ready(reader, e)) /\ Told(e)
<1>1. Sound(reader) /\ Mine(e) /\ Told(e)
  BY DEF SessionInv, Mine, Told
<1>2. Served(reader) /\ e.page = server.place.page
  BY <1>1 DEF OwnEvents
<1>3. PICK page \in PageStarts, indexed \in BOOLEAN : page = e.page /\ indexed = e.indexed
  BY DEF OwnEvents, Events
<1>4. PICK counted : counted = [reader EXCEPT !.indexed = indexed]
  OBVIOUS
<1>5. \/ /\ ~ indexed \/ reader.navigated \/ reader.showing \/ reader.coverWaiting
         /\ Ready(reader, e) = counted
      \/ /\ indexed /\ reader.valid /\ ~ reader.busy /\ reader.current = page
         /\ Ready(reader, e) = [counted EXCEPT !.number = page, !.placed = TRUE, !.goal = None]
      \/ /\ indexed /\ ~ reader.navigated /\ ~ reader.showing /\ ~ reader.coverWaiting
         /\ Ready(reader, e) =
               StartPage([counted EXCEPT !.history = <<>>,
                                         !.goal = [page |-> page, number |-> page]],
                         page, "open")
  BY <1>3, <1>4 DEF Ready
<1>6. indexed => counted = [reader EXCEPT !.indexed = TRUE]
  BY <1>4
<1>7. ~ indexed \/ reader.navigated \/ reader.showing \/ reader.coverWaiting
         => Moves(reader, counted)
  BY <1>1, <1>2, <1>4, CountedMoves
<1>8. indexed /\ reader.valid /\ ~ reader.busy /\ reader.current = page =>
         Moves(reader, [counted EXCEPT !.number = page, !.placed = TRUE, !.goal = None])
  BY <1>1, <1>2, <1>3, <1>6, ReadyHereMoves
<1>9. indexed /\ ~ reader.navigated /\ ~ reader.showing /\ ~ reader.coverWaiting =>
         Moves(reader, StartPage([counted EXCEPT !.history = <<>>,
                                         !.goal = [page |-> page, number |-> page]],
                                 page, "open"))
  BY <1>1, <1>2, <1>3, <1>6, ReadyThereMoves
<1> QED
  BY <1>1, <1>5, <1>7, <1>8, <1>9

\* The event that answers a query: to the one that is out, or dropped.
LEMMA PositionKeeps ==
    ASSUME ReaderAssumption, SessionInv, reader.active, NEW e \in OwnEvents,
           e.session = reader.id, e.type = "position"
    PROVE  Keeps(reader, Position(reader, e))
<1>1. Sound(reader) /\ Mine(e)
  BY DEF SessionInv, Mine
<1>2. PICK page \in PageStarts : page = e.page
  BY DEF OwnEvents, Events
<1>3. reader.asking /\ e.request = reader.query =>
         IF reader.lookup THEN page + 1 = reader.current ELSE page = reader.queried
  BY <1>1, <1>2 DEF OwnEvents, Fits
<1>4. PICK answered : answered = [reader EXCEPT !.asking = FALSE, !.lookup = FALSE]
  OBVIOUS
<1>5. PICK lost : lost = [answered EXCEPT !.indexed = FALSE, !.placed = FALSE]
  OBVIOUS
<1>6. \/ Position(reader, e) = reader
      \/ /\ reader.asking /\ e.request = reader.query
         /\ \/ reader.lookup /\ Position(reader, e) = Fail(lost)
            \/ ~ reader.lookup /\ Position(reader, e) = lost
            \/ /\ reader.lookup
               /\ Position(reader, e) =
                     StartPage([answered EXCEPT !.goal = [page |-> page, number |-> page]],
                               page, "previous")
            \/ ~ reader.lookup /\ Position(reader, e) = answered
            \/ /\ ~ reader.lookup /\ page = reader.current
               /\ Position(reader, e) =
                     [answered EXCEPT !.number = page, !.placed = TRUE, !.goal = None]
  BY <1>2, <1>3, <1>4, <1>5 DEF Position
<1>7. reader.asking /\ reader.lookup => Keeps(reader, Fail(lost))
  BY <1>1, <1>4, <1>5, LookupLostKeeps
<1>8. reader.asking /\ ~ reader.lookup => Keeps(reader, lost) /\ Keeps(reader, answered)
  BY <1>1, <1>4, <1>5, LostKeeps, AnsweredKeeps
<1>9. reader.asking /\ reader.lookup /\ page + 1 = reader.current =>
         Keeps(reader, StartPage([answered EXCEPT !.goal = [page |-> page, number |-> page]],
                                 page, "previous"))
  BY <1>1, <1>4, LookupFoundKeeps
<1>10. reader.asking /\ ~ reader.lookup /\ page = reader.current =>
          Keeps(reader, [answered EXCEPT !.number = page, !.placed = TRUE, !.goal = None])
  BY <1>1, <1>4, NumberFoundKeeps
<1>11. Keeps(reader, reader)
  BY <1>1, KeepsSame
<1> QED
  BY <1>3, <1>6, <1>7, <1>8, <1>9, <1>10, <1>11

\* Whatever event is taken, of this session or of an older one.
LEMMA TakeEventStep ==
    ASSUME ReaderAssumption, SessionInv, TakeEvent
    PROVE  SessionInv' /\ Turns(reader, reader')
<1> DEFINE e == Head(events)
           r == CheckMedia(reader)
           mine == reader.active /\ reader.submitted /\ e.session = reader.id
                   /\ e.generation = reader.generation
<1>1. /\ Sound(reader) /\ UNCHANGED <<card, reads, server, saved, results, serial>>
      /\ events # <<>> /\ events' = Tail(events) /\ events \in Seq(OwnEvents)
      /\ UNCHANGED serial
  BY DEF TakeEvent, SessionInv, MessageShape
<1>2. e \in OwnEvents
  BY <1>1, HeadIn
<1>3. /\ Moved(reads, reads', OwnReads') /\ Moved(events, events', {})
      /\ Moved(results, results', {}) /\ UNCHANGED <<card, server, saved, serial>>
      /\ UNCHANGED commands => Moved(commands, commands', Asks')
  BY <1>1 DEF Moved
<1>4. ASSUME Moves(reader, reader'), Moved(commands, commands', Asks'),
             Told(e) \/ Keeps(reader, reader')
      PROVE  SessionInv' /\ Turns(reader, reader')
  BY <1>1, <1>3, <1>4, StepHolds DEF Keeps
<1>5. \/ ~ mine /\ UNCHANGED <<reader, commands>>
      \/ mine /\ ~ r.mediaValid /\ reader' = r /\ UNCHANGED commands
      \/ mine /\ r.mediaValid /\ e.type = "opened" /\ Opened(r, e)
      \/ /\ mine /\ r.mediaValid /\ e.type # "opened"
         /\ reader' = CASE e.type = "ready" -> Ready(r, e)
                        [] e.type = "position" -> Position(r, e)
                        [] e.type = "error" -> IndexError(r)
                        [] OTHER -> r
         /\ UNCHANGED commands
  BY DEF TakeEvent
<1>6. CASE ~ mine /\ UNCHANGED <<reader, commands>>
  <2>1. Keeps(reader, reader')
    BY <1>1, <1>6, KeepsSame
  <2> QED
    BY <1>3, <1>4, <1>6, <2>1 DEF Keeps
<1>7. CASE mine /\ ~ r.mediaValid /\ reader' = r /\ UNCHANGED commands
  <2>1. Keeps(reader, reader')
    BY <1>1, <1>7, CheckMediaKeeps
  <2> QED
    BY <1>3, <1>4, <1>7, <2>1 DEF Keeps
<1>8. CASE mine /\ r.mediaValid /\ e.type = "opened" /\ Opened(r, e)
  <2>1. r = reader
    BY <1>1, <1>8, MediaThere
  <2>2. /\ Moves(reader, reader') /\ Moved(commands, commands', Asks')
        /\ ~ Told(e) => Keeps(reader, reader')
    BY <1>1, <1>2, <1>8, <2>1, OpenedMoves
  <2> QED
    BY <1>4, <2>2
<1>9. CASE /\ mine /\ r.mediaValid /\ e.type # "opened"
           /\ reader' = CASE e.type = "ready" -> Ready(r, e)
                          [] e.type = "position" -> Position(r, e)
                          [] e.type = "error" -> IndexError(r)
                          [] OTHER -> r
           /\ UNCHANGED commands
  <2>1. r = reader
    BY <1>1, <1>9, MediaThere
  <2>2. CASE e.type = "ready"
    <3>1. Moves(reader, reader') /\ Told(e)
      BY <1>2, <1>9, <2>1, <2>2, ReadyMoves
    <3> QED
      BY <1>3, <1>4, <1>9, <3>1
  <2>3. CASE e.type # "ready"
    <3>1. Keeps(reader, reader')
      BY <1>1, <1>2, <1>9, <2>1, <2>3, PositionKeeps, IndexErrorKeeps, KeepsSame
    <3> QED
      BY <1>3, <1>4, <1>9, <3>1 DEF Keeps
  <2> QED
    BY <2>2, <2>3
<1> QED
  BY <1>5, <1>6, <1>7, <1>8, <1>9

\* The card and the storage move without the reader.
LEMMA StillStep ==
    ASSUME SessionInv, MoveCard \/ LoseBlock
    PROVE  SessionInv' /\ Turns(reader, reader')
<1>1. /\ UNCHANGED reader /\ UNCHANGED <<server, saved, serial>> /\ UNCHANGED commands
      /\ UNCHANGED <<events, results>> /\ generation \in Nat
      /\ generation' = generation \/ generation' = generation + 1
      /\ UNCHANGED reads \/ (reads # <<>> /\ reads' = Tail(reads))
  BY DEF MoveCard, LoseBlock, SessionInv, MessageShape, card, service
<1>2. generation' \in Nat
  BY <1>1
<1>3. /\ Moved(reads, reads', OwnReads') /\ Moved(commands, commands', Asks')
      /\ Moved(events, events', {}) /\ Moved(results, results', {})
  BY <1>1 DEF Moved
<1>4. Keeps(reader, reader')
  BY <1>1, KeepsSame DEF SessionInv
<1>5. Moves(reader, reader') /\ (Fresh(reader) => Fresh(reader'))
  BY <1>4 DEF Keeps
<1>6. SessionInv'
  BY <1>1, <1>2, <1>3, <1>5, ReaderStep
<1> QED
  BY <1>5, <1>6 DEF Moves

-----------------------------------------------------------------------------
(* A session begins and ends.                                              *)

\* A reader that is closed is sound.
LEMMA NoReaderSound == ASSUME ReaderAssumption PROVE Sound(NoReader) /\ ~ NoReader.active
<1>1. DOMAIN NoReader = Fields
  BY DEF Fields
<1>2. Shaped(NoReader)
  BY <1>1, PagesAre DEF Shaped, NoReader
<1>3. Laid(NoReader)
  BY NoBlocks DEF Laid, NoReader
<1>4. WayBack(NoReader)
  BY DEF WayBack, NoReader
<1>5. ~ NoReader.active
  BY DEF NoReader
<1> QED
  BY <1>2, <1>3, <1>4, <1>5 DEF Sound

\* What was sent before is of no session that begins now.
LEMMA OldMessages ==
    ASSUME SessionInv, serial' = serial + 1, UNCHANGED server,
           reader'.active => reader'.id = serial + 1
    PROVE  /\ serial' \in Nat
           /\ OwnReads \subseteq OwnReads' /\ OwnResults \subseteq OwnResults'
           /\ OwnCommands \subseteq OwnCommands' /\ OwnEvents \subseteq OwnEvents'
           /\ \A m \in OwnCommands \cup OwnEvents :
                 reader'.active => m.session # reader'.id
           /\ server'.session <= serial' /\ (reader'.active => server'.session # reader'.id)
<1>1. serial \in Nat /\ server.session \in Nat /\ server.session <= serial
  BY DEF SessionInv, MessageShape, Servers
<1>2. ASSUME NEW x \in Nat, x <= serial
      PROVE  x <= serial' /\ (reader'.active => x # reader'.id)
  BY <1>1, <1>2
<1>3. \A m \in OwnReads : m.session <= serial' /\ ~ Mine(m)'
  BY <1>2 DEF OwnReads, Reads, Mine
<1>4. \A m \in OwnResults : m.session <= serial' /\ ~ Mine(m)'
  BY <1>2 DEF OwnResults, Results, Mine
<1>5. \A m \in OwnEvents : m.session <= serial' /\ ~ Mine(m)'
  BY <1>2 DEF OwnEvents, Events, Mine
<1>6. \A m \in OwnCommands : m.session <= serial' /\ ~ Mine(m)'
  BY <1>2 DEF OwnCommands, Reads, Queries, Opens, Closes, Mine
<1>7. OwnReads \subseteq OwnReads' /\ OwnResults \subseteq OwnResults'
  BY <1>3, <1>4 DEF OwnReads, OwnResults
<1>8. OwnCommands \subseteq OwnCommands'
  BY <1>6 DEF OwnCommands
<1>9. OwnEvents \subseteq OwnEvents'
  BY <1>5 DEF OwnEvents, Told
<1>10. serial' \in Nat
  BY <1>1
<1> QED
  BY <1>1, <1>2, <1>5, <1>6, <1>7, <1>8, <1>9, <1>10 DEF Mine

\* Closing sends the place and forgets the session, so whatever is under way is stale.
LEMMA CloseStep ==
    ASSUME ReaderAssumption, SessionInv, Close
    PROVE  SessionInv' /\ ~ reader'.active
<1> DEFINE command == Command("close", reader,
                              [page |-> reader.current, atCover |-> reader.showing])
<1>1. /\ reader.active /\ serial' = serial + 1 /\ reader' = NoReader
      /\ UNCHANGED <<card, reads, service>>
      /\ commands' = Append(commands, command) \/ commands' = commands
  BY DEF Close
<1>2. /\ UNCHANGED server /\ UNCHANGED <<reads, events, results, saved, generation>>
      /\ ~ reader'.active /\ Sound(NoReader)
  BY <1>1, NoReaderSound DEF card, service
<1>3. /\ Sound(reader) /\ reads \in Seq(OwnReads) /\ commands \in Seq(OwnCommands)
      /\ events \in Seq(OwnEvents) /\ results \in Seq(OwnResults)
      /\ saved \in [Books -> SavedPlaces] /\ generation \in Nat /\ server \in Servers
      /\ server.phase = "parsing" => server.book \in Epubs
      /\ reader.id \in Nat /\ reader.id <= serial /\ reader.book \in Books
      /\ reader.generation \in Nat /\ InOrder /\ serial \in Nat
  BY <1>1 DEF SessionInv, MessageShape
<1>4. /\ serial' \in Nat
      /\ OwnReads \subseteq OwnReads' /\ OwnResults \subseteq OwnResults'
      /\ OwnCommands \subseteq OwnCommands' /\ OwnEvents \subseteq OwnEvents'
      /\ server'.session <= serial'
  BY <1>1, <1>2, OldMessages
<1>5. command \in OwnCommands' /\ command.type = "close"
  <2>1. reader.current \in PageStarts /\ reader.showing \in BOOLEAN
    BY <1>3 DEF Sound, Shaped
  <2>2. [page |-> reader.current, atCover |-> reader.showing] \in SavedPlaces
    BY <2>1 DEF SavedPlaces
  <2>3. /\ command \in Closes /\ command.session = reader.id /\ command.type = "close"
    BY <1>3, <2>2 DEF Command, Closes
  <2>4. reader.id <= serial'
    BY <1>1, <1>3
  <2>5. PICK c : c = command
    OBVIOUS
  <2>6. c \in Reads \cup Queries \cup Opens \cup Closes /\ c.session <= serial'
    BY <2>3, <2>4, <2>5
  <2>7. c \in OwnCommands'
    BY <1>2, <2>6 DEF OwnCommands, Mine
  <2> QED
    BY <2>3, <2>5, <2>7
<1> HIDE DEF command
<1>6. Moved(commands, commands', {command}) /\ Moved(events, events', {})
  BY <1>1, <1>2 DEF Moved
<1>7. commands' \in Seq(OwnCommands')
  <2>1. {command} \subseteq OwnCommands'
    BY <1>5
  <2> QED
    BY <1>3, <1>4, <1>6, <2>1, MovedIn
<1>8. reads' \in Seq(OwnReads') /\ events' \in Seq(OwnEvents') /\ results' \in Seq(OwnResults')
  <2>1. reads \in Seq(OwnReads') /\ events \in Seq(OwnEvents') /\ results \in Seq(OwnResults')
    BY <1>3, <1>4, SubsetIn
  <2> QED
    BY <1>2, <2>1
<1>9. InOrder'
  <2>1. PICK C : C = {command}
    OBVIOUS
  <2>2. Moved(commands, commands', C) /\ \A c \in C : c.type # "open"
    BY <1>5, <1>6, <2>1
  <2>3. /\ reader'.active => reader.active /\ reader'.id = reader.id
        /\ reader'.active /\ server'.session = reader'.id =>
              \A i \in 1 .. Len(commands') : commands'[i].type # "open"
    BY <1>2
  <2>4. PICK E : E = {}
    OBVIOUS
  <2>5. /\ Moved(events, events', E)
        /\ \A e \in E : e.session = reader.id /\ e.type = "opened" /\ e.contentReady =>
              \A i \in 1 .. Len(events) : ~ Told(events[i])
    BY <1>6, <2>4
  <2>6. InOrder /\ commands \in Seq(OwnCommands) /\ events \in Seq(OwnEvents)
    BY <1>3
  <2> QED
    BY <2>2, <2>3, <2>5, <2>6, OrderStays
<1>10. MessageShape'
  BY <1>2, <1>3, <1>4, <1>7, <1>8 DEF MessageShape, Servers
<1>11. Placed(reader)'
  BY <1>2 DEF Placed
<1>12. Sound(reader)'
  BY <1>1, <1>2 DEF Sound, Shaped, Laid, WayBack, UnderWay, PageStarts
<1> QED
  BY <1>2, <1>9, <1>10, <1>11, <1>12 DEF SessionInv

\* A reader n whose session has just begun.
Begun(n, b, g) ==
    /\ Sound(n) /\ n.active /\ n.id = serial + 1 /\ n.book = b /\ n.generation = g
    /\ b \in Epubs => Fresh(n)
    /\ ~ n.indexed /\ ~ n.showing /\ ~ n.coverWaiting

\* The record a session begins with.
Untouched(r, b, g) ==
    /\ DOMAIN r = Fields /\ r.active /\ r.id = serial + 1 /\ r.book = b /\ r.generation = g
    /\ r.start = 0 /\ r.current = 0 /\ r.number = 0 /\ r.target = 0 /\ r.next = 0
    /\ r.query = 0 /\ r.request = 0 /\ r.coverParts = 0 /\ r.goal = None /\ r.text = <<>>
    /\ r.history = <<>> /\ r.op = "open" /\ r.status = "loading" /\ r.showing = FALSE
    /\ ~ r.waiting /\ ~ r.coverWaiting /\ ~ r.coverAvailable /\ ~ r.valid
    /\ ~ r.navigated /\ ~ r.lookup /\ ~ r.busy /\ ~ r.indexed /\ ~ r.asking

\* A session that was just begun.
LEMMA UntouchedReader ==
    ASSUME NEW b, NEW g, NEW content
    PROVE  Untouched([NoReader EXCEPT !.active = TRUE, !.id = serial + 1, !.book = b,
                               !.generation = g, !.mediaValid = TRUE,
                               !.contentReady = content], b, g)
  BY DEF Untouched, Fields, NoReader

\* It has asked for nothing and was told nothing,
LEMMA UntouchedBegun ==
    ASSUME ReaderAssumption, NEW r, NEW b, NEW g, Untouched(r, b, g)
    PROVE  Begun(r, b, g) /\ Fresh(r)
<1>1. /\ DOMAIN r = Fields /\ r.showing \in BOOLEAN /\ r.start \in PageStarts
      /\ r.current \in PageStarts /\ r.number \in PageStarts /\ r.target \in PageStarts
      /\ r.next \in Nat /\ r.query \in Nat /\ r.request \in Nat /\ r.coverParts \in Nat
      /\ r.goal = None
  BY PagesAre DEF Untouched
<1>2. Shaped(r)
  BY <1>1 DEF Shaped
<1>3. Laid(r)
  BY NoBlocks DEF Laid, Untouched
<1>4. WayBack(r) /\ Fresh(r)
  BY DEF WayBack, Fresh, Untouched
<1> QED
  BY <1>2, <1>3, <1>4 DEF Begun, Sound, Untouched

\* nor when the book is submitted to the worker,
LEMMA SubmittedBegun ==
    ASSUME ReaderAssumption, NEW r, NEW b, NEW g, Untouched(r, b, g)
    PROVE  Begun([r EXCEPT !.submitted = TRUE], b, g)
<1>1. Untouched([r EXCEPT !.submitted = TRUE], b, g)
  BY FieldsAre DEF Untouched
<1> QED
  BY <1>1, UntouchedBegun

\* nor when the worker's queue refuses it.
LEMMA RefusedBegun ==
    ASSUME ReaderAssumption, NEW r, NEW b, NEW g, Untouched(r, b, g)
    PROVE  Begun([r EXCEPT !.status = "error"], b, g)
<1> DEFINE n == [r EXCEPT !.status = "error"]
<1>1. Begun(r, b, g) /\ DOMAIN r = Fields /\ Fresh(r)
  BY UntouchedBegun DEF Untouched
<1>2. Shaped(n)
  BY <1>1, FieldsAre DEF Begun, Sound, Shaped
<1>3. Laid(n)
  BY <1>1, FieldsAre DEF Begun, Sound, Laid
<1>4. WayBack(n)
  BY <1>1, FieldsAre DEF Begun, Sound, WayBack, Untouched
<1>5. /\ Fresh(n) /\ n.active /\ n.id = serial + 1 /\ n.book = b /\ n.generation = g
      /\ ~ n.indexed /\ ~ n.showing /\ ~ n.coverWaiting
  BY <1>1, FieldsAre DEF Begun, Fresh
<1> QED
  BY <1>2, <1>3, <1>4, <1>5 DEF Begun, Sound

\* A text begins to load its first page at once,
LEMMA TextBegun ==
    ASSUME ReaderAssumption, NEW r, NEW b, NEW g, Untouched(r, b, g), b \notin Epubs
    PROVE  /\ Begun(StartPage(r, 0, "open"), b, g)
           /\ Begun([StartPage(r, 0, "open") EXCEPT !.submitted = TRUE], b, g)
<1>1. ASSUME NEW n, n = StartPage(r, 0, "open") PROVE Begun(n, b, g) /\ DOMAIN n = Fields
  <2>1. DOMAIN r = Fields
    BY DEF Untouched
  <2>2. Shaped(n)
    <3>1. Shaped(r)
      BY UntouchedBegun DEF Begun, Sound
    <3> QED
      BY <1>1, <2>1, <3>1, FieldsAre, PagesAre DEF Shaped, StartPage
  <2>3. Laid(n)
    BY <1>1, <2>1, FieldsAre, NoBlocks DEF Laid, StartPage, Untouched
  <2>4. WayBack(n)
    BY <1>1, <2>1, FieldsAre DEF WayBack, UnderWay, StartPage, Untouched
  <2>5. /\ n.active /\ n.id = serial + 1 /\ n.book = b /\ n.generation = g
        /\ ~ n.indexed /\ ~ n.showing /\ ~ n.coverWaiting
    BY <1>1, <2>1, FieldsAre DEF StartPage, Untouched
  <2>6. DOMAIN n = Fields
    BY <2>2 DEF Shaped
  <2> QED
    BY <2>2, <2>3, <2>4, <2>5, <2>6 DEF Begun, Sound
<1>2. PICK n : n = StartPage(r, 0, "open")
  OBVIOUS
<1>3. Begun(n, b, g) /\ DOMAIN n = Fields
  BY <1>1, <1>2
<1>4. PICK m : m = [n EXCEPT !.submitted = TRUE]
  OBVIOUS
<1>5. Shaped(m)
  BY <1>3, <1>4, FieldsAre DEF Begun, Sound, Shaped
<1>6. Laid(m)
  BY <1>3, <1>4, FieldsAre DEF Begun, Sound, Laid
<1>7. WayBack(m)
  BY <1>3, <1>4, FieldsAre DEF Begun, Sound, WayBack, UnderWay
<1>8. /\ m.active /\ m.id = serial + 1 /\ m.book = b /\ m.generation = g
      /\ ~ m.indexed /\ ~ m.showing /\ ~ m.coverWaiting
  BY <1>3, <1>4, FieldsAre DEF Begun
<1> QED
  BY <1>2, <1>3, <1>4, <1>5, <1>6, <1>7, <1>8 DEF Begun, Sound

\* if its card is there.
LEMMA CheckedBegun ==
    ASSUME ReaderAssumption, NEW r, NEW b, NEW g, Untouched(r, b, g)
    PROVE  Begun(CheckMedia(r), b, g)
<1>1. Begun(r, b, g) /\ Fresh(r)
  BY UntouchedBegun
<1>2. Keeps(r, CheckMedia(r))
  BY <1>1, CheckMediaKeeps DEF Begun
<1>3. Sound(CheckMedia(r)) /\ Fresh(CheckMedia(r))
  BY <1>1, <1>2 DEF Keeps, Moves
<1> QED
  BY <1>1, <1>2, <1>3 DEF Begun, Keeps, Moves, Follows, Fresh

\* Opening: a number no message carries, so no answer can be for the session but those to
\* come.
LEMMA OpenStep ==
    ASSUME ReaderAssumption, SessionInv, NEW b \in Books, NEW g \in 0 .. generation, Open(b, g)
    PROVE  SessionInv' /\ ~ reader.active
<1> DEFINE fresh == [NoReader EXCEPT !.active = TRUE, !.id = serial + 1, !.book = b,
                               !.generation = g, !.mediaValid = TRUE,
                               !.contentReady = b \notin Epubs]
           begun == IF b \in Epubs THEN fresh ELSE StartPage(fresh, 0, "open")
           command == Command("open", fresh, Start)
<1>1. ~ reader.active /\ serial' = serial + 1 /\ UNCHANGED <<card, reads, service>>
  BY DEF Open
<1>2. UNCHANGED server /\ UNCHANGED <<reads, events, results, saved, generation>>
  BY <1>1 DEF card, service
<1>3. /\ reads \in Seq(OwnReads) /\ commands \in Seq(OwnCommands)
      /\ events \in Seq(OwnEvents) /\ results \in Seq(OwnResults)
      /\ saved \in [Books -> SavedPlaces] /\ generation \in Nat /\ server \in Servers
      /\ server.phase = "parsing" => server.book \in Epubs
      /\ serial \in Nat
  BY DEF SessionInv, MessageShape
<1>4. PICK f : f = fresh
  OBVIOUS
<1>5. Untouched(f, b, g)
  <2>1. PICK content : content = (b \notin Epubs)
    OBVIOUS
  <2> QED
    BY <1>4, <2>1, UntouchedReader
<1>6. f.id = serial + 1 /\ f.generation = g /\ f.book = b
  BY <1>5 DEF Untouched
<1>7. /\ \/ reader' = CheckMedia(f)
         \/ reader' = [begun EXCEPT !.submitted = TRUE]
         \/ b \in Epubs /\ reader' = [begun EXCEPT !.status = "error"]
         \/ reader' = begun
      /\ UNCHANGED commands \/ commands' = Append(commands, Command("open", f, Start))
  BY <1>4 DEF Open
<1>8. begun = (IF b \in Epubs THEN f ELSE StartPage(f, 0, "open"))
  BY <1>4
<1> HIDE DEF fresh, begun
<1>9. Begun(reader', b, g)
  <2>1. Begun(f, b, g) /\ Begun(CheckMedia(f), b, g)
        /\ Begun([f EXCEPT !.submitted = TRUE], b, g)
        /\ Begun([f EXCEPT !.status = "error"], b, g)
    BY <1>5, UntouchedBegun, CheckedBegun, SubmittedBegun, RefusedBegun
  <2>2. CASE b \in Epubs
    BY <1>7, <1>8, <2>1, <2>2
  <2>3. CASE b \notin Epubs
    <3>1. begun = StartPage(f, 0, "open")
      BY <1>8, <2>3
    <3>2. Begun(begun, b, g) /\ Begun([begun EXCEPT !.submitted = TRUE], b, g)
      BY <1>5, <2>3, <3>1, TextBegun
    <3> QED
      BY <1>7, <2>1, <2>3, <3>2
  <2> QED
    BY <2>2, <2>3
<1>10. /\ reader'.active /\ reader'.id = serial + 1 /\ reader'.book = b
       /\ reader'.generation = g /\ Sound(reader')
       /\ b \in Epubs => Fresh(reader')
       /\ ~ reader'.indexed /\ ~ reader'.showing /\ ~ reader'.coverWaiting
  BY <1>9 DEF Begun
<1>11. /\ serial' \in Nat
       /\ OwnReads \subseteq OwnReads' /\ OwnResults \subseteq OwnResults'
       /\ OwnCommands \subseteq OwnCommands' /\ OwnEvents \subseteq OwnEvents'
       /\ \A m \in OwnCommands \cup OwnEvents : m.session # reader'.id
       /\ server'.session <= serial' /\ server'.session # reader'.id
  BY <1>1, <1>2, <1>10, OldMessages
<1>12. PICK c : c = Command("open", f, Start)
  OBVIOUS
<1>13. c \in OwnCommands'
  <2>1. c \in Opens /\ c.session = serial + 1 /\ c.book = b /\ c.type = "open"
    BY <1>3, <1>6, <1>12 DEF Command, Opens
  <2>2. c.session <= serial'
    BY <1>1, <1>3, <2>1
  <2> QED
    BY <1>10, <2>1, <2>2 DEF OwnCommands
<1>14. commands' \in Seq(OwnCommands')
  <2>1. {c} \subseteq OwnCommands' /\ Moved(commands, commands', {c})
    BY <1>7, <1>12, <1>13 DEF Moved
  <2> QED
    BY <1>3, <1>11, <2>1, MovedIn
<1>15. reads' \in Seq(OwnReads') /\ events' \in Seq(OwnEvents') /\ results' \in Seq(OwnResults')
  <2>1. reads \in Seq(OwnReads') /\ events \in Seq(OwnEvents') /\ results \in Seq(OwnResults')
    BY <1>3, <1>11, SubsetIn
  <2> QED
    BY <1>2, <2>1
<1>16. InOrder'
  <2>1. ASSUME NEW i \in 1 .. Len(commands'), NEW j \in 1 .. Len(commands'), i < j
        PROVE  commands'[i].session # reader'.id
    <3>1. PICK n \in Nat : n = Len(commands)
      BY <1>3
    <3>2. ASSUME NEW k \in 1 .. n PROVE commands[k] \in OwnCommands
      BY <1>3, <3>1
    <3>3. i \in 1 .. n /\ commands'[i] = commands[i]
      <4>1. CASE UNCHANGED commands
        <5>1. j \in 1 .. n /\ i \in 1 .. n
          BY <2>1, <3>1, <4>1
        <5> QED
          BY <4>1, <5>1
      <4>2. CASE commands' = Append(commands, c)
        <5>1. PICK q : q = Append(commands, c)
          OBVIOUS
        <5>2. Len(q) = n + 1 /\ \A k \in 1 .. n : q[k] = commands[k]
          BY <1>3, <3>1, <5>1, AppendAt
        <5>3. i \in 1 .. n
          BY <2>1, <4>2, <5>1, <5>2
        <5> QED
          BY <4>2, <5>1, <5>2, <5>3
      <4> QED
        BY <1>7, <1>12, <4>1, <4>2
    <3> QED
      BY <1>11, <3>2, <3>3
  <2>2. \A i \in 1 .. Len(events) : events[i] \in OwnEvents
    BY <1>3
  <2>3. \A i \in 1 .. Len(events') : events'[i].session # reader'.id
    BY <1>2, <1>11, <2>2
  <2> QED
    BY <1>11, <2>1, <2>3 DEF InOrder, Mine, Told
<1>17. MessageShape'
  <2>1. reader'.id \in Nat /\ reader'.id <= serial' /\ reader'.generation \in Nat
    BY <1>1, <1>3, <1>10
  <2> QED
    BY <1>2, <1>3, <1>10, <1>11, <1>14, <1>15, <2>1 DEF MessageShape, Servers
<1>18. Placed(reader)'
  BY <1>10, <1>11 DEF Placed, Served, Fresh
<1>19. Sound(reader)'
  BY <1>10 DEF Sound, Shaped, Laid, WayBack, UnderWay, PageStarts
<1> QED
  BY <1>1, <1>16, <1>17, <1>18, <1>19 DEF SessionInv

-----------------------------------------------------------------------------
(* The steps of the worker.                                                *)

\* The worker goes on with the session it serves, or the reader's is not served yet.
Continues ==
    /\ server'.session = server.session /\ server'.book = server.book
    /\ server'.place = server.place
    /\ server'.phase # "parsing" /\ server.phase # "parsing"

NotServed == reader.active => ~ Served(reader)

\* As long as the worker does not serve the session, it has told nothing.
LEMMA NothingTold ==
    ASSUME NotServed, NEW m \in OwnEvents
    PROVE  ~ Told(m)
  BY DEF NotServed, OwnEvents, Told, Mine

\* A step of the worker: it goes on with its session, or begins one of which nothing was
\* told.
LEMMA ServerStep ==
    ASSUME SessionInv, UNCHANGED <<reader, serial, reads, generation>>,
           Continues \/ server' = server \/ NotServed,
           server' \in Servers, server'.session <= serial,
           server'.phase = "parsing" => server'.book \in Epubs,
           reader.active /\ server'.session = reader.id => server'.book = reader.book,
           saved' \in [Books -> SavedPlaces], results' \in Seq(OwnResults),
           Moved(commands, commands', {}),
           reader.active /\ server'.session = reader.id =>
              \A i \in 1 .. Len(commands') : commands'[i].type # "open",
           NEW E, E \subseteq OwnEvents', Moved(events, events', E),
           \A e \in E : e.session = reader.id /\ e.type = "opened" /\ e.contentReady => NotServed
    PROVE  SessionInv' /\ Turns(reader, reader')
<1>1. /\ Sound(reader) /\ InOrder /\ Placed(reader)
      /\ reads \in Seq(OwnReads) /\ commands \in Seq(OwnCommands)
      /\ events \in Seq(OwnEvents) /\ serial \in Nat /\ generation \in Nat
  BY DEF SessionInv, MessageShape
<1>2. /\ UNCHANGED reader /\ UNCHANGED serial /\ UNCHANGED reads /\ UNCHANGED generation
  OBVIOUS
<1>3. OwnReads' = OwnReads /\ OwnCommands' = OwnCommands /\ OwnResults' = OwnResults
  BY <1>2 DEF OwnReads, OwnCommands, OwnResults, Mine
<1>4. OwnEvents \subseteq OwnEvents'
  <2>1. \A m : (Told(m)' <=> Told(m)) /\ (Mine(m)' <=> Mine(m))
    BY <1>2 DEF Told, Mine
  <2>2. CASE NotServed
    BY <1>2, <2>1, <2>2, NothingTold DEF OwnEvents
  <2>3. CASE Continues
    <3>1. Served(reader)' <=> Served(reader)
      BY <1>2, <2>3 DEF Continues, Served
    <3> QED
      BY <1>2, <2>1, <2>3, <3>1 DEF OwnEvents, Continues
  <2>4. CASE server' = server
    BY <1>2, <2>1, <2>4 DEF OwnEvents, Served
  <2> QED
    BY <2>2, <2>3, <2>4
<1>5. commands' \in Seq(OwnCommands')
  <2>1. {} \subseteq OwnCommands' /\ OwnCommands \subseteq OwnCommands'
    BY <1>3
  <2> QED
    BY <1>1, <2>1, MovedIn
<1>6. events' \in Seq(OwnEvents')
  BY <1>1, <1>4, MovedIn
<1>7. MessageShape'
  <2>1. reads' \in Seq(OwnReads') /\ results' \in Seq(OwnResults')
    BY <1>1, <1>2, <1>3
  <2>2. reader.active => /\ reader.id \in Nat /\ reader.id <= serial /\ reader.book \in Books
                         /\ reader.generation \in Nat
    BY DEF SessionInv, MessageShape
  <2> QED
    BY <1>1, <1>2, <1>5, <1>6, <2>1, <2>2 DEF MessageShape, Servers
<1>8. InOrder'
  <2>1. \A e \in E : e.session = reader.id /\ e.type = "opened" /\ e.contentReady =>
              \A i \in 1 .. Len(events) : ~ Told(events[i])
    <3>1. \A i \in 1 .. Len(events) : events[i] \in OwnEvents
      BY <1>1
    <3> QED
      BY <3>1, NothingTold
  <2>2. PICK C : C = {}
    OBVIOUS
  <2>3. Moved(commands, commands', C) /\ \A c \in C : c.type # "open"
    BY <2>2
  <2>4. reader'.active => reader.active /\ reader'.id = reader.id
    BY <1>2
  <2>5. reader'.active /\ server'.session = reader'.id =>
            \A i \in 1 .. Len(commands') : commands'[i].type # "open"
    BY <1>2
  <2> QED
    BY <1>1, <2>1, <2>3, <2>4, <2>5, OrderStays
<1>9. Placed(reader)'
  <2>1. CASE NotServed
    BY <1>1, <1>2, <2>1 DEF NotServed, Placed, Served, Fresh
  <2>2. CASE Continues
    BY <1>1, <1>2, <2>2 DEF Continues, Placed, Served, Fresh
  <2>3. CASE server' = server
    BY <1>1, <1>2, <2>3 DEF Placed, Served, Fresh
  <2> QED
    BY <2>1, <2>2, <2>3
<1>10. Sound(reader)'
  BY <1>1, <1>2
<1>11. Turns(reader, reader')
  BY <1>2 DEF Turns
<1> QED
  BY <1>7, <1>8, <1>9, <1>10, <1>11 DEF SessionInv

\* Nothing of a session is reported before the worker serves it.
LEMMA ErrorOwn ==
    ASSUME SessionInv, UNCHANGED <<reader, serial>>, NEW s \in Servers,
           server'.session = s.session, server'.book = s.book, s.session <= serial,
           reader.active /\ s.session = reader.id => s.book = reader.book,
           NEW page \in PageStarts, NEW e, e = Event("error", s, 0, page, TRUE)
    PROVE  e \in OwnEvents' /\ e.type = "error"
<1>1. e \in Events /\ e.type = "error" /\ e.session = s.session /\ e.book = s.book
  BY DEF Event, Events, Servers
<1>2. e.session <= serial'
  BY <1>1
<1> QED
  BY <1>1, <1>2 DEF OwnEvents, Mine, Told

\* The event that a book is opened carries the worker's place once that is known.
LEMMA OpenedOwn ==
    ASSUME SessionInv, UNCHANGED <<reader, serial>>, NotServed,
           NEW s \in Servers, server' = s, s.session <= serial,
           reader.active /\ s.session = reader.id => s.book = reader.book,
           NEW page \in PageStarts,
           s.book \notin Epubs \/ s.cached => s.phase # "parsing" /\ page = s.place.page,
           NEW e, e = Event("opened", s, 0, page, FALSE)
    PROVE  e \in OwnEvents' /\ e.type = "opened"
<1>1. /\ e \in Events /\ e.type = "opened" /\ e.session = s.session /\ e.book = s.book
      /\ e.page = page
      /\ e.contentReady => s.book \notin Epubs \/ s.cached
      /\ e.atCover => s.place.atCover /\ s.book \in Epubs
  BY DEF Event, Events, Servers, SavedPlaces
<1>2. e.session <= serial'
  BY <1>1
<1>3. reader.active /\ reader.book \in Epubs => Fresh(reader)
  BY DEF SessionInv, Placed, NotServed
<1>4. Mine(e)' => reader'.active /\ s.session = reader'.id
  BY <1>1 DEF Mine
<1>5. Told(e)' => Served(reader)' /\ e.page = server'.place.page
  BY <1>1, <1>4 DEF Told, Served
<1>6. Told(e)' /\ reader'.book \in Epubs => Fresh(reader)'
  BY <1>3, <1>4 DEF Told, Fresh
<1> QED
  BY <1>1, <1>2, <1>4, <1>5, <1>6 DEF OwnEvents

\* The event that the index is ready carries the worker's place.
LEMMA ReadyOwn ==
    ASSUME SessionInv, UNCHANGED <<reader, serial>>,
           NEW s \in Servers, server' = s, s.session <= serial, s.phase = "ready",
           reader.active /\ s.session = reader.id => s.book = reader.book,
           NEW e, e = Event("ready", s, 0, s.place.page, FALSE)
    PROVE  e \in OwnEvents' /\ e.type = "ready"
<1>1. /\ e \in Events /\ e.type = "ready" /\ e.session = s.session /\ e.book = s.book
      /\ e.page = s.place.page
      /\ e.atCover => s.place.atCover /\ s.book \in Epubs
  BY DEF Event, Events, Servers, SavedPlaces
<1>2. e.session <= serial'
  BY <1>1
<1>3. Mine(e)' => reader'.active /\ s.session = reader'.id
  BY <1>1 DEF Mine
<1>4. Told(e)' => Served(reader)' /\ e.page = server'.place.page
  BY <1>1, <1>3 DEF Told, Served
<1> QED
  BY <1>1, <1>2, <1>3, <1>4 DEF OwnEvents

\* The event that answers a query fits it.
LEMMA PositionOwn ==
    ASSUME SessionInv, UNCHANGED <<reader, serial, server>>,
           NEW request \in Nat, NEW page \in PageStarts,
           reader.active /\ server.session = reader.id => Fits(reader, request, page),
           NEW e, e = Event("position", server, request, page, FALSE)
    PROVE  e \in OwnEvents' /\ e.type = "position"
<1>1. /\ server \in Servers /\ server.session <= serial
      /\ reader.active /\ server.session = reader.id => server.book = reader.book
  BY DEF SessionInv, MessageShape
<1>2. /\ e \in Events /\ e.type = "position" /\ e.session = server.session
      /\ e.book = server.book /\ e.request = request /\ e.page = page
  BY <1>1 DEF Event, Events, Servers, SavedPlaces
<1>3. e.session <= serial'
  BY <1>1, <1>2
<1>4. Mine(e)' => reader.active /\ server.session = reader.id
  BY <1>2 DEF Mine
<1>5. ~ Told(e)'
  BY <1>2 DEF Told
<1>6. Mine(e)' => Fits(reader', e.request, e.page) /\ e.book = reader'.book
  BY <1>1, <1>2, <1>4
<1> QED
  BY <1>2, <1>3, <1>5, <1>6 DEF OwnEvents

\* An event is published at the end of the queue.
LEMMA PublishMoves ==
    ASSUME NEW e, Publish(e)
    PROVE  Moved(events, events', {e})
  BY DEF Publish, Moved

\* A state t of the worker that may be published for the reader.
Serves(t) ==
    /\ t \in Servers /\ t.session <= serial
    /\ reader.active /\ t.session = reader.id => t.book = reader.book

\* A worker that goes from one phase to another serves the same session at the same
\* place.
LEMMA ServerFields ==
    ASSUME NEW t \in Servers, NEW phase \in {"idle", "parsing", "building", "ready", "failed"}
    PROVE  LET n == [t EXCEPT !.phase = phase]
           IN /\ n \in Servers /\ n.phase = phase /\ n.session = t.session /\ n.book = t.book
              /\ n.place = t.place /\ n.cached = t.cached /\ n.generation = t.generation
  BY DEF Servers

\* The engine fails: the session goes on without an index.
LEMMA EngineFailsStep ==
    ASSUME ReaderAssumption, SessionInv, UNCHANGED <<reader, serial, reads, generation, results>>,
           NEW t, Serves(t), NEW page \in PageStarts, EngineFails(t, page),
           NotServed \/ (t = server /\ t.phase # "parsing"),
           saved' \in [Books -> SavedPlaces], Moved(commands, commands', {}),
           reader.active /\ t.session = reader.id =>
              \A i \in 1 .. Len(commands') : commands'[i].type # "open"
    PROVE  SessionInv' /\ Turns(reader, reader')
<1>1. t \in Servers /\ t.session <= serial
      /\ (reader.active /\ t.session = reader.id => t.book = reader.book)
  BY DEF Serves
<1>2. PICK n : n = [t EXCEPT !.phase = "failed"]
  OBVIOUS
<1>3. PICK e : e = Event("error", t, 0, page, TRUE)
  OBVIOUS
<1>4. server' = n /\ Publish(e)
  BY <1>2, <1>3 DEF EngineFails
<1>5. /\ n \in Servers /\ n.phase = "failed" /\ n.session = t.session /\ n.book = t.book
      /\ n.place = t.place
  BY <1>1, <1>2, ServerFields
<1>6. e \in OwnEvents' /\ e.type = "error"
  BY <1>1, <1>3, <1>4, <1>5, ErrorOwn
<1>7. Moved(events, events', {e}) /\ {e} \subseteq OwnEvents'
  BY <1>4, <1>6, PublishMoves
<1>8. results' \in Seq(OwnResults)
  BY DEF SessionInv, MessageShape
<1>9. Continues \/ NotServed
  BY <1>4, <1>5 DEF Continues
<1>10. \A x \in {e} : x.session = reader.id /\ x.type = "opened" /\ x.contentReady => NotServed
  BY <1>6
<1>11. UNCHANGED <<reader, serial, reads, generation>>
  OBVIOUS
<1>12. /\ server' \in Servers /\ server'.session <= serial /\ server'.phase # "parsing"
       /\ reader.active /\ server'.session = reader.id => server'.book = reader.book
       /\ reader.active /\ server'.session = reader.id =>
             \A i \in 1 .. Len(commands') : commands'[i].type # "open"
  BY <1>1, <1>4, <1>5
<1> QED
  BY <1>7, <1>8, <1>9, <1>10, <1>11, <1>12, ServerStep

\* The worker opens a text, at the place that was saved.
LEMMA OpenTextStep ==
    ASSUME ReaderAssumption, SessionInv, UNCHANGED <<reader, serial, reads, generation, results>>,
           NotServed, NEW t, Serves(t), OpenText(t),
           saved' \in [Books -> SavedPlaces], Moved(commands, commands', {}),
           reader.active /\ t.session = reader.id =>
              \A i \in 1 .. Len(commands') : commands'[i].type # "open"
    PROVE  SessionInv' /\ Turns(reader, reader')
<1>1. t \in Servers /\ t.session <= serial
      /\ (reader.active /\ t.session = reader.id => t.book = reader.book)
  BY DEF Serves
<1>2. PICK n : n = [t EXCEPT !.phase = "building"]
  OBVIOUS
<1>3. /\ n \in Servers /\ n.phase = "building" /\ n.session = t.session /\ n.book = t.book
      /\ n.place = t.place
  BY <1>1, <1>2, ServerFields
<1>4. t.place.page \in PageStarts
  BY <1>1 DEF Servers, SavedPlaces
<1>5. PICK e : e = Event("opened", n, 0, t.place.page, FALSE)
  OBVIOUS
<1>6. CASE EngineFails(t, 0)
  <2>1. 0 \in PageStarts
    BY PagesAre
  <2> QED
    BY <1>6, <2>1, EngineFailsStep
<1>7. CASE server' = n /\ Publish(e)
  <2>1. e \in OwnEvents'
    <3>1. UNCHANGED <<reader, serial>> /\ n.session <= serial
          /\ (reader.active /\ n.session = reader.id => n.book = reader.book)
          /\ n.phase # "parsing" /\ t.place.page = n.place.page
      BY <1>1, <1>3
    <3> QED
      BY <1>3, <1>4, <1>5, <1>7, <3>1, OpenedOwn
  <2>2. Moved(events, events', {e}) /\ {e} \subseteq OwnEvents'
    BY <1>7, <2>1, PublishMoves
  <2>3. results' \in Seq(OwnResults)
    BY DEF SessionInv, MessageShape
  <2>4. \A x \in {e} : x.session = reader.id /\ x.type = "opened" /\ x.contentReady => NotServed
    OBVIOUS
  <2>5. UNCHANGED <<reader, serial, reads, generation>>
    OBVIOUS
  <2>6. /\ server' \in Servers /\ server'.session <= serial /\ server'.phase # "parsing"
        /\ reader.active /\ server'.session = reader.id => server'.book = reader.book
        /\ reader.active /\ server'.session = reader.id =>
              \A i \in 1 .. Len(commands') : commands'[i].type # "open"
    BY <1>1, <1>3, <1>7
  <2> QED
    BY <2>2, <2>3, <2>4, <2>5, <2>6, ServerStep
<1> QED
  BY <1>2, <1>5, <1>6, <1>7 DEF OpenText

\* The worker takes an open: it leaves whatever it served before.
LEMMA OpenBookStep ==
    ASSUME ReaderAssumption, SessionInv,
           UNCHANGED <<reader, serial, reads, generation, results, saved>>,
           commands # <<>>, commands' = Tail(commands), NEW c, c = Head(commands),
           c.type = "open", OpenBook(c)
    PROVE  SessionInv' /\ Turns(reader, reader')
<1>1. /\ commands \in Seq(OwnCommands) /\ InOrder /\ saved \in [Books -> SavedPlaces]
      /\ serial \in Nat
  BY DEF SessionInv, MessageShape
<1>2. /\ c \in OwnCommands /\ c = commands[1] /\ 1 \in 1 .. Len(commands)
      /\ Moved(commands, commands', {})
  BY <1>1, HeadIn, TailAt DEF Moved
<1>3. /\ c \in Opens /\ c.session <= serial
      /\ reader.active /\ c.session = reader.id => c.book = reader.book
  BY <1>2 DEF OwnCommands, Reads, Queries, Opens, Closes, Mine
<1>4. NotServed
  BY <1>1, <1>2 DEF NotServed, Served, InOrder
<1>5. reader.active /\ c.session = reader.id =>
         \A i \in 1 .. Len(commands') : commands'[i].type # "open"
  <2>1. SUFFICES ASSUME reader.active, c.session = reader.id,
                        NEW i \in 1 .. Len(commands')
                 PROVE  commands'[i].type # "open"
    OBVIOUS
  <2>2. PICK n \in Nat : n + 1 = Len(commands)
    <3>1. Len(commands) - 1 \in Nat /\ (Len(commands) - 1) + 1 = Len(commands)
      BY <1>1, TailAt
    <3> QED
      BY <3>1
  <2>3. PICK t : t = Tail(commands)
    OBVIOUS
  <2>4. Len(t) = n /\ \A k \in 1 .. n : t[k] = commands[k + 1] /\ k + 1 \in 1 .. Len(commands)
    BY <1>1, <2>2, <2>3, TailAt
  <2>5. i \in 1 .. n /\ commands'[i] = t[i]
    BY <2>1, <2>3, <2>4
  <2>6. t[i] = commands[i + 1] /\ i + 1 \in 1 .. Len(commands) /\ 1 < i + 1
    BY <2>4, <2>5
  <2> QED
    BY <1>1, <1>2, <2>1, <2>5, <2>6 DEF InOrder, Mine
<1>6. PICK place \in SavedPlaces : place = saved[c.book]
  BY <1>1, <1>3 DEF Opens
<1>7. PICK s : s = [session |-> c.session, generation |-> c.generation, book |-> c.book,
                    phase |-> "idle", cached |-> FALSE, place |-> place,
                    position |-> place.page]
  OBVIOUS
<1>8. /\ s \in Servers /\ s.session = c.session /\ s.book = c.book /\ s.phase = "idle"
      /\ s.cached = FALSE
  BY <1>3, <1>6, <1>7 DEF Opens, Servers, SavedPlaces
<1>9. PICK t : t = [s EXCEPT !.cached = (c.book \in Epubs)]
  OBVIOUS
<1>10. t \in Servers /\ t.session = c.session /\ t.book = c.book
  <2>1. PICK cached \in BOOLEAN : cached = (c.book \in Epubs)
    <3>1. (c.book \in Epubs) \in BOOLEAN
      OBVIOUS
    <3> QED
      BY <3>1
  <2>2. t = [s EXCEPT !.cached = cached]
    BY <1>9, <2>1
  <2> QED
    BY <1>8, <2>2 DEF Servers
<1>11. PICK parsing : parsing = [s EXCEPT !.phase = "parsing"]
  OBVIOUS
<1>12. /\ parsing \in Servers /\ parsing.phase = "parsing" /\ parsing.session = c.session
       /\ parsing.book = c.book /\ parsing.cached = FALSE
  BY <1>8, <1>11, ServerFields
<1>13. \/ OpenText(t)
       \/ c.book \in Epubs /\ server' = parsing /\ Publish(Event("opened", parsing, 0, 0, FALSE))
       \/ server' = s /\ Publish(Event("error", s, 0, 0, TRUE))
  BY <1>6, <1>7, <1>9, <1>11 DEF OpenBook
<1>14. /\ 0 \in PageStarts /\ results' \in Seq(OwnResults)
       /\ saved' \in [Books -> SavedPlaces]
       /\ UNCHANGED <<reader, serial, reads, generation, results>>
       /\ UNCHANGED <<reader, serial, reads, generation>> /\ UNCHANGED <<reader, serial>>
  BY <1>1, PagesAre DEF SessionInv, MessageShape
<1>15. CASE OpenText(t)
  <2>1. Serves(t)
    BY <1>3, <1>10 DEF Serves
  <2> QED
    BY <1>2, <1>4, <1>5, <1>10, <1>14, <1>15, <2>1, OpenTextStep
<1>16. ASSUME NEW n \in Servers, n.session = c.session, n.book = c.book, server' = n,
              n.phase = "parsing" => n.book \in Epubs,
              NEW e \in OwnEvents', Publish(e)
       PROVE  SessionInv' /\ Turns(reader, reader')
  <2>1. Moved(events, events', {e}) /\ {e} \subseteq OwnEvents'
    BY <1>16, PublishMoves
  <2>2. \A x \in {e} : x.session = reader.id /\ x.type = "opened" /\ x.contentReady => NotServed
    BY <1>4
  <2>3. /\ server' \in Servers /\ server'.session <= serial
        /\ server'.phase = "parsing" => server'.book \in Epubs
        /\ reader.active /\ server'.session = reader.id => server'.book = reader.book
        /\ reader.active /\ server'.session = reader.id =>
              \A i \in 1 .. Len(commands') : commands'[i].type # "open"
    BY <1>3, <1>5, <1>16
  <2> QED
    BY <1>2, <1>4, <1>14, <2>1, <2>2, <2>3, ServerStep
<1>17. CASE c.book \in Epubs /\ server' = parsing
            /\ Publish(Event("opened", parsing, 0, 0, FALSE))
  <2>1. PICK e : e = Event("opened", parsing, 0, 0, FALSE)
    OBVIOUS
  <2>2. e \in OwnEvents'
    BY <1>3, <1>4, <1>12, <1>14, <1>17, <2>1, OpenedOwn
  <2> QED
    BY <1>12, <1>16, <1>17, <2>1, <2>2
<1>18. CASE server' = s /\ Publish(Event("error", s, 0, 0, TRUE))
  <2>1. PICK e : e = Event("error", s, 0, 0, TRUE)
    OBVIOUS
  <2>2. e \in OwnEvents'
    BY <1>3, <1>8, <1>14, <1>18, <2>1, ErrorOwn
  <2> QED
    BY <1>8, <1>16, <1>18, <2>1, <2>2
<1> QED
  BY <1>13, <1>15, <1>17, <1>18

\* A command other than an open, taken off the queue.
LEMMA NoOpenTaken ==
    ASSUME SessionInv, UNCHANGED reader, commands # <<>>, commands' = Tail(commands),
           server'.session = server.session
    PROVE  /\ Moved(commands, commands', {})
           /\ reader.active /\ server'.session = reader.id =>
                 \A i \in 1 .. Len(commands') : commands'[i].type # "open"
<1>1. commands \in Seq(OwnCommands) /\ InOrder
  BY DEF SessionInv, MessageShape
<1>2. Moved(commands, commands', {})
  BY DEF Moved
<1>3. PICK t : t = Tail(commands)
  OBVIOUS
<1>4. \A j \in 1 .. Len(t) :
         (\E m \in {} : t[j] = m) \/ \E l \in 1 .. Len(commands) : t[j] = commands[l]
  BY <1>1, <1>2, <1>3, MovedAll
<1>5. reader.active /\ server'.session = reader.id =>
         \A i \in 1 .. Len(commands') : commands'[i].type # "open"
  BY <1>1, <1>3, <1>4 DEF InOrder
<1> QED
  BY <1>2, <1>5

\* The worker answers a query from the index of the session it serves.
LEMMA QueryStep ==
    ASSUME ReaderAssumption, SessionInv,
           UNCHANGED <<reader, serial, reads, generation, results, saved>>,
           commands # <<>>, commands' = Tail(commands), NEW c, c = Head(commands),
           c.type = "query", Query(c)
    PROVE  SessionInv' /\ Turns(reader, reader')
<1>1. /\ commands \in Seq(OwnCommands) /\ saved' \in [Books -> SavedPlaces]
      /\ results' \in Seq(OwnResults) /\ Serves(server)
      /\ server.phase = "parsing" => server.book \in Epubs
  BY DEF SessionInv, MessageShape, Serves
<1>2. c \in OwnCommands
  BY <1>1, HeadIn
<1>3. PICK request \in Nat, page \in PageStarts :
         /\ request = c.arg.request /\ page = c.arg.page
         /\ Mine(c) => Fits(reader, request, page)
  BY <1>2 DEF OwnCommands, Reads, Queries, Opens, Closes
<1>4. UNCHANGED <<reader, serial, reads, generation>> /\ UNCHANGED reader
      /\ UNCHANGED <<reader, serial, reads, generation, results>>
  OBVIOUS
<1>5. ASSUME server' = server, NEW E, E \subseteq OwnEvents', Moved(events, events', E),
             \A e \in E : e.type # "opened"
      PROVE  SessionInv' /\ Turns(reader, reader')
  <2>1. /\ Moved(commands, commands', {})
        /\ reader.active /\ server'.session = reader.id =>
                 \A i \in 1 .. Len(commands') : commands'[i].type # "open"
    BY <1>4, <1>5, NoOpenTaken
  <2>2. /\ server' \in Servers /\ server'.session <= serial
        /\ server'.phase = "parsing" => server'.book \in Epubs
        /\ reader.active /\ server'.session = reader.id => server'.book = reader.book
    BY <1>1, <1>5 DEF Serves
  <2>3. \A e \in E : e.session = reader.id /\ e.type = "opened" /\ e.contentReady => NotServed
    BY <1>5
  <2> QED
    BY <1>1, <1>4, <1>5, <2>1, <2>2, <2>3, ServerStep
<1>6. CASE UNCHANGED <<server, events>>
  <2>1. {} \subseteq OwnEvents' /\ Moved(events, events', {}) /\ \A e \in {} : e.type # "opened"
    BY <1>6 DEF Moved
  <2> QED
    BY <1>5, <1>6, <2>1
<1>7. PICK e : e = Event("position", server, request, page, FALSE)
  OBVIOUS
<1>8. CASE c.session = server.session /\ server' = server /\ Publish(e)
  <2>1. reader.active /\ server.session = reader.id => Fits(reader, request, page)
    BY <1>3, <1>8 DEF Mine
  <2>2. UNCHANGED <<reader, serial, server>>
    BY <1>8
  <2>3. e \in OwnEvents' /\ e.type = "position"
    BY <1>7, <2>1, <2>2, PositionOwn
  <2>4. Moved(events, events', {e}) /\ {e} \subseteq OwnEvents' /\ \A x \in {e} : x.type # "opened"
    BY <1>8, <2>3, PublishMoves
  <2> QED
    BY <1>5, <1>8, <2>4
<1>9. CASE server.phase = "ready" /\ EngineFails(server, 0)
  <2>1. server'.session = server.session
    <3>1. server' = [server EXCEPT !.phase = "failed"]
      BY <1>9 DEF EngineFails
    <3> QED
      BY <1>1, <3>1 DEF Serves, Servers
  <2>2. /\ Moved(commands, commands', {})
        /\ reader.active /\ server.session = reader.id =>
                 \A i \in 1 .. Len(commands') : commands'[i].type # "open"
    BY <1>4, <2>1, NoOpenTaken
  <2>3. 0 \in PageStarts /\ server.phase # "parsing"
    BY <1>9, PagesAre
  <2>4. EngineFails(server, 0)
    BY <1>9
  <2> QED
    BY <1>1, <1>4, <2>2, <2>3, <2>4, EngineFailsStep
<1> QED
  BY <1>3, <1>6, <1>7, <1>8, <1>9 DEF Query

\* The worker reads a block of the book that the command names.
LEMMA ReadStep ==
    ASSUME ReaderAssumption, SessionInv,
           UNCHANGED <<reader, serial, reads, generation, server, saved, events>>,
           commands # <<>>, commands' = Tail(commands), NEW c, c = Head(commands),
           c.type = "read", ReadContent(c)
    PROVE  SessionInv' /\ Turns(reader, reader')
<1>1. /\ commands \in Seq(OwnCommands) /\ saved' \in [Books -> SavedPlaces]
      /\ results \in Seq(OwnResults) /\ Serves(server) /\ Sound(reader)
      /\ server.phase = "parsing" => server.book \in Epubs
  BY DEF SessionInv, MessageShape, Serves
<1>2. c \in OwnCommands
  BY <1>1, HeadIn
<1>3. c \in Reads /\ c.session <= serial
  BY <1>2 DEF OwnCommands, Reads, Queries, Opens, Closes
<1>4. PICK answer : answer = [session |-> c.session, request |-> c.arg.request,
                              generation |-> c.generation, at |-> c.arg.at,
                              block |-> <<server.book, c.arg.at>>]
  OBVIOUS
<1>5. PICK error : error = [answer EXCEPT !.block = None]
  OBVIOUS
<1>6. /\ c.session \in Nat /\ c.arg.request \in Nat /\ c.generation \in Nat
      /\ c.arg.at \in {"text", "cover"} \X Nat \X Nat /\ server.book \in Books \cup {None}
  BY <1>1, <1>3 DEF Reads, Serves, Servers
<1>7. answer \in Results /\ answer.session = c.session /\ answer.at = c.arg.at
      /\ answer.block = <<server.book, c.arg.at>>
  <2>1. PICK at \in {"text", "cover"} \X Nat \X Nat, book \in Books \cup {None} :
           at = c.arg.at /\ book = server.book
    BY <1>6
  <2>2. <<book, at>> \in (Books \cup {None}) \X ({"text", "cover"} \X Nat \X Nat)
    OBVIOUS
  <2>3. answer = [session |-> c.session, request |-> c.arg.request,
                  generation |-> c.generation, at |-> at, block |-> <<book, at>>]
    BY <1>4, <2>1
  <2> QED
    BY <1>6, <2>1, <2>2, <2>3 DEF Results
<1>8. error \in OwnResults
  <2>1. error \in Results /\ error.session = c.session /\ error.block = None
    BY <1>5, <1>7 DEF Results
  <2> QED
    BY <1>3, <2>1 DEF OwnResults
<1>9. c.session = server.session => answer \in OwnResults
  BY <1>1, <1>3, <1>7 DEF OwnResults, Mine, Serves
<1>10. results' \in Seq(OwnResults)
  <2>1. \/ results' = results
        \/ c.session = server.session /\ results' = Append(results, answer)
        \/ results' = Append(results, error)
    BY <1>4, <1>5 DEF ReadContent
  <2> QED
    BY <1>1, <1>8, <1>9, <2>1, AppendIn
<1>11. UNCHANGED <<reader, serial, reads, generation>> /\ UNCHANGED reader /\ server' = server
  OBVIOUS
<1>12. /\ Moved(commands, commands', {})
       /\ reader.active /\ server'.session = reader.id =>
             \A i \in 1 .. Len(commands') : commands'[i].type # "open"
  BY <1>11, NoOpenTaken
<1>13. /\ server' \in Servers /\ server'.session <= serial
       /\ server'.phase = "parsing" => server'.book \in Epubs
       /\ reader.active /\ server'.session = reader.id => server'.book = reader.book
  BY <1>1, <1>11 DEF Serves
<1>14. /\ {} \subseteq OwnEvents' /\ Moved(events, events', {})
       /\ \A e \in {} : e.session = reader.id /\ e.type = "opened" /\ e.contentReady => NotServed
  BY DEF Moved
<1> QED
  BY <1>1, <1>10, <1>11, <1>12, <1>13, <1>14, ServerStep

\* The worker saves the place of a session that is closed, if it still serves it.
LEMMA SaveStep ==
    ASSUME ReaderAssumption, SessionInv,
           UNCHANGED <<reader, serial, reads, generation, events, results>>,
           commands # <<>>, commands' = Tail(commands), NEW c, c = Head(commands),
           c.type = "close", Save(c)
    PROVE  SessionInv' /\ Turns(reader, reader')
<1>1. /\ commands \in Seq(OwnCommands) /\ saved \in [Books -> SavedPlaces]
      /\ results' \in Seq(OwnResults) /\ Serves(server) /\ server \in Servers
      /\ server.phase = "parsing" => server.book \in Epubs
  BY DEF SessionInv, MessageShape, Serves
<1>2. c \in OwnCommands
  BY <1>1, HeadIn
<1>3. c \in Closes
  BY <1>2 DEF OwnCommands, Reads, Queries, Opens, Closes
<1>4. PICK page \in PageStarts, atCover \in BOOLEAN : page = c.arg.page /\ atCover = c.arg.atCover
  BY <1>3 DEF Closes, SavedPlaces
<1>5. ASSUME NEW k, k = saved \/ (server.cached /\ k \in CacheSaved(c))
      PROVE  k \in [Books -> SavedPlaces]
  <2>1. CASE k = saved
    BY <1>1, <2>1
  <2>2. CASE k \in CacheSaved(c)
    <3>1. PICK p \in {saved[server.book].page, page} :
             k = [saved EXCEPT ![server.book] = [page |-> p, atCover |-> atCover]]
      BY <1>4, <2>2 DEF CacheSaved
    <3>2. server.book \in Books => [page |-> p, atCover |-> atCover] \in SavedPlaces
      BY <1>1, <3>1 DEF SavedPlaces
    <3> QED
      BY <1>1, <3>1, <3>2
  <2> QED
    BY <1>5, <2>1, <2>2
<1>6. \/ UNCHANGED <<server, saved>>
      \/ \E k \in [Books -> SavedPlaces] :
            \/ /\ Indexing /\ saved' = [k EXCEPT ![server.book].page = page]
               /\ server' = [server EXCEPT !.position = page]
            \/ Indexing /\ saved' = k /\ server' = [server EXCEPT !.phase = "failed"]
            \/ saved' = k /\ server' = server
  BY <1>4, <1>5 DEF Save
<1>7. /\ saved' \in [Books -> SavedPlaces] /\ server' \in Servers
      /\ server'.session = server.session /\ server'.book = server.book
      /\ Continues \/ server' = server
  <2>1. CASE UNCHANGED <<server, saved>>
    BY <1>1, <2>1
  <2>2. ASSUME NEW k \in [Books -> SavedPlaces],
               Indexing, saved' = [k EXCEPT ![server.book].page = page],
               server' = [server EXCEPT !.position = page]
        PROVE  /\ saved' \in [Books -> SavedPlaces] /\ server' \in Servers
               /\ server'.session = server.session /\ server'.book = server.book
               /\ Continues
    <3>1. saved' \in [Books -> SavedPlaces]
      BY <2>2 DEF SavedPlaces
    <3>2. /\ server' \in Servers /\ server'.session = server.session
          /\ server'.book = server.book /\ server'.place = server.place
          /\ server'.phase = server.phase
      BY <1>1, <2>2 DEF Servers
    <3> QED
      BY <2>2, <3>1, <3>2 DEF Continues, Indexing
  <2>3. ASSUME NEW k \in [Books -> SavedPlaces],
               Indexing, saved' = k, server' = [server EXCEPT !.phase = "failed"]
        PROVE  /\ saved' \in [Books -> SavedPlaces] /\ server' \in Servers
               /\ server'.session = server.session /\ server'.book = server.book
               /\ Continues
    <3>1. /\ server' \in Servers /\ server'.session = server.session
          /\ server'.book = server.book /\ server'.place = server.place
          /\ server'.phase = "failed"
      BY <1>1, <2>3 DEF Servers
    <3> QED
      BY <2>3, <3>1 DEF Continues, Indexing
  <2> QED
    BY <1>1, <1>6, <2>1, <2>2, <2>3
<1>8. UNCHANGED <<reader, serial, reads, generation>> /\ UNCHANGED reader
  OBVIOUS
<1>9. /\ Moved(commands, commands', {})
      /\ reader.active /\ server'.session = reader.id =>
            \A i \in 1 .. Len(commands') : commands'[i].type # "open"
  BY <1>7, <1>8, NoOpenTaken
<1>10. /\ server'.session <= serial
       /\ server'.phase = "parsing" => server'.book \in Epubs
       /\ reader.active /\ server'.session = reader.id => server'.book = reader.book
  BY <1>1, <1>7 DEF Serves, Continues
<1>11. /\ {} \subseteq OwnEvents' /\ Moved(events, events', {})
       /\ \A e \in {} : e.session = reader.id /\ e.type = "opened" /\ e.contentReady => NotServed
  BY DEF Moved
<1> QED
  BY <1>1, <1>7, <1>8, <1>9, <1>10, <1>11, ServerStep

\* The worker takes whatever command comes first.
LEMMA TakeCommandStep ==
    ASSUME ReaderAssumption, SessionInv, TakeCommand
    PROVE  SessionInv' /\ Turns(reader, reader')
<1>1. PICK c : c = Head(commands)
  OBVIOUS
<1>2. /\ commands # <<>> /\ commands' = Tail(commands)
      /\ UNCHANGED <<card, reads, serial, reader>>
      /\ UNCHANGED <<reader, serial, reads, generation>>
      /\ \/ UNCHANGED service
         \/ c.type = "open" /\ OpenBook(c) /\ UNCHANGED <<saved, results>>
         \/ c.type = "query" /\ Query(c) /\ UNCHANGED <<saved, results>>
         \/ c.type = "read" /\ ReadContent(c) /\ UNCHANGED <<server, saved, events>>
         \/ c.type = "close" /\ Save(c) /\ UNCHANGED <<events, results>>
  BY <1>1 DEF TakeCommand, card
<1>3. CASE UNCHANGED service
  <2>1. /\ UNCHANGED <<card, server, saved, serial>> /\ UNCHANGED reader
        /\ Moved(reads, reads', OwnReads') /\ Moved(commands, commands', Asks')
        /\ Moved(events, events', {}) /\ Moved(results, results', {})
    BY <1>2, <1>3 DEF Moved, service
  <2>2. Keeps(reader, reader')
    BY <2>1, KeepsSame DEF SessionInv
  <2>3. Moves(reader, reader') /\ (Fresh(reader) => Fresh(reader'))
    BY <2>2 DEF Keeps
  <2> QED
    BY <2>1, <2>3, StepHolds
<1>4. CASE c.type = "open" /\ OpenBook(c) /\ UNCHANGED <<saved, results>>
  BY <1>1, <1>2, <1>4, OpenBookStep
<1>5. CASE c.type = "query" /\ Query(c) /\ UNCHANGED <<saved, results>>
  BY <1>1, <1>2, <1>5, QueryStep
<1>6. CASE c.type = "read" /\ ReadContent(c) /\ UNCHANGED <<server, saved, events>>
  BY <1>1, <1>2, <1>6, ReadStep
<1>7. CASE c.type = "close" /\ Save(c) /\ UNCHANGED <<events, results>>
  BY <1>1, <1>2, <1>7, SaveStep
<1> QED
  BY <1>2, <1>3, <1>4, <1>5, <1>6, <1>7

\* The worker goes on parsing or building.
LEMMA WorkStep ==
    ASSUME ReaderAssumption, SessionInv, Step
    PROVE  SessionInv' /\ Turns(reader, reader')
<1>1. /\ UNCHANGED <<card, reads, commands, results, serial, reader>>
      /\ UNCHANGED <<reader, serial, reads, generation, results>>
      /\ UNCHANGED <<reader, serial, reads, generation>> /\ UNCHANGED <<reader, serial>>
      /\ UNCHANGED commands
  BY DEF Step, card
<1>2. /\ saved \in [Books -> SavedPlaces] /\ results \in Seq(OwnResults) /\ InOrder
      /\ Serves(server) /\ server \in Servers
      /\ server.phase = "parsing" => server.book \in Epubs
  BY DEF SessionInv, MessageShape, Serves
<1>3. Moved(commands, commands', {})
  BY <1>1 DEF Moved
<1>4. reader.active /\ server.session = reader.id =>
         \A i \in 1 .. Len(commands') : commands'[i].type # "open"
  BY <1>1, <1>2 DEF InOrder
<1>5. /\ server.place.page \in PageStarts /\ server.position \in PageStarts
      /\ 0 \in PageStarts
  BY <1>2, PagesAre DEF Servers, SavedPlaces
<1>6. server.phase = "parsing" => NotServed
  BY DEF NotServed, Served
<1>7. CASE FinishCache
  <2>1. PICK covered \in BOOLEAN : covered = (server.book \in Covered)
    <3>1. (server.book \in Covered) \in BOOLEAN
      OBVIOUS
    <3> QED
      BY <3>1
  <2>2. PICK first \in SavedPlaces : first = [page |-> 0, atCover |-> covered]
    BY <1>5 DEF SavedPlaces
  <2>3. PICK t : t = [server EXCEPT !.cached = TRUE, !.place = first, !.position = 0]
    OBVIOUS
  <2>4. /\ server.phase = "parsing" /\ OpenText(t)
        /\ saved' = [saved EXCEPT ![server.book].atCover = covered]
    BY <1>7, <2>1, <2>2, <2>3 DEF FinishCache
  <2>5. t \in Servers /\ t.session = server.session /\ t.book = server.book
    BY <1>2, <1>5, <2>3 DEF Servers
  <2>6. Serves(t)
    BY <1>2, <2>5 DEF Serves
  <2>7. saved' \in [Books -> SavedPlaces]
    BY <1>2, <2>4 DEF SavedPlaces
  <2> QED
    BY <1>1, <1>3, <1>4, <1>6, <2>4, <2>5, <2>6, <2>7, OpenTextStep
<1>8. CASE CacheFails
  <2>1. PICK e : e = Event("error", server, 0, 0, TRUE)
    OBVIOUS
  <2>2. /\ server.phase = "parsing" /\ Publish(e) /\ UNCHANGED saved
        /\ server' = [server EXCEPT !.phase = "idle"] \/ server' = server
    BY <1>8, <2>1 DEF CacheFails
  <2>3. /\ server' \in Servers /\ server'.session = server.session
        /\ server'.book = server.book
        /\ server'.phase = "parsing" => server'.book \in Epubs
    BY <1>2, <2>2 DEF Servers
  <2>4. e \in OwnEvents' /\ e.type = "error"
    BY <1>1, <1>2, <1>5, <2>1, <2>3, ErrorOwn DEF Serves
  <2>5. Moved(events, events', {e}) /\ {e} \subseteq OwnEvents'
    BY <2>2, <2>4, PublishMoves
  <2>6. \A x \in {e} : x.session = reader.id /\ x.type = "opened" /\ x.contentReady => NotServed
    BY <2>4
  <2>7. /\ server'.session <= serial /\ saved' \in [Books -> SavedPlaces]
        /\ results' \in Seq(OwnResults)
        /\ reader.active /\ server'.session = reader.id => server'.book = reader.book
        /\ reader.active /\ server'.session = reader.id =>
              \A i \in 1 .. Len(commands') : commands'[i].type # "open"
    BY <1>1, <1>2, <1>4, <2>2, <2>3 DEF Serves
  <2> QED
    BY <1>1, <1>3, <1>6, <2>2, <2>3, <2>5, <2>6, <2>7, ServerStep
<1>9. CASE FinishIndex
  <2>1. PICK n : n = [server EXCEPT !.phase = "ready"]
    OBVIOUS
  <2>2. /\ n \in Servers /\ n.phase = "ready" /\ n.session = server.session
        /\ n.book = server.book /\ n.place = server.place
    BY <1>2, <2>1, ServerFields
  <2>3. PICK e : e = Event("ready", n, 0, n.place.page, FALSE)
    OBVIOUS
  <2>4. /\ server.phase = "building" /\ server' = n /\ Publish(e)
        /\ saved' = [saved EXCEPT ![server.book].page = server.position]
    BY <1>9, <2>1, <2>2, <2>3 DEF FinishIndex
  <2>5. e \in OwnEvents' /\ e.type = "ready"
    BY <1>1, <1>2, <2>2, <2>3, <2>4, ReadyOwn DEF Serves
  <2>6. Moved(events, events', {e}) /\ {e} \subseteq OwnEvents'
    BY <2>4, <2>5, PublishMoves
  <2>7. \A x \in {e} : x.session = reader.id /\ x.type = "opened" /\ x.contentReady => NotServed
    BY <2>5
  <2>8. Continues
    BY <2>2, <2>4 DEF Continues
  <2>9. saved' \in [Books -> SavedPlaces]
    BY <1>2, <1>5, <2>4 DEF SavedPlaces
  <2>10. /\ server' \in Servers /\ server'.session <= serial /\ results' \in Seq(OwnResults)
         /\ server'.phase # "parsing"
         /\ reader.active /\ server'.session = reader.id => server'.book = reader.book
         /\ reader.active /\ server'.session = reader.id =>
               \A i \in 1 .. Len(commands') : commands'[i].type # "open"
    BY <1>1, <1>2, <1>4, <2>2, <2>4 DEF Serves
  <2> QED
    BY <1>1, <1>3, <2>6, <2>7, <2>8, <2>9, <2>10, ServerStep
<1>10. CASE server.phase = "building" /\ EngineFails(server, server.place.page)
            /\ UNCHANGED saved
  <2>1. server.phase # "parsing" /\ saved' \in [Books -> SavedPlaces]
        /\ EngineFails(server, server.place.page)
    BY <1>2, <1>10
  <2> QED
    BY <1>1, <1>2, <1>3, <1>4, <1>5, <2>1, EngineFailsStep
<1> QED
  BY <1>7, <1>8, <1>9, <1>10 DEF Step

-----------------------------------------------------------------------------
(* The invariant, and what it means for the user.                          *)

\* At the start there is no session and nothing is under way.
LEMMA SessionInit == ASSUME ReaderAssumption, Init PROVE SessionInv
<1>1. Sound(reader) /\ ~ reader.active
  BY NoReaderSound DEF Init
<1>2. NoServer \in Servers /\ NoServer.session = 0 /\ NoServer.phase = "idle"
  <2>1. Start \in SavedPlaces /\ 0 \in PageStarts
    BY PagesAre DEF Start, SavedPlaces
  <2> QED
    BY <2>1 DEF NoServer, Servers
<1>3. /\ <<>> \in Seq(OwnReads) /\ <<>> \in Seq(OwnCommands) /\ <<>> \in Seq(OwnEvents)
      /\ <<>> \in Seq(OwnResults) /\ Len(<<>>) = 0
  OBVIOUS
<1>4. MessageShape
  BY <1>1, <1>2, <1>3 DEF Init, MessageShape, SavedPlaces
<1>5. InOrder
  BY <1>1, <1>3 DEF Init, InOrder
<1>6. Placed(reader)
  BY <1>1 DEF Placed
<1> QED
  BY <1>1, <1>4, <1>5, <1>6 DEF SessionInv

\* Every step keeps the invariant and turns at most one page.
LEMMA SessionStep ==
    ASSUME ReaderAssumption, SessionInv, [Next]_vars
    PROVE  SessionInv' /\ (reader.active /\ reader'.active => Turns(reader, reader'))
<1>1. CASE MoveCard \/ LoseBlock
  BY <1>1, StillStep
<1>2. CASE \E b \in Books, g \in 0 .. generation : Open(b, g)
  BY <1>2, OpenStep
<1>3. CASE Close
  BY <1>3, CloseStep
<1>4. CASE User
  BY <1>4, NextPageStep, PreviousPageStep DEF User
<1>5. CASE \E queryLate, blockLate \in BOOLEAN : OnRunning(queryLate, blockLate)
  BY <1>5, RunningStep
<1>6. CASE Dispatcher
  BY <1>6, DeliverBlockStep, DeliverResultStep, TakeEventStep DEF Dispatcher
<1>7. CASE Worker
  BY <1>7, TakeCommandStep, WorkStep DEF Worker
<1>8. CASE UNCHANGED vars
  <2>1. /\ UNCHANGED <<card, server, saved, serial>> /\ UNCHANGED reader
        /\ Moved(reads, reads', OwnReads') /\ Moved(commands, commands', Asks')
        /\ Moved(events, events', {}) /\ Moved(results, results', {})
    BY <1>8 DEF vars, service, Moved
  <2>2. Keeps(reader, reader')
    BY <2>1, KeepsSame DEF SessionInv
  <2>3. Moves(reader, reader') /\ (Fresh(reader) => Fresh(reader'))
    BY <2>2 DEF Keeps
  <2> QED
    BY <2>1, <2>3, StepHolds
<1> QED
  BY <1>1, <1>2, <1>3, <1>4, <1>5, <1>6, <1>7, <1>8 DEF Next

\* A session is sound with its messages, whatever was overtaken, lost or refused: the
\* reader asks for the blocks of a page in order, the history leads back page by page,
\* and what the worker tells of a place is of the session it serves (reader_app.cpp).
THEOREM ReaderSessionInv == Spec => []SessionInv
<1>1. Init => SessionInv
  BY ReaderAssumption, SessionInit
<1>2. SessionInv /\ [Next]_vars => SessionInv'
  BY ReaderAssumption, SessionStep
<1> QED
  BY <1>1, <1>2, PTL DEF Spec

\* The text of a page is that page's blocks of the session's own book, in order, and
\* the number shown is the page's (handle_result, complete_page).
THEOREM ReaderPageText == Spec => []PageText
<1>1. SessionInv => PageText
  <2>1. SUFFICES ASSUME SessionInv PROVE PageText
    OBVIOUS
  <2>2. Len(reader.text) \in Nat /\ reader.text = Blocks(reader.book, reader.start, Len(reader.text))
    BY <2>1 DEF SessionInv, Sound, Shaped, Laid
  <2>3. PICK text, n, book, page :
           /\ n \in Nat /\ n = Len(reader.text) /\ book = reader.book /\ page = reader.start
           /\ text = reader.text /\ text = Blocks(book, page, n)
    BY <2>2
  <2>4. \A i \in DOMAIN text : text[i] = <<book, <<"text", page, i>>>>
    BY <2>3 DEF Blocks
  <2>5. \A i \in DOMAIN reader.text :
           reader.text[i] = <<reader.book, <<"text", reader.start, i>>>>
    BY <2>3, <2>4
  <2>6. Numbered(reader) /\ reader.valid /\ ~ reader.showing /\ reader.status = "ready"
           => reader.number = reader.current
    <3>1. Sound(reader)
      BY <2>1 DEF SessionInv
    <3> QED
      BY <3>1 DEF Sound, WayBack, Numbered
  <2> QED
    BY <2>5, <2>6 DEF PageText
<1> QED
  BY <1>1, ReaderSessionInv, PTL

\* Going back shows the pages the user came by, one before the other (complete_page,
\* previous_page).
THEOREM ReaderHistoryLeadsBack == Spec => []HistoryLeadsBack
<1>1. SessionInv => HistoryLeadsBack
  <2>1. SUFFICES ASSUME SessionInv, reader.active, ~ reader.busy, reader.status = "ready"
                 PROVE  \A i \in DOMAIN reader.history :
                           reader.history[i] + (Len(reader.history) - i) + 1 = reader.current
    BY DEF HistoryLeadsBack
  <2>2. CASE reader.showing
    <3>1. reader.history = <<>>
      BY <2>1, <2>2 DEF SessionInv, Sound, WayBack
    <3> QED
      BY <3>1
  <2>3. CASE ~ reader.showing
    <3>1. PICK history, page :
             history = reader.history /\ page = reader.current /\ Leads(history, page)
      BY <2>1, <2>3 DEF SessionInv, Sound, WayBack
    <3>2. DOMAIN history = 1 .. Len(history)
      BY <3>1 DEF Leads
    <3>3. \A i \in DOMAIN history : history[i] + (Len(history) - i) + 1 = page
      BY <3>1, <3>2 DEF Leads
    <3> QED
      BY <3>1, <3>3
  <2> QED
    BY <2>2, <2>3
<1> QED
  BY <1>1, ReaderSessionInv, PTL

\* A reader who has turned no page is where the book was left, however the worker's
\* reports and the blocks interleave (handle_book_event).
THEOREM ReaderPlaceRestored == Spec => []PlaceRestored
<1>1. SessionInv => PlaceRestored
  BY DEF SessionInv, Placed, Served, PlaceRestored, Numbered
<1> QED
  BY <1>1, ReaderSessionInv, PTL

\* Once the user has turned a page only the user moves the view, by one page at a time
\* (complete_page; ready and position events after navigated).
THEOREM ReaderTurnsOnePage == Spec => TurnsOnePage
<1>1. SessionInv /\ [Next]_vars =>
         [reader.active /\ reader'.active /\ reader.navigated
             /\ reader'.current # reader.current
          => reader'.current = IF reader.op = "next" THEN reader.current + 1
                               ELSE reader.current - 1]_vars
  <2>1. SUFFICES ASSUME SessionInv, [Next]_vars, reader.active, reader'.active,
                        reader.navigated, reader'.current # reader.current
                 PROVE  reader'.current = IF reader.op = "next" THEN reader.current + 1
                                          ELSE reader.current - 1
    OBVIOUS
  <2>2. Turns(reader, reader')
    BY <2>1, ReaderAssumption, SessionStep
  <2> QED
    BY <2>1, <2>2 DEF Turns
<1> QED
  BY <1>1, ReaderSessionInv, PTL DEF Spec, TurnsOnePage

=============================================================================
