---------------------------- MODULE CoverProofs ----------------------------
(***************************************************************************)
(* The cover stores.  Every buffer given out is in one place, shown or     *)
(* being built on the shelf or in a slot of the book, and holds what is to *)
(* be there (Stored).  A slot counts the one lease the renderer can have,  *)
(* so what frees or replaces a buffer, which looks at that count first,    *)
(* leaves the one that is drawn alone.  The operations of the stores keep  *)
(* this (CancelShelfKeeps, ..., CommitCoverKeeps), whatever handler        *)
(* applies them; the handlers add which request a cover is built for.      *)
(***************************************************************************)
EXTENDS CoverStore, SequenceTheorems, TLAPS

ShelfSlot == [active : Buffers \cup {NoBuffer}, generation : Nat, references : Nat,
              retired : BOOLEAN, building : Buffers \cup {NoBuffer}, used : Nat]
CoverSlot == [data : Buffers \cup {NoBuffer}, used : Nat, generation : Nat,
              references : Nat, retired : BOOLEAN]
ShelfTitles == ShelfPages \X ShelfSlots
Shelf == [slots : [ShelfSlots -> ShelfSlot], titles : Seq(ShelfTitles)]
Covers == [slots : [{1, 2} -> CoverSlot], active : 0 .. 2, building : 0 .. 2,
           titles : Seq(BookCovers \cup {0})]
CoverRequest == [busy : BOOLEAN, slot : Nat, started : BOOLEAN, offset : Nat]
CoverBlock == [id : Nat, title : ShelfTitles, offset : Nat]
BooksShape == [page : ShelfPages \cup {0}, generations : [ShelfSlots -> Nat],
               request : CoverRequest, lastRead : Nat]
NovelShape == [open : BOOLEAN, title : BookCovers \cup {0}, waiting : BOOLEAN,
               started : BOOLEAN, generation : Nat, opened : Nat]
LeaseShape == [store : {"none", "books", "reader"}, slot : Nat,
               data : Buffers \cup {NoBuffer}, generation : Nat]

\* Where a buffer may be.
Shown(s) == <<"shown", s>>
Unfinished(s) == <<"unfinished", s>>
OfBook(i) == <<"book", i>>
Places ==
    {Shown(s) : s \in ShelfSlots} \cup {Unfinished(s) : s \in ShelfSlots}
    \cup {OfBook(1), OfBook(2)}
At(sh, cv) == [p \in Places |->
    IF p[1] = "shown" THEN sh.slots[p[2]].active
    ELSE IF p[1] = "unfinished" THEN sh.slots[p[2]].building ELSE cv.slots[p[2]].data]

\* The cover of the item at a position of a page.
OnPage(page, s) == <<page, s>>

\* The first blocks of a cover.
Part(title, n) == [i \in 1 .. n |-> [title |-> title, offset |-> i - 1]]

\* What is there: page is the shelf's, title the book's.
Text(sh, page, cv, title) == [p \in Places |->
    IF p[1] = "shown" THEN Part(sh.titles[sh.slots[p[2]].generation], Blocks)
    ELSE IF p[1] = "unfinished" THEN Part(OnPage(page, p[2]), sh.slots[p[2]].used)
    ELSE Part(IF p[2] = cv.building THEN title ELSE cv.titles[cv.slots[p[2]].generation],
              cv.slots[p[2]].used)]

\* Each buffer given out is in one place, and holds what is to be there.
Stored(h, at, text) ==
    /\ h = [b \in DOMAIN h |-> h[b]]
    /\ DOMAIN h = {at[p] : p \in Places} \ {NoBuffer}
    /\ \A p, q \in Places : at[p] = at[q] => p = q \/ at[p] = NoBuffer
    /\ \A p \in Places : at[p] # NoBuffer => h[at[p]] = text[p]

Kept(h, sh, page, cv, title) == Stored(h, At(sh, cv), Text(sh, page, cv, title))

\* A generation shown has a title.
ShelfTitled(sh) ==
    \A s \in ShelfSlots : sh.slots[s].active # NoBuffer =>
        sh.slots[s].generation \in 1 .. Len(sh.titles)
WholeTitled(cv) ==
    \A i \in {1, 2} : i # cv.building /\ cv.slots[i].data # NoBuffer =>
        cv.slots[i].used = Blocks /\ cv.slots[i].generation \in 1 .. Len(cv.titles)
CoverTitled(cv) ==
    /\ WholeTitled(cv)
    /\ cv.building # 0 =>
          /\ cv.slots[cv.building].data # NoBuffer /\ cv.building # cv.active
          /\ cv.slots[cv.building].used < Blocks

\* A slot is lent to the frame that is drawn, if to any.
Lent(le, sh, cv) ==
    /\ \A s \in ShelfSlots : sh.slots[s].references =
          IF le.store = "books" /\ le.slot = s THEN 1 ELSE 0
    /\ \A i \in {1, 2} : cv.slots[i].references =
          IF le.store = "reader" /\ le.slot = i THEN 1 ELSE 0
    /\ le.store = "none" => le = NoLease
    /\ le.store = "books" =>
          /\ le.slot \in ShelfSlots /\ le.data # NoBuffer
          /\ sh.slots[le.slot].active = le.data
          /\ sh.slots[le.slot].generation = le.generation
    /\ le.store = "reader" =>
          /\ le.slot \in {1, 2} /\ le.data # NoBuffer /\ le.slot # cv.building
          /\ cv.slots[le.slot].data = le.data
          /\ cv.slots[le.slot].generation = le.generation

\* A cover is built for the request that is under way,
BuiltForRequest(sh, b) ==
    \A s \in ShelfSlots : sh.slots[s].building # NoBuffer =>
        /\ b.request.busy /\ b.request.started /\ b.request.slot = s
        /\ b.page # 0 /\ sh.slots[s].used < Blocks
\* whose answer is for the page that is shown.
ReadsKnown(queue, b) ==
    \A k \in 1 .. Len(queue) :
        /\ queue[k].id <= b.lastRead
        /\ b.request.busy /\ queue[k].id = b.lastRead =>
              b.page = 0 \/ queue[k].title = OnPage(b.page, b.request.slot)
Counted(sh, b) ==
    /\ b.lastRead <= MaxReads
    /\ Len(sh.titles) + (IF b.request.busy THEN 1 ELSE 0) <= b.lastRead
    /\ b.request.busy => b.request.slot \in ShelfSlots
Titled(sh, b) ==
    \A s \in ShelfSlots :
        /\ b.generations[s] <= Len(sh.titles) \/ b.generations[s] = GivenUp
        /\ b.generations[s] \in 1 .. Len(sh.titles) =>
              b.page = 0 \/ sh.titles[b.generations[s]] = OnPage(b.page, s)
\* The book's cover is built while it is waited for.
NovelFits(no, b, cv) ==
    /\ b.request.started => b.request.busy
    /\ no.open => ~ b.request.busy
    /\ cv.active # 0 => no.generation # 0
    /\ no.waiting => no.open /\ no.generation = 0
    /\ cv.building # 0 <=> no.waiting /\ no.started

CoverShape(sh, b, queue, cv, no, le) ==
    /\ sh \in Shelf /\ b \in BooksShape /\ queue \in Seq(CoverBlock)
    /\ cv \in Covers /\ no \in NovelShape /\ le \in LeaseShape
CoversFit(h, sh, b, queue, cv, no, le) ==
    /\ CoverShape(sh, b, queue, cv, no, le)
    /\ Kept(h, sh, b.page, cv, no.title)
    /\ ShelfTitled(sh) /\ CoverTitled(cv) /\ Lent(le, sh, cv)
    /\ BuiltForRequest(sh, b) /\ ReadsKnown(queue, b)
    /\ Counted(sh, b) /\ Titled(sh, b) /\ NovelFits(no, b, cv)
CoversInv == CoversFit(heap, shelf, books, reads, cover, novel, lease)

\* Buffers of the places F are freed, and nothing else moves.
LEMMA StoredLess ==
    ASSUME NEW h, NEW at, NEW text, Stored(h, at, text), NEW at2, NEW text2,
           NEW F \in SUBSET Places, NEW X,
           \A p \in F : at2[p] = NoBuffer,
           \A p \in Places \ F :
               at2[p] = at[p] /\ (at[p] # NoBuffer => text2[p] = text[p]),
           X \ {NoBuffer} = {at[p] : p \in F} \ {NoBuffer}
    PROVE  Stored(Without(X, h), at2, text2)
<1>1. DOMAIN Without(X, h) = DOMAIN h \ X
  BY DEF Without
<1>2. \A b \in DOMAIN h \ X : Without(X, h)[b] = h[b]
  BY DEF Without
<1>3. Without(X, h) = [b \in DOMAIN Without(X, h) |-> Without(X, h)[b]]
  BY DEF Without
<1>4. DOMAIN h \ X = {at2[p] : p \in Places} \ {NoBuffer}
  <2>1. ASSUME NEW b \in DOMAIN h \ X
        PROVE  b \in {at2[p] : p \in Places} \ {NoBuffer}
    BY DEF Stored
  <2>2. ASSUME NEW p \in Places, at2[p] # NoBuffer
        PROVE  at2[p] \in DOMAIN h \ X
    <3>1. p \notin F /\ at2[p] = at[p]
      BY <2>2
    <3>2. at[p] \in DOMAIN h
      BY <2>2, <3>1 DEF Stored
    <3>3. at[p] \notin X
      BY <2>2, <3>1 DEF Stored
    <3> QED
      BY <3>1, <3>2, <3>3
  <2> QED
    BY <2>1, <2>2
<1>5. \A p, q \in Places : at2[p] = at2[q] => p = q \/ at2[p] = NoBuffer
  BY DEF Stored
<1>6. ASSUME NEW p \in Places, at2[p] # NoBuffer
      PROVE  Without(X, h)[at2[p]] = text2[p]
  <2>1. p \notin F /\ at2[p] = at[p] /\ text2[p] = text[p] /\ h[at[p]] = text[p]
    BY <1>6 DEF Stored
  <2>2. at2[p] \in DOMAIN h \ X
    BY <1>4, <1>6
  <2> QED
    BY <1>2, <2>1, <2>2
<1> QED
  BY <1>1, <1>3, <1>4, <1>5, <1>6 DEF Stored

\* The buffer of p replaces that of q, which is freed.
LEMMA StoredMoved ==
    ASSUME NEW h, NEW at, NEW text, Stored(h, at, text), NEW at2, NEW text2,
           NEW p \in Places, NEW q \in Places, p # q, at[p] # NoBuffer,
           at2[q] = at[p], at2[p] = NoBuffer, text2[q] = text[p],
           \A o \in Places \ {p, q} :
               at2[o] = at[o] /\ (at[o] # NoBuffer => text2[o] = text[o])
    PROVE  Stored(Without({at[q]}, h), at2, text2)
<1>1. DOMAIN Without({at[q]}, h) = DOMAIN h \ {at[q]}
  BY DEF Without
<1>2. \A b \in DOMAIN h \ {at[q]} : Without({at[q]}, h)[b] = h[b]
  BY DEF Without
<1>3. Without({at[q]}, h) = [b \in DOMAIN Without({at[q]}, h) |-> Without({at[q]}, h)[b]]
  BY DEF Without
<1>4. DOMAIN h \ {at[q]} = {at2[o] : o \in Places} \ {NoBuffer}
  <2>1. ASSUME NEW b \in DOMAIN h \ {at[q]}
        PROVE  b \in {at2[o] : o \in Places} \ {NoBuffer}
    <3>1. PICK o \in Places : b = at[o] /\ b # NoBuffer
      BY DEF Stored
    <3>2. CASE o = p
      BY <3>1, <3>2
    <3>3. CASE o # p
      BY <3>1, <3>3
    <3> QED
      BY <3>2, <3>3
  <2>2. ASSUME NEW o \in Places, at2[o] # NoBuffer
        PROVE  at2[o] \in DOMAIN h \ {at[q]}
    <3>1. CASE o = q
      BY <3>1 DEF Stored
    <3>2. CASE o # q
      BY <2>2, <3>2 DEF Stored
    <3> QED
      BY <3>1, <3>2
  <2> QED
    BY <2>1, <2>2
<1>5. ASSUME NEW r \in Places, NEW o \in Places, at2[r] = at2[o], at2[r] # NoBuffer
      PROVE  r = o
  <2>1. \A u, v \in Places : at[u] = at[v] => u = v \/ at[u] = NoBuffer
    BY DEF Stored
  <2> QED
    BY <1>5, <2>1
<1>6. ASSUME NEW o \in Places, at2[o] # NoBuffer
      PROVE  Without({at[q]}, h)[at2[o]] = text2[o]
  <2>1. at2[o] \in DOMAIN h \ {at[q]}
    BY <1>4, <1>6
  <2>2. h[at2[o]] = text2[o]
    BY <1>6 DEF Stored
  <2> QED
    BY <1>2, <2>1, <2>2
<1> QED
  BY <1>1, <1>3, <1>4, <1>5, <1>6 DEF Stored

\* A new buffer gets its place.
LEMMA StoredWith ==
    ASSUME NEW h, NEW at, NEW text, Stored(h, at, text), NEW at2, NEW text2,
           NEW p \in Places, at[p] = NoBuffer, NEW b \in Buffers, b \notin DOMAIN h,
           at2[p] = b, text2[p] = <<>>,
           \A o \in Places \ {p} :
               at2[o] = at[o] /\ (at[o] # NoBuffer => text2[o] = text[o])
    PROVE  Stored(With(b, h), at2, text2)
<1>1. DOMAIN With(b, h) = DOMAIN h \cup {b} /\ b # NoBuffer
  BY CoverAssumption DEF With
<1>2. With(b, h)[b] = <<>> /\ \A a \in DOMAIN h : With(b, h)[a] = h[a]
  BY DEF With
<1>3. With(b, h) = [a \in DOMAIN With(b, h) |-> With(b, h)[a]]
  BY DEF With
<1>4. DOMAIN h \cup {b} = {at2[o] : o \in Places} \ {NoBuffer}
  <2>1. ASSUME NEW a \in DOMAIN h
        PROVE  a \in {at2[o] : o \in Places} \ {NoBuffer}
    BY DEF Stored
  <2>2. ASSUME NEW o \in Places, at2[o] # NoBuffer
        PROVE  at2[o] \in DOMAIN h \cup {b}
    BY <2>2 DEF Stored
  <2> QED
    BY <1>1, <2>1, <2>2
<1>5. ASSUME NEW r \in Places, NEW o \in Places, at2[r] = at2[o], at2[r] # NoBuffer
      PROVE  r = o
  <2>1. \A u, v \in Places : at[u] = at[v] => u = v \/ at[u] = NoBuffer
    BY DEF Stored
  <2>2. \A u \in Places : at[u] # NoBuffer => at[u] # b
    BY DEF Stored
  <2> QED
    BY <1>5, <2>1, <2>2
<1>6. ASSUME NEW o \in Places, at2[o] # NoBuffer
      PROVE  With(b, h)[at2[o]] = text2[o]
  <2>1. CASE o = p
    BY <1>2, <2>1
  <2>2. CASE o # p
    <3>1. at2[o] = at[o] /\ text2[o] = text[o] /\ at[o] # NoBuffer
      BY <1>6, <2>2
    <3>2. at[o] \in DOMAIN h /\ h[at[o]] = text[o]
      BY <3>1 DEF Stored
    <3> QED
      BY <1>2, <3>1, <3>2
  <2> QED
    BY <2>1, <2>2
<1> QED
  BY <1>1, <1>3, <1>4, <1>5, <1>6 DEF Stored

\* The buffer of one place is written.
LEMMA StoredWrites ==
    ASSUME NEW h, NEW at, NEW text, Stored(h, at, text), NEW at2, NEW text2,
           NEW p \in Places, at[p] # NoBuffer,
           \A o \in Places : at2[o] = at[o],
           \A o \in Places \ {p} : at[o] # NoBuffer => text2[o] = text[o]
    PROVE  Stored([h EXCEPT ![at[p]] = text2[p]], at2, text2)
<1> DEFINE h2 == [h EXCEPT ![at[p]] = text2[p]]
<1>1. at[p] \in DOMAIN h
  BY DEF Stored
<1>2. DOMAIN h2 = DOMAIN h /\ h2 = [b \in DOMAIN h2 |-> h2[b]]
  OBVIOUS
<1>3. DOMAIN h2 = {at2[o] : o \in Places} \ {NoBuffer}
  BY <1>2 DEF Stored
<1>4. \A r, o \in Places : at2[r] = at2[o] => r = o \/ at2[r] = NoBuffer
  BY DEF Stored
<1>5. ASSUME NEW o \in Places, at2[o] # NoBuffer
      PROVE  h2[at2[o]] = text2[o]
  <2>1. CASE o = p
    BY <1>1, <2>1
  <2>2. CASE o # p
    <3>1. at[o] # at[p] /\ at[o] \in DOMAIN h /\ h[at[o]] = text[o] /\ text2[o] = text[o]
      BY <1>5, <2>2 DEF Stored
    <3> QED
      BY <3>1
  <2> QED
    BY <2>1, <2>2
<1> QED
  BY <1>2, <1>3, <1>4, <1>5 DEF Stored

\* The three kinds of places,
LEMMA PlaceKinds ==
    \A p \in Places :
        \/ \E s \in ShelfSlots : p = Shown(s)
        \/ \E s \in ShelfSlots : p = Unfinished(s)
        \/ \E i \in {1, 2} : p = OfBook(i)
BY DEF Places

\* each of them a place,
LEMMA PlacesAre ==
    /\ \A s \in ShelfSlots : Shown(s) \in Places /\ Unfinished(s) \in Places
    /\ \A i \in {1, 2} : OfBook(i) \in Places
BY DEF Places

\* no two of them the same,
LEMMA PlacesDiffer ==
    /\ \A s, t : /\ Shown(s) = Shown(t) => s = t
                 /\ Unfinished(s) = Unfinished(t) => s = t
                 /\ OfBook(s) = OfBook(t) => s = t
    /\ \A s, t : /\ Shown(s) # Unfinished(t) /\ Shown(s) # OfBook(t)
                 /\ Unfinished(s) # OfBook(t)
BY DEF Shown, Unfinished, OfBook

\* and what they are made of.
LEMMA PlaceParts ==
    \A s : /\ Shown(s)[1] = "shown" /\ Shown(s)[2] = s
           /\ Unfinished(s)[1] = "unfinished" /\ Unfinished(s)[2] = s
           /\ OfBook(s)[1] = "book" /\ OfBook(s)[2] = s
BY DEF Shown, Unfinished, OfBook

\* The buffer at each place,
LEMMA AtPlaces ==
    \A sh, cv :
        /\ \A s \in ShelfSlots : At(sh, cv)[Shown(s)] = sh.slots[s].active
        /\ \A s \in ShelfSlots : At(sh, cv)[Unfinished(s)] = sh.slots[s].building
        /\ \A i \in {1, 2} : At(sh, cv)[OfBook(i)] = cv.slots[i].data
BY PlacesAre, PlaceParts DEF At

\* and what it is to hold.
LEMMA TextPlaces ==
    \A sh, page, cv, title :
        /\ \A s \in ShelfSlots : Text(sh, page, cv, title)[Shown(s)] =
              Part(sh.titles[sh.slots[s].generation], Blocks)
        /\ \A s \in ShelfSlots : Text(sh, page, cv, title)[Unfinished(s)] =
              Part(OnPage(page, s), sh.slots[s].used)
        /\ \A i \in {1, 2} : Text(sh, page, cv, title)[OfBook(i)] =
              Part(IF i = cv.building THEN title ELSE cv.titles[cv.slots[i].generation],
                   cv.slots[i].used)
BY PlacesAre, PlaceParts DEF Text

\* A buffer starts with nothing of the cover,
LEMMA PartEmpty == \A title : Part(title, 0) = <<>>
BY DEF Part

\* and a block makes the next part of it.
LEMMA PartLonger ==
    ASSUME NEW title, NEW n \in Nat
    PROVE  Append(Part(title, n), [title |-> title, offset |-> n]) = Part(title, n + 1)
<1> DEFINE S == {[title |-> title, offset |-> i] : i \in Nat}
<1>1. Part(title, n) \in Seq(S)
  <2>1. \A i \in 1 .. n : [title |-> title, offset |-> i - 1] \in S
    OBVIOUS
  <2> QED
    BY <2>1 DEF Part
<1>2. Len(Part(title, n)) = n
  <2>1. DOMAIN Part(title, n) = 1 .. n
    BY DEF Part
  <2> QED
    BY <1>1, <2>1, LenProperties
<1>3. PICK e : e = [title |-> title, offset |-> n]
  OBVIOUS
<1>4. Append(Part(title, n), e) =
        [i \in 1 .. n + 1 |-> IF i <= n THEN Part(title, n)[i] ELSE e]
  <2>1. e \in S
    BY <1>3
  <2>2. PICK t \in Seq(S) : t = Part(title, n)
    BY <1>1
  <2>3. Len(t) = n
    BY <1>2, <2>2
  <2>4. /\ Append(t, e) \in Seq(S) /\ Len(Append(t, e)) = n + 1
        /\ \A i \in 1 .. n : Append(t, e)[i] = t[i]
        /\ Append(t, e)[n + 1] = e
    BY <2>1, <2>3, AppendProperties
  <2>5. Append(t, e) = [i \in 1 .. n + 1 |-> Append(t, e)[i]]
    <3>1. PICK u \in Seq(S) : u = Append(t, e)
      BY <2>4
    <3>2. Len(u) = n + 1
      BY <2>4, <3>1
    <3>3. u \in [1 .. n + 1 -> S]
      BY <3>2, LenProperties
    <3>4. u = [i \in 1 .. n + 1 |-> u[i]]
      BY <3>3
    <3> QED
      BY <3>1, <3>4
  <2>6. \A i \in 1 .. n + 1 : Append(t, e)[i] = IF i <= n THEN t[i] ELSE e
    BY <2>4
  <2> QED
    BY <2>2, <2>5, <2>6
<1>5. \A i \in 1 .. n + 1 : (IF i <= n THEN Part(title, n)[i] ELSE e) =
                              [title |-> title, offset |-> i - 1]
  <2>1. \A i \in 1 .. n : Part(title, n)[i] = [title |-> title, offset |-> i - 1]
    BY DEF Part
  <2>2. \A i \in 1 .. n + 1 : i <= n \/ i - 1 = n
    OBVIOUS
  <2> QED
    BY <1>3, <2>1, <2>2
<1> QED
  BY <1>3, <1>4, <1>5 DEF Part

\* Covers of the shelf let go: shown ones of A, unfinished ones of B.
ShelfFreed(sh2, sh, A, B) ==
    /\ sh2.titles = sh.titles
    /\ \A s \in A : sh2.slots[s].active = NoBuffer
    /\ \A s \in ShelfSlots \ A : /\ sh2.slots[s].active = sh.slots[s].active
                                 /\ sh2.slots[s].generation = sh.slots[s].generation
    /\ \A s \in B : sh2.slots[s].building = NoBuffer
    /\ \A s \in ShelfSlots \ B : /\ sh2.slots[s].building = sh.slots[s].building
                                 /\ sh2.slots[s].used = sh.slots[s].used
ShelfLetGo(sh, A, B) ==
    {sh.slots[s].active : s \in A} \cup {sh.slots[s].building : s \in B}

\* Shelf slots A let go of the cover shown and B of the one that is built.
LEMMA ShelfLess ==
    ASSUME NEW h, NEW sh, NEW page, NEW cv, NEW title, Kept(h, sh, page, cv, title),
           NEW A \in SUBSET ShelfSlots, NEW B \in SUBSET ShelfSlots,
           NEW sh2, ShelfFreed(sh2, sh, A, B),
           NEW X, X \ {NoBuffer} = ShelfLetGo(sh, A, B) \ {NoBuffer}
    PROVE  Kept(Without(X, h), sh2, page, cv, title)
<1> DEFINE at == At(sh, cv)
           at2 == At(sh2, cv)
           text == Text(sh, page, cv, title)
           text2 == Text(sh2, page, cv, title)
           F == {Shown(s) : s \in A} \cup {Unfinished(s) : s \in B}
<1>1. F \in SUBSET Places
  BY DEF Places
<1>2. \A p \in F : at2[p] = NoBuffer
  <2>1. \A s \in A : at2[Shown(s)] = NoBuffer
    BY AtPlaces DEF ShelfFreed
  <2>2. \A s \in B : at2[Unfinished(s)] = NoBuffer
    BY AtPlaces DEF ShelfFreed
  <2> HIDE DEF at2
  <2> QED
    BY <2>1, <2>2
<1>3. ASSUME NEW p \in Places \ F
      PROVE  at2[p] = at[p] /\ text2[p] = text[p]
  <2>1. CASE \E s \in ShelfSlots : p = Shown(s)
    <3>1. PICK s \in ShelfSlots : p = Shown(s)
      BY <2>1
    <3>2. s \notin A
      BY <1>3, <3>1
    <3> HIDE DEF F
    <3> QED
      BY <3>1, <3>2, AtPlaces, TextPlaces DEF ShelfFreed
  <2>2. CASE \E s \in ShelfSlots : p = Unfinished(s)
    <3>1. PICK s \in ShelfSlots : p = Unfinished(s)
      BY <2>2
    <3>2. s \notin B
      BY <1>3, <3>1
    <3> HIDE DEF F
    <3> QED
      BY <3>1, <3>2, AtPlaces, TextPlaces DEF ShelfFreed
  <2>3. CASE \E i \in {1, 2} : p = OfBook(i)
    BY <2>3, AtPlaces, TextPlaces DEF ShelfFreed
  <2> QED
    BY <2>1, <2>2, <2>3, PlaceKinds
<1>4. X \ {NoBuffer} = {at[p] : p \in F} \ {NoBuffer}
  <2>1. {at[p] : p \in F} = {at[Shown(s)] : s \in A}
                            \cup {at[Unfinished(s)] : s \in B}
    <3> HIDE DEF at
    <3> QED
      OBVIOUS
  <2>2. /\ {at[Shown(s)] : s \in A} = {sh.slots[s].active : s \in A}
        /\ {at[Unfinished(s)] : s \in B} = {sh.slots[s].building : s \in B}
    <3>1. \A s \in ShelfSlots : /\ at[Shown(s)] = sh.slots[s].active
                                /\ at[Unfinished(s)] = sh.slots[s].building
      BY AtPlaces
    <3> HIDE DEF at
    <3> QED
      BY <3>1
  <2> HIDE DEF at, F
  <2> QED
    BY <2>1, <2>2 DEF ShelfLetGo
<1> HIDE DEF at, at2, text, text2, F
<1>5. Stored(h, at, text)
  BY DEF Kept, at, text
<1>6. Stored(Without(X, h), at2, text2)
  BY <1>1, <1>2, <1>3, <1>4, <1>5, StoredLess
<1> QED
  BY <1>6 DEF Kept, at2, text2

\* Covers of Reader's slots C let go.
CoverFreed(cv2, cv, C) ==
    /\ cv2.titles = cv.titles
    /\ \A i \in C : cv2.slots[i].data = NoBuffer
    /\ \A i \in {1, 2} \ C : /\ cv2.slots[i].data = cv.slots[i].data
                             /\ cv2.slots[i].generation = cv.slots[i].generation
                             /\ cv2.slots[i].used = cv.slots[i].used
                             /\ cv2.building = i <=> cv.building = i
CoverLetGo(cv, C) == {cv.slots[i].data : i \in C}

\* Reader's slots C let go of their buffers.
LEMMA CoverLess ==
    ASSUME NEW h, NEW sh, NEW page, NEW cv, NEW title, Kept(h, sh, page, cv, title),
           NEW C \in SUBSET {1, 2}, NEW cv2, CoverFreed(cv2, cv, C),
           NEW X, X \ {NoBuffer} = CoverLetGo(cv, C) \ {NoBuffer}
    PROVE  Kept(Without(X, h), sh, page, cv2, title)
<1> DEFINE at == At(sh, cv)
           at2 == At(sh, cv2)
           text == Text(sh, page, cv, title)
           text2 == Text(sh, page, cv2, title)
           F == {OfBook(i) : i \in C}
<1>1. F \in SUBSET Places
  BY DEF Places
<1>2. \A p \in F : at2[p] = NoBuffer
  <2>1. \A i \in C : at2[OfBook(i)] = NoBuffer
    BY AtPlaces DEF CoverFreed
  <2> HIDE DEF at2
  <2> QED
    BY <2>1
<1>3. ASSUME NEW p \in Places \ F
      PROVE  at2[p] = at[p] /\ text2[p] = text[p]
  <2>1. CASE \E s \in ShelfSlots : p = Shown(s)
    BY <2>1, AtPlaces, TextPlaces
  <2>2. CASE \E s \in ShelfSlots : p = Unfinished(s)
    BY <2>2, AtPlaces, TextPlaces
  <2>3. CASE \E i \in {1, 2} : p = OfBook(i)
    <3>1. PICK i \in {1, 2} : p = OfBook(i)
      BY <2>3
    <3>2. i \notin C
      BY <1>3, <3>1
    <3>3. at2[p] = at[p]
      BY <3>1, <3>2, AtPlaces DEF CoverFreed
    <3>4. (i = cv2.building) = (i = cv.building)
      BY <3>2 DEF CoverFreed
    <3>5. text2[p] = text[p]
      BY <3>1, <3>2, <3>4, TextPlaces DEF CoverFreed
    <3> QED
      BY <3>3, <3>5
  <2> QED
    BY <2>1, <2>2, <2>3, PlaceKinds
<1>4. X \ {NoBuffer} = {at[p] : p \in F} \ {NoBuffer}
  <2>1. {at[p] : p \in F} = {at[OfBook(i)] : i \in C}
    <3> HIDE DEF at
    <3> QED
      OBVIOUS
  <2>2. {at[OfBook(i)] : i \in C} = {cv.slots[i].data : i \in C}
    <3>1. \A i \in {1, 2} : at[OfBook(i)] = cv.slots[i].data
      BY AtPlaces
    <3> HIDE DEF at
    <3> QED
      BY <3>1
  <2> HIDE DEF at, F
  <2> QED
    BY <2>1, <2>2 DEF CoverLetGo
<1> HIDE DEF at, at2, text, text2, F
<1>5. Stored(h, at, text)
  BY DEF Kept, at, text
<1>6. Stored(Without(X, h), at2, text2)
  BY <1>1, <1>2, <1>3, <1>4, <1>5, StoredLess
<1> QED
  BY <1>6 DEF Kept, at2, text2

\* Another page, with nothing built for the last; another book.
LEMMA KeptElsewhere ==
    ASSUME NEW h, NEW sh, NEW page, NEW cv, NEW title, Kept(h, sh, page, cv, title),
           NEW page2, page2 = page \/ \A s \in ShelfSlots : sh.slots[s].building = NoBuffer,
           NEW title2, title2 = title \/ cv.building \notin {1, 2}
    PROVE  Kept(h, sh, page2, cv, title2)
<1> DEFINE at == At(sh, cv)
           text == Text(sh, page, cv, title)
           text2 == Text(sh, page2, cv, title2)
<1>1. ASSUME NEW p \in Places, at[p] # NoBuffer
      PROVE  text2[p] = text[p]
  <2>1. CASE \E s \in ShelfSlots : p = Shown(s)
    BY <2>1, TextPlaces
  <2>2. CASE \E s \in ShelfSlots : p = Unfinished(s)
    <3>1. PICK s \in ShelfSlots : p = Unfinished(s)
      BY <2>2
    <3>2. page2 = page
      BY <1>1, <3>1, AtPlaces
    <3> QED
      BY <3>1, <3>2, TextPlaces
  <2>3. CASE \E i \in {1, 2} : p = OfBook(i)
    BY <2>3, TextPlaces
  <2> QED
    BY <2>1, <2>2, <2>3, PlaceKinds
<1> HIDE DEF at, text, text2
<1>2. Stored(h, at, text)
  BY DEF Kept, at, text
<1>3. Stored(h, at, text2)
  BY <1>1, <1>2 DEF Stored
<1> QED
  BY <1>3 DEF Kept, at, text2

\* Freeing the null pointer frees nothing.
LEMMA WithoutNone ==
    ASSUME NEW h, NEW at, NEW text, Stored(h, at, text), NEW X, X \subseteq {NoBuffer}
    PROVE  Without(X, h) = h
<1>1. NoBuffer \notin DOMAIN h
  BY DEF Stored
<1>2. DOMAIN h \ X = DOMAIN h
  BY <1>1
<1> QED
  BY <1>2 DEF Without, Stored

-----------------------------------------------------------------------------
(* The operations of the shelf's store.                                    *)

SameShown(sh2, sh) ==
    /\ sh2.titles = sh.titles
    /\ \A s \in ShelfSlots :
          /\ sh2.slots[s].active = sh.slots[s].active
          /\ sh2.slots[s].generation = sh.slots[s].generation
          /\ sh2.slots[s].references = sh.slots[s].references
SameBuilt(sh2, sh, others) ==
    \A s \in others : /\ sh2.slots[s].building = sh.slots[s].building
                      /\ sh2.slots[s].used = sh.slots[s].used
Building(sh, s) == sh.slots[s].building
Used(sh, s) == sh.slots[s].used
Memory(h, store) == [heap |-> h, store |-> store]

\* A heap and a store, as the operations take them.
LEMMA MemoryParts ==
    \A h, store : Memory(h, store).heap = h /\ Memory(h, store).store = store
BY DEF Memory

OneSlotOf(sh2, sh, s, u) ==
    /\ sh2.titles = sh.titles /\ sh2 \in Shelf /\ sh2.slots[s] = u
    /\ \A t \in ShelfSlots \ {s} : sh2.slots[t] = sh.slots[t]

\* The types of a shelf, slot by slot.
LEMMA ShelfParts ==
    ASSUME NEW sh \in Shelf
    PROVE  /\ \A s \in ShelfSlots : /\ sh.slots[s] \in ShelfSlot
                                    /\ sh.slots[s].active \in Buffers \cup {NoBuffer}
                                    /\ sh.slots[s].building \in Buffers \cup {NoBuffer}
                                    /\ sh.slots[s].used \in Nat
                                    /\ sh.slots[s].generation \in Nat
                                    /\ sh.slots[s].references \in Nat
           /\ DOMAIN sh.slots = ShelfSlots /\ sh.titles \in Seq(ShelfTitles)
           /\ sh = [slots |-> sh.slots, titles |-> sh.titles]
BY DEF Shelf, ShelfSlot

\* One slot of the shelf replaced,
LEMMA SlotReplaced ==
    ASSUME NEW sh \in Shelf, NEW s \in ShelfSlots, NEW u \in ShelfSlot,
           NEW sh2, sh2 = [slots |-> [sh.slots EXCEPT ![s] = u], titles |-> sh.titles]
    PROVE  OneSlotOf(sh2, sh, s, u)
<1>1. PICK f : f = [sh.slots EXCEPT ![s] = u]
  OBVIOUS
<1>2. f \in [ShelfSlots -> ShelfSlot] /\ f[s] = u
      /\ \A t \in ShelfSlots \ {s} : f[t] = sh.slots[t]
  BY <1>1 DEF Shelf
<1>3. sh2.slots = f /\ sh2.titles = sh.titles
  BY <1>1
<1>4. sh.titles \in Seq(ShelfTitles)
  BY DEF Shelf
<1> QED
  BY <1>1, <1>2, <1>3, <1>4 DEF Shelf, OneSlotOf

Rebuilt(sh2, sh, s, a, n) ==
    /\ sh2 \in Shelf /\ SameShown(sh2, sh) /\ SameBuilt(sh2, sh, ShelfSlots \ {s})
    /\ Building(sh2, s) = a /\ Used(sh2, s) = n

\* or only what it builds.
LEMMA SlotRebuilt ==
    ASSUME NEW sh \in Shelf, NEW s \in ShelfSlots, NEW a \in Buffers \cup {NoBuffer},
           NEW n \in Nat, NEW sh2,
           \/ sh2 = [sh EXCEPT !.slots[s].building = a, !.slots[s].used = n]
           \/ a = Building(sh, s) /\ sh2 = [sh EXCEPT !.slots[s].used = n]
    PROVE  Rebuilt(sh2, sh, s, a, n)
<1>1. PICK u : u = [sh.slots[s] EXCEPT !.building = a, !.used = n]
  OBVIOUS
<1>2. sh.slots[s] \in ShelfSlot
  BY ShelfParts
<1>3. /\ u \in ShelfSlot
      /\ u.active = sh.slots[s].active /\ u.generation = sh.slots[s].generation
      /\ u.references = sh.slots[s].references /\ u.building = a /\ u.used = n
  BY <1>1, <1>2 DEF ShelfSlot
<1>4. sh2 = [slots |-> [sh.slots EXCEPT ![s] = u], titles |-> sh.titles]
  <2>1. sh = [slots |-> sh.slots, titles |-> sh.titles]
    BY ShelfParts
  <2>2. CASE sh2 = [sh EXCEPT !.slots[s].building = a, !.slots[s].used = n]
    <3>1. PICK f : f = sh.slots
      OBVIOUS
    <3>2. DOMAIN f = ShelfSlots
      BY <3>1, ShelfParts
    <3>3. u = [f[s] EXCEPT !.building = a, !.used = n]
      BY <1>1, <3>1
    <3>4. PICK g : g = [f EXCEPT ![s].building = a]
      OBVIOUS
    <3>5. g[s] = [f[s] EXCEPT !.building = a]
      BY <3>2, <3>4
    <3>6. [g EXCEPT ![s].used = n] = [f EXCEPT ![s] = u]
      BY <3>2, <3>3, <3>4, <3>5
    <3>7. sh2 = [[sh EXCEPT !.slots = g] EXCEPT !.slots[s].used = n]
      BY <2>2, <3>1, <3>4
    <3>8. [sh EXCEPT !.slots = g] = [slots |-> g, titles |-> sh.titles]
      BY <2>1
    <3>9. sh2 = [slots |-> [g EXCEPT ![s].used = n], titles |-> sh.titles]
      BY <3>7, <3>8
    <3> QED
      BY <3>1, <3>6, <3>9
  <2>3. CASE a = Building(sh, s) /\ sh2 = [sh EXCEPT !.slots[s].used = n]
    <3>1. u = [sh.slots[s] EXCEPT !.used = n]
      BY <1>1, <1>2, <2>3 DEF ShelfSlot, Building
    <3>2. sh2 = [slots |-> [sh.slots EXCEPT ![s].used = n], titles |-> sh.titles]
      BY <2>1, <2>3
    <3> QED
      BY <3>1, <3>2
  <2> QED
    BY <2>2, <2>3
<1>5. OneSlotOf(sh2, sh, s, u)
  <2> HIDE <1>1
  <2> QED
    BY <1>3, <1>4, SlotReplaced
<1> QED
  BY <1>3, <1>5 DEF OneSlotOf, Rebuilt, SameShown, SameBuilt, Building, Used

\* What is built in a slot is dropped: nothing is lost, and nothing else touched.
LEMMA CancelShelfKeeps ==
    ASSUME NEW h, NEW sh \in Shelf, NEW page, NEW cv, NEW title,
           Kept(h, sh, page, cv, title), NEW s \in ShelfSlots
    PROVE  \E h2, sh2 :
             /\ CancelShelf(Memory(h, sh), s) = Memory(h2, sh2)
             /\ Kept(h2, sh2, page, cv, title) /\ Rebuilt(sh2, sh, s, NoBuffer, 0)
             /\ h2 = Without({Building(sh, s)}, h)
<1>1. PICK h2 : h2 = Without({Building(sh, s)}, h)
  OBVIOUS
<1>2. PICK sh2 : sh2 = [sh EXCEPT !.slots[s].building = NoBuffer, !.slots[s].used = 0]
  OBVIOUS
<1>3. CancelShelf(Memory(h, sh), s) = Memory(h2, sh2)
  BY <1>1, <1>2 DEF CancelShelf, Memory, Building
<1>4. Rebuilt(sh2, sh, s, NoBuffer, 0)
  BY <1>2, SlotRebuilt
<1>5. Kept(h2, sh2, page, cv, title)
  <2>1. PICK A, B, X : A = {} /\ B = {s} /\ X = {Building(sh, s)}
    OBVIOUS
  <2>2. A \in SUBSET ShelfSlots /\ B \in SUBSET ShelfSlots
    BY <2>1
  <2>3. ShelfFreed(sh2, sh, A, B)
    BY <1>4, <2>1 DEF ShelfFreed, Rebuilt, SameShown, SameBuilt, Building
  <2>4. X \ {NoBuffer} = ShelfLetGo(sh, A, B) \ {NoBuffer}
    BY <2>1 DEF ShelfLetGo, Building
  <2>5. Kept(Without(X, h), sh2, page, cv, title)
    BY <2>2, <2>3, <2>4, ShelfLess
  <2> QED
    BY <1>1, <2>1, <2>5
<1> QED
  BY <1>1, <1>3, <1>4, <1>5

\* A slot rebuilt keeps what the other places hold.
LEMMA OthersKept ==
    ASSUME NEW sh, NEW sh2, NEW s \in ShelfSlots, NEW a, NEW n,
           Rebuilt(sh2, sh, s, a, n), NEW page, NEW cv, NEW title
    PROVE  \A p \in Places \ {Unfinished(s)} :
               /\ At(sh2, cv)[p] = At(sh, cv)[p]
               /\ Text(sh2, page, cv, title)[p] = Text(sh, page, cv, title)[p]
<1> SUFFICES ASSUME NEW p \in Places \ {Unfinished(s)}
             PROVE  /\ At(sh2, cv)[p] = At(sh, cv)[p]
                    /\ Text(sh2, page, cv, title)[p] = Text(sh, page, cv, title)[p]
  OBVIOUS
<1>1. CASE \E t \in ShelfSlots : p = Shown(t)
  <2>1. PICK t \in ShelfSlots : p = Shown(t)
    BY <1>1
  <2>2. /\ sh2.titles = sh.titles /\ sh2.slots[t].active = sh.slots[t].active
        /\ sh2.slots[t].generation = sh.slots[t].generation
    BY DEF Rebuilt, SameShown
  <2> QED
    BY <2>1, <2>2, AtPlaces, TextPlaces
<1>2. CASE \E t \in ShelfSlots : p = Unfinished(t)
  <2>1. PICK t \in ShelfSlots : p = Unfinished(t)
    BY <1>2
  <2>2. t \in ShelfSlots \ {s}
    BY <2>1
  <2>3. sh2.slots[t].building = sh.slots[t].building /\ sh2.slots[t].used = sh.slots[t].used
    BY <2>2 DEF Rebuilt, SameBuilt
  <2> QED
    BY <2>1, <2>3, AtPlaces, TextPlaces
<1>3. CASE \E i \in {1, 2} : p = OfBook(i)
  BY <1>3, AtPlaces, TextPlaces
<1> QED
  BY <1>1, <1>2, <1>3, PlaceKinds

\* The heap gives out a buffer nobody has.
LEMMA AllocatedFree ==
    ASSUME NEW h, HasRoom(h)
    PROVE  Allocated(h) \in Buffers /\ Allocated(h) \notin DOMAIN h /\ Allocated(h) # NoBuffer
<1>1. \E a \in Buffers : a \notin DOMAIN h
  BY DEF HasRoom
<1> QED
  BY <1>1, CoverAssumption DEF Allocated

\* A building begins with nothing of the cover.
LEMMA BeginShelfKeeps ==
    ASSUME NEW h, NEW sh \in Shelf, NEW page, NEW cv, NEW title,
           Kept(h, sh, page, cv, title), NEW s \in ShelfSlots,
           HasRoom(CancelShelf(Memory(h, sh), s).heap)
    PROVE  \E h2, sh2 :
             /\ BeginShelf(Memory(h, sh), s) = Memory(h2, sh2)
             /\ Kept(h2, sh2, page, cv, title)
             /\ \E b \in Buffers : Rebuilt(sh2, sh, s, b, 0)
<1>1. PICK h1, sh1 :
        /\ CancelShelf(Memory(h, sh), s) = Memory(h1, sh1)
        /\ Kept(h1, sh1, page, cv, title) /\ Rebuilt(sh1, sh, s, NoBuffer, 0)
  BY CancelShelfKeeps
<1>2. PICK b : b = Allocated(h1)
  OBVIOUS
<1>3. b \in Buffers /\ b \notin DOMAIN h1 /\ b # NoBuffer
  <2>1. HasRoom(h1)
    BY <1>1, MemoryParts
  <2> QED
    BY <1>2, <2>1, AllocatedFree
<1>4. PICK sh2 : sh2 = [sh1 EXCEPT !.slots[s].building = b, !.slots[s].used = 0]
  OBVIOUS
<1>5. BeginShelf(Memory(h, sh), s) = Memory(With(b, h1), sh2)
  <2>1. PICK c : c = CancelShelf(Memory(h, sh), s)
    OBVIOUS
  <2>2. c.heap = h1 /\ c.store = sh1
    BY <1>1, <2>1, MemoryParts
  <2>3. BeginShelf(Memory(h, sh), s) =
          [heap |-> With(Allocated(c.heap), c.heap),
           store |-> [c.store EXCEPT !.slots[s].building = Allocated(c.heap),
                                     !.slots[s].used = 0]]
    BY <2>1 DEF BeginShelf
  <2> QED
    BY <1>2, <1>4, <2>2, <2>3 DEF Memory
<1>6. Rebuilt(sh2, sh1, s, b, 0)
  <2>1. sh1 \in Shelf
    BY <1>1 DEF Rebuilt
  <2> QED
    BY <1>3, <1>4, <2>1, SlotRebuilt
<1>7. Rebuilt(sh2, sh, s, b, 0)
  BY <1>1, <1>6 DEF Rebuilt, SameShown, SameBuilt
<1>8. Kept(With(b, h1), sh2, page, cv, title)
  <2> DEFINE at == At(sh1, cv)
             at2 == At(sh2, cv)
             text == Text(sh1, page, cv, title)
             text2 == Text(sh2, page, cv, title)
  <2>1. at[Unfinished(s)] = NoBuffer /\ at2[Unfinished(s)] = b
    BY <1>1, <1>6, AtPlaces DEF Rebuilt, Building
  <2>2. text2[Unfinished(s)] = <<>>
    BY <1>6, TextPlaces, PartEmpty DEF Rebuilt, Used
  <2>3. \A p \in Places \ {Unfinished(s)} : at2[p] = at[p] /\ text2[p] = text[p]
    BY <1>6, OthersKept
  <2> HIDE DEF at, at2, text, text2
  <2>4. Stored(h1, at, text)
    BY <1>1 DEF Kept, at, text
  <2>5. Unfinished(s) \in Places
    BY PlacesAre
  <2>6. Stored(With(b, h1), at2, text2)
    BY <1>3, <2>1, <2>2, <2>3, <2>4, <2>5, StoredWith
  <2> QED
    BY <2>6 DEF Kept, at2, text2
<1> QED
  BY <1>3, <1>5, <1>7, <1>8

\* A block of the cover of the item at the slot is appended.
LEMMA AppendShelfKeeps ==
    ASSUME NEW h, NEW sh \in Shelf, NEW page, NEW cv, NEW title,
           Kept(h, sh, page, cv, title), NEW s \in ShelfSlots,
           NEW a \in Buffers, a = Building(sh, s), NEW n \in Nat, n = Used(sh, s),
           NEW block, block = [title |-> OnPage(page, s), offset |-> n]
    PROVE  \E h2, sh2 :
             /\ AppendShelf(Memory(h, sh), s, block) = Memory(h2, sh2)
             /\ Kept(h2, sh2, page, cv, title) /\ Rebuilt(sh2, sh, s, a, n + 1)
<1> DEFINE at == At(sh, cv)
           text == Text(sh, page, cv, title)
<1>1. a # NoBuffer
  BY CoverAssumption
<1>2. PICK sh2 : sh2 = [sh EXCEPT !.slots[s].used = n + 1]
  OBVIOUS
<1>3. Rebuilt(sh2, sh, s, a, n + 1)
  <2>1. PICK k \in Nat : k = n + 1
    OBVIOUS
  <2>2. a \in Buffers \cup {NoBuffer} /\ a = Building(sh, s)
    OBVIOUS
  <2>3. sh2 = [sh EXCEPT !.slots[s].used = k]
    BY <1>2, <2>1
  <2>4. Rebuilt(sh2, sh, s, a, k)
    BY <2>2, <2>3, SlotRebuilt, Zenon
  <2> QED
    BY <2>1, <2>4
<1>4. at[Unfinished(s)] = a
  BY AtPlaces DEF Building
<1>5. Unfinished(s) \in Places
  BY PlacesAre
<1>6. h[a] = Part(OnPage(page, s), n)
  <2>1. text[Unfinished(s)] = Part(OnPage(page, s), n)
    BY TextPlaces DEF Used
  <2> HIDE DEF at, text
  <2>2. Stored(h, at, text)
    BY DEF Kept, at, text
  <2> QED
    BY <1>1, <1>4, <1>5, <2>1, <2>2 DEF Stored
<1>7. Append(h[a], block) = Part(OnPage(page, s), n + 1)
  BY <1>6, PartLonger
<1>8. PICK h2 : h2 = [h EXCEPT ![a] = Part(OnPage(page, s), n + 1)]
  OBVIOUS
<1>9. AppendShelf(Memory(h, sh), s, block) = Memory(h2, sh2)
  <2>1. h2 = [h EXCEPT ![a] = Append(@, block)]
    BY <1>7, <1>8
  <2>2. sh2 = [sh EXCEPT !.slots[s].used = @ + 1]
    BY <1>2 DEF Used
  <2> QED
    BY <2>1, <2>2 DEF AppendShelf, Memory, Building
<1>10. Kept(h2, sh2, page, cv, title)
  <2> DEFINE at2 == At(sh2, cv)
             text2 == Text(sh2, page, cv, title)
  <2>1. text2[Unfinished(s)] = Part(OnPage(page, s), n + 1)
    BY <1>3, TextPlaces DEF Rebuilt, Used
  <2>2. at2[Unfinished(s)] = a
    BY <1>3, AtPlaces DEF Rebuilt, Building
  <2>3. \A p \in Places \ {Unfinished(s)} : at2[p] = at[p] /\ text2[p] = text[p]
    BY <1>3, OthersKept
  <2> HIDE DEF at, at2, text, text2
  <2>4. Stored(h, at, text)
    BY DEF Kept, at, text
  <2>5. h2 = [h EXCEPT ![at[Unfinished(s)]] = text2[Unfinished(s)]]
    BY <1>4, <1>8, <2>1
  <2>6. Stored(h2, at2, text2)
    BY <1>1, <1>4, <1>5, <2>2, <2>3, <2>4, <2>5, StoredWrites
  <2> QED
    BY <2>6 DEF Kept, at2, text2
<1> QED
  BY <1>3, <1>9, <1>10

\* The cover that slot s was built for is shown; the others are as they were.
Committed(sh2, sh, s, title) ==
    /\ sh2 \in Shelf /\ sh2.titles = Append(sh.titles, title)
    /\ sh2.slots[s].active = sh.slots[s].building
    /\ sh2.slots[s].generation = Len(sh.titles) + 1
    /\ sh2.slots[s].references = sh.slots[s].references
    /\ sh2.slots[s].building = NoBuffer
    /\ \A t \in ShelfSlots \ {s} : sh2.slots[t] = sh.slots[t]

\* A new generation leaves the titles of the earlier ones.
LEMMA TitlesLonger ==
    ASSUME NEW S, NEW titles \in Seq(S), NEW title \in S
    PROVE  /\ Append(titles, title) \in Seq(S)
           /\ Len(titles) \in Nat /\ Len(Append(titles, title)) = Len(titles) + 1
           /\ Append(titles, title)[Len(titles) + 1] = title
           /\ \A g \in 1 .. Len(titles) : Append(titles, title)[g] = titles[g]
BY AppendProperties, LenProperties

\* A whole cover replaces the one shown, which nobody draws.
LEMMA CommitShelfKeeps ==
    ASSUME NEW h, NEW sh \in Shelf, NEW page, NEW cv, NEW title,
           Kept(h, sh, page, cv, title), NEW s \in ShelfSlots, MayCommit(sh.slots[s]),
           ShelfTitled(sh), OnPage(page, s) \in ShelfTitles
    PROVE  \E h2, sh2 :
             /\ CommitShelf(Memory(h, sh), s, OnPage(page, s)) = Memory(h2, sh2)
             /\ Kept(h2, sh2, page, cv, title)
             /\ Committed(sh2, sh, s, OnPage(page, s))
<1>1. PICK titles : titles = Append(sh.titles, OnPage(page, s))
  OBVIOUS
<1>2. PICK n \in Nat : n = Len(sh.titles)
  BY ShelfParts, LenProperties
<1>3. /\ titles \in Seq(ShelfTitles) /\ Len(titles) = n + 1
      /\ titles[n + 1] = OnPage(page, s)
      /\ \A g \in 1 .. n : titles[g] = sh.titles[g]
  <2>1. sh.titles \in Seq(ShelfTitles)
    BY ShelfParts
  <2> QED
    BY <1>1, <1>2, <2>1, TitlesLonger
<1>4. PICK slot : slot = sh.slots[s]
  OBVIOUS
<1>5. slot \in ShelfSlot
  BY <1>4, ShelfParts
<1>6. PICK u : u = [EmptyShelfSlot EXCEPT !.active = slot.building, !.generation = Len(titles),
                                          !.references = slot.references]
  OBVIOUS
<1>7. /\ u \in ShelfSlot /\ u.active = slot.building /\ u.generation = n + 1
      /\ u.references = slot.references /\ u.building = NoBuffer
  <2>1. PICK a, r, g : a = slot.building /\ r = slot.references /\ g = Len(titles)
    OBVIOUS
  <2>2. a \in Buffers \cup {NoBuffer} /\ r \in Nat /\ g \in Nat /\ g = n + 1
    BY <1>3, <1>5, <2>1 DEF ShelfSlot
  <2>3. u = [active |-> a, generation |-> g, references |-> r, retired |-> FALSE,
             building |-> NoBuffer, used |-> 0]
    BY <1>6, <2>1 DEF EmptyShelfSlot
  <2> QED
    BY <2>1, <2>2, <2>3 DEF ShelfSlot
<1>8. PICK sh2 : sh2 = [slots |-> [sh.slots EXCEPT ![s] = u], titles |-> titles]
  OBVIOUS
<1>9. PICK h2 : h2 = Without({slot.active}, h)
  OBVIOUS
<1>10. CommitShelf(Memory(h, sh), s, OnPage(page, s)) = Memory(h2, sh2)
  <2>1. PICK m : m = Memory(h, sh)
    OBVIOUS
  <2>2. m.heap = h /\ m.store = sh
    BY <2>1, MemoryParts
  <2>3. MayCommit(m.store.slots[s])
    BY <2>2
  <2>4. CommitShelf(m, s, OnPage(page, s)) =
          [heap |-> Without({m.store.slots[s].active}, m.heap),
           store |-> [slots |-> [m.store.slots EXCEPT
                          ![s] = [EmptyShelfSlot EXCEPT
                                     !.active = m.store.slots[s].building,
                                     !.generation = Len(Append(m.store.titles, OnPage(page, s))),
                                     !.references = m.store.slots[s].references]],
                      titles |-> Append(m.store.titles, OnPage(page, s))]]
    BY <2>3 DEF CommitShelf
  <2> QED
    BY <1>1, <1>4, <1>6, <1>8, <1>9, <2>1, <2>2, <2>4 DEF Memory
<1>11. Committed(sh2, sh, s, OnPage(page, s))
  <2>1. PICK f : f = [sh.slots EXCEPT ![s] = u]
    OBVIOUS
  <2>2. f \in [ShelfSlots -> ShelfSlot] /\ f[s] = u
        /\ \A t \in ShelfSlots \ {s} : f[t] = sh.slots[t]
    BY <1>7, <2>1 DEF Shelf
  <2>3. sh2.slots = f /\ sh2.titles = titles
    BY <1>8, <2>1
  <2>4. sh2 \in Shelf
    BY <1>3, <1>8, <2>1, <2>2 DEF Shelf
  <2> QED
    BY <1>1, <1>2, <1>4, <1>7, <2>2, <2>3, <2>4 DEF Committed
<1>12. Kept(h2, sh2, page, cv, title)
  <2> DEFINE at == At(sh, cv)
             at2 == At(sh2, cv)
             text == Text(sh, page, cv, title)
             text2 == Text(sh2, page, cv, title)
             p == Unfinished(s)
             q == Shown(s)
  <2>1. p \in Places /\ q \in Places /\ p # q
    BY PlacesAre, PlacesDiffer
  <2>2. at[p] # NoBuffer /\ at2[q] = at[p] /\ at2[p] = NoBuffer
    BY <1>11, AtPlaces DEF Committed, MayCommit
  <2>3. text2[q] = text[p]
    <3>1. text[p] = Part(OnPage(page, s), Blocks)
      BY TextPlaces DEF MayCommit
    <3>2. sh2.titles[sh2.slots[s].generation] = OnPage(page, s)
      BY <1>1, <1>2, <1>3, <1>11 DEF Committed
    <3> QED
      BY <3>1, <3>2, TextPlaces
  <2>4. \A o \in Places \ {p, q} :
            at2[o] = at[o] /\ (at[o] # NoBuffer => text2[o] = text[o])
    <3> SUFFICES ASSUME NEW o \in Places \ {p, q}
                 PROVE  at2[o] = at[o] /\ (at[o] # NoBuffer => text2[o] = text[o])
      OBVIOUS
    <3>1. CASE \E t \in ShelfSlots : o = Shown(t)
      <4>1. PICK t \in ShelfSlots : o = Shown(t)
        BY <3>1
      <4>2. sh2.slots[t] = sh.slots[t]
        BY <1>11, <4>1 DEF Committed
      <4>3. at2[o] = at[o]
        BY <4>1, <4>2, AtPlaces
      <4>4. ASSUME at[o] # NoBuffer
            PROVE  text2[o] = text[o]
        <5>1. sh.slots[t].active # NoBuffer
          BY <4>1, <4>4, AtPlaces
        <5>2. sh.slots[t].generation \in 1 .. n
          BY <1>2, <5>1 DEF ShelfTitled
        <5>3. sh2.titles[sh2.slots[t].generation] = sh.titles[sh.slots[t].generation]
          BY <1>1, <1>3, <1>11, <4>2, <5>2 DEF Committed
        <5> QED
          BY <4>1, <5>3, TextPlaces
      <4> QED
        BY <4>3, <4>4
    <3>2. CASE \E t \in ShelfSlots : o = Unfinished(t)
      <4>1. PICK t \in ShelfSlots : o = Unfinished(t)
        BY <3>2
      <4>2. sh2.slots[t] = sh.slots[t]
        BY <1>11, <4>1 DEF Committed
      <4> QED
        BY <4>1, <4>2, AtPlaces, TextPlaces
    <3>3. CASE \E i \in {1, 2} : o = OfBook(i)
      BY <3>3, AtPlaces, TextPlaces
    <3> QED
      BY <3>1, <3>2, <3>3, PlaceKinds
  <2>5. h2 = Without({at[q]}, h)
    BY <1>4, <1>9, AtPlaces
  <2> HIDE DEF at, at2, text, text2, p, q
  <2>6. Stored(h, at, text)
    BY DEF Kept, at, text
  <2>7. Stored(h2, at2, text2)
    BY <2>1, <2>2, <2>3, <2>4, <2>5, <2>6, StoredMoved
  <2> QED
    BY <2>7 DEF Kept, at2, text2
<1> QED
  BY <1>10, <1>11, <1>12

\* What is drawn stays.
Cleared(sh2, sh) ==
    /\ sh2 \in Shelf /\ sh2.titles = sh.titles
    /\ \A s \in ShelfSlots :
          /\ sh2.slots[s].building = NoBuffer
          /\ sh2.slots[s].references = sh.slots[s].references
          /\ IF sh.slots[s].references # 0
             THEN /\ sh2.slots[s].active = sh.slots[s].active
                  /\ sh2.slots[s].generation = sh.slots[s].generation
             ELSE sh2.slots[s].active = NoBuffer

\* The shelf is cleared but for the cover that is drawn.
LEMMA ClearShelfKeeps ==
    ASSUME NEW h, NEW sh \in Shelf, NEW page, NEW cv, NEW title,
           Kept(h, sh, page, cv, title)
    PROVE  \E h2, sh2 :
             /\ ClearShelf(Memory(h, sh)) = Memory(h2, sh2)
             /\ Kept(h2, sh2, page, cv, title) /\ Cleared(sh2, sh)
<1>1. PICK held : held = {s \in ShelfSlots : sh.slots[s].references # 0}
  OBVIOUS
<1>2. PICK f : f = [s \in ShelfSlots |->
             IF s \notin held THEN EmptyShelfSlot
             ELSE [sh.slots[s] EXCEPT !.retired = TRUE, !.building = NoBuffer, !.used = 0]]
  OBVIOUS
<1>3. PICK sh2 : sh2 = [slots |-> f, titles |-> sh.titles]
  OBVIOUS
<1>4. PICK X : X = {sh.slots[s].building : s \in ShelfSlots}
                   \cup {sh.slots[s].active : s \in ShelfSlots \ held}
  OBVIOUS
<1>5. ClearShelf(Memory(h, sh)) = Memory(Without(X, h), sh2)
  <2>1. PICK m : m = Memory(h, sh)
    OBVIOUS
  <2>2. m.heap = h /\ m.store = sh
    BY <2>1, MemoryParts
  <2>3. [sh EXCEPT !.slots = f] = sh2
    <3>1. sh = [slots |-> sh.slots, titles |-> sh.titles]
      BY ShelfParts
    <3> QED
      BY <1>3, <3>1
  <2>4. ClearShelf(m) = [heap |-> Without(X, h), store |-> [sh EXCEPT !.slots = f]]
    BY <1>1, <1>2, <1>4, <2>2 DEF ClearShelf
  <2> QED
    BY <2>1, <2>3, <2>4 DEF Memory
<1>6. ASSUME NEW s \in ShelfSlots
      PROVE  /\ f[s] \in ShelfSlot /\ f[s].building = NoBuffer
             /\ f[s].references = sh.slots[s].references
             /\ IF sh.slots[s].references # 0
                THEN /\ f[s].active = sh.slots[s].active
                     /\ f[s].generation = sh.slots[s].generation
                ELSE f[s].active = NoBuffer
  <2>1. PICK u : u = sh.slots[s]
    OBVIOUS
  <2>2. u \in ShelfSlot
    BY <2>1, ShelfParts
  <2>3. CASE s \in held
    <3>1. f[s] = [u EXCEPT !.retired = TRUE, !.building = NoBuffer, !.used = 0]
      BY <1>2, <2>1, <2>3
    <3>2. u.references # 0
      BY <1>1, <2>1, <2>3
    <3>3. /\ u.active \in Buffers \cup {NoBuffer} /\ u.generation \in Nat /\ u.references \in Nat
          /\ u = [active |-> u.active, generation |-> u.generation,
                  references |-> u.references, retired |-> u.retired,
                  building |-> u.building, used |-> u.used]
      BY <2>2 DEF ShelfSlot
    <3>4. f[s] = [active |-> u.active, generation |-> u.generation,
                  references |-> u.references, retired |-> TRUE,
                  building |-> NoBuffer, used |-> 0]
      BY <3>1, <3>3
    <3>5. f[s] \in ShelfSlot
      BY <3>3, <3>4 DEF ShelfSlot
    <3>6. /\ f[s].building = NoBuffer /\ f[s].references = u.references
          /\ f[s].active = u.active /\ f[s].generation = u.generation
      BY <3>4
    <3> QED
      BY <2>1, <3>2, <3>5, <3>6
  <2>4. CASE s \notin held
    <3>1. f[s] = EmptyShelfSlot
      BY <1>2, <2>4
    <3>2. u.references = 0
      BY <1>1, <2>1, <2>4
    <3> QED
      BY <2>1, <2>2, <3>1, <3>2 DEF ShelfSlot, EmptyShelfSlot
  <2> QED
    BY <2>3, <2>4
<1>7. sh2.slots = f /\ sh2.titles = sh.titles
  BY <1>3
<1>8. f \in [ShelfSlots -> ShelfSlot]
  <2>1. f = [s \in ShelfSlots |-> f[s]]
    BY <1>2
  <2> QED
    BY <1>6, <2>1
<1>9. sh2 \in Shelf
  BY <1>3, <1>8, ShelfParts DEF Shelf
<1>10. Cleared(sh2, sh)
  BY <1>6, <1>7, <1>9 DEF Cleared
<1>11. Kept(Without(X, h), sh2, page, cv, title)
  <2>1. PICK A, B : A = ShelfSlots \ held /\ B = ShelfSlots
    OBVIOUS
  <2>2. A \in SUBSET ShelfSlots /\ B \in SUBSET ShelfSlots
    BY <2>1
  <2>3. ShelfFreed(sh2, sh, A, B)
    BY <1>1, <1>10, <2>1 DEF ShelfFreed, Cleared
  <2>4. X \ {NoBuffer} = ShelfLetGo(sh, A, B) \ {NoBuffer}
    BY <1>4, <2>1 DEF ShelfLetGo
  <2> QED
    BY <2>2, <2>3, <2>4, ShelfLess
<1> QED
  BY <1>5, <1>10, <1>11

-----------------------------------------------------------------------------
(* The operations of the store of Reader.                                  *)

\* The types of Reader's store, slot by slot.
LEMMA CoverParts ==
    ASSUME NEW cv \in Covers
    PROVE  /\ \A i \in {1, 2} : /\ cv.slots[i] \in CoverSlot
                                /\ cv.slots[i].data \in Buffers \cup {NoBuffer}
                                /\ cv.slots[i].used \in Nat
                                /\ cv.slots[i].generation \in Nat
                                /\ cv.slots[i].references \in Nat
           /\ cv.slots \in [{1, 2} -> CoverSlot] /\ cv.titles \in Seq(BookCovers \cup {0})
           /\ cv.active \in 0 .. 2 /\ cv.building \in 0 .. 2
           /\ cv = [slots |-> cv.slots, active |-> cv.active, building |-> cv.building,
                    titles |-> cv.titles]
BY DEF Covers, CoverSlot

\* An empty slot.
LEMMA EmptyCover ==
    /\ EmptyCoverSlot \in CoverSlot /\ EmptyCoverSlot.data = NoBuffer
    /\ EmptyCoverSlot.references = 0
BY DEF EmptyCoverSlot, CoverSlot

SlotIs(cv, i, slot) == cv.slots[i] = slot
OtherSlots(cv2, cv, i) == \A j \in {1, 2} \ {i} : cv2.slots[j] = cv.slots[j]
Ends(cv2, cv, active, building, titles) ==
    cv2 \in Covers /\ cv2.active = active /\ cv2.building = building /\ cv2.titles = titles

\* One slot replaced, and the store's fields set.
LEMMA CoverReplaced ==
    ASSUME NEW cv \in Covers, NEW i \in {1, 2}, NEW u \in CoverSlot,
           NEW active \in 0 .. 2, NEW building \in 0 .. 2,
           NEW titles \in Seq(BookCovers \cup {0}), NEW cv2,
           cv2 = [slots |-> [cv.slots EXCEPT ![i] = u], active |-> active,
                  building |-> building, titles |-> titles]
    PROVE  SlotIs(cv2, i, u) /\ OtherSlots(cv2, cv, i) /\ Ends(cv2, cv, active, building, titles)
<1>1. PICK f : f = [cv.slots EXCEPT ![i] = u]
  OBVIOUS
<1>2. cv.slots \in [{1, 2} -> CoverSlot]
  BY CoverParts
<1>3. f \in [{1, 2} -> CoverSlot] /\ f[i] = u /\ \A j \in {1, 2} \ {i} : f[j] = cv.slots[j]
  BY <1>1, <1>2
<1>4. cv2.slots = f
  BY <1>1
<1>5. cv2 \in Covers
  BY <1>1, <1>3 DEF Covers
<1> QED
  BY <1>3, <1>4, <1>5 DEF SlotIs, OtherSlots, Ends

\* Nothing is being built.
Dropped(cv2, cv) ==
    /\ Ends(cv2, cv, cv.active, 0, cv.titles)
    /\ \A i \in {1, 2} : cv2.slots[i] = IF i = cv.building THEN EmptyCoverSlot ELSE cv.slots[i]

\* What Reader builds is dropped,
LEMMA CancelCoverKeeps ==
    ASSUME NEW h, NEW sh, NEW page, NEW cv \in Covers, NEW title,
           Kept(h, sh, page, cv, title)
    PROVE  \E h2, cv2 :
             /\ CancelCover(Memory(h, cv)) = Memory(h2, cv2)
             /\ Kept(h2, sh, page, cv2, title) /\ Dropped(cv2, cv)
<1>1. CASE cv.building = 0
  <2>1. Dropped(cv, cv)
    BY <1>1, CoverParts DEF Dropped, Ends
  <2>2. CancelCover(Memory(h, cv)) = Memory(h, cv)
    BY <1>1, MemoryParts DEF CancelCover
  <2> QED
    BY <2>1, <2>2
<1>2. CASE cv.building # 0
  <2>1. PICK i \in {1, 2} : i = cv.building
    BY <1>2, CoverParts
  <2>2. PICK a : a = cv.slots[i].data
    OBVIOUS
  <2>3. PICK cv2 : cv2 = [slots |-> [cv.slots EXCEPT ![i] = EmptyCoverSlot],
                          active |-> cv.active, building |-> 0, titles |-> cv.titles]
    OBVIOUS
  <2>4. CancelCover(Memory(h, cv)) = Memory(Without({a}, h), cv2)
    <3>1. PICK m : m = Memory(h, cv)
      OBVIOUS
    <3>2. m.heap = h /\ m.store = cv
      BY <3>1, MemoryParts
    <3>3. CancelCover(m) = [heap |-> Without({a}, h),
                            store |-> [cv EXCEPT !.slots[i] = EmptyCoverSlot, !.building = 0]]
      BY <1>2, <2>1, <2>2, <3>2 DEF CancelCover
    <3>4. PICK f, x, y, t : f = cv.slots /\ x = cv.active /\ y = cv.building /\ t = cv.titles
      OBVIOUS
    <3>5. cv = [slots |-> f, active |-> x, building |-> y, titles |-> t]
      BY <3>4, CoverParts
    <3>6. PICK g : g = [f EXCEPT ![i] = EmptyCoverSlot]
      OBVIOUS
    <3>7. PICK d : d = [cv EXCEPT !.slots[i] = EmptyCoverSlot, !.building = 0]
      OBVIOUS
    <3>8. d = [cv EXCEPT !.slots = g, !.building = 0]
      BY <3>5, <3>6, <3>7
    <3>9. d = [slots |-> g, active |-> x, building |-> 0, titles |-> t]
      BY <3>5, <3>8
    <3>10. d = cv2
      BY <2>3, <3>4, <3>6, <3>9
    <3> QED
      BY <3>1, <3>3, <3>7, <3>10 DEF Memory
  <2>5. /\ SlotIs(cv2, i, EmptyCoverSlot) /\ OtherSlots(cv2, cv, i)
        /\ Ends(cv2, cv, cv.active, 0, cv.titles)
    <3>1. PICK active \in 0 .. 2, building \in 0 .. 2, titles \in Seq(BookCovers \cup {0}) :
            active = cv.active /\ building = 0 /\ titles = cv.titles
      BY CoverParts
    <3>2. PICK u \in CoverSlot : u = EmptyCoverSlot
      BY EmptyCover
    <3>3. cv2 = [slots |-> [cv.slots EXCEPT ![i] = u], active |-> active,
                 building |-> building, titles |-> titles]
      BY <2>3, <3>1, <3>2
    <3>4. SlotIs(cv2, i, u) /\ OtherSlots(cv2, cv, i) /\ Ends(cv2, cv, active, building, titles)
      BY <3>3, CoverReplaced
    <3> QED
      BY <3>1, <3>2, <3>4
  <2>6. Dropped(cv2, cv)
    BY <2>1, <2>5 DEF Dropped, SlotIs, OtherSlots
  <2>7. Kept(Without({a}, h), sh, page, cv2, title)
    <3>1. PICK C, X : C = {i} /\ X = {a}
      OBVIOUS
    <3>2. C \in SUBSET {1, 2}
      BY <3>1
    <3>3. CoverFreed(cv2, cv, C)
      BY <2>1, <2>6, <3>1, EmptyCover DEF CoverFreed, Dropped, Ends
    <3>4. X \ {NoBuffer} = CoverLetGo(cv, C) \ {NoBuffer}
      BY <2>2, <3>1 DEF CoverLetGo
    <3>5. Kept(Without(X, h), sh, page, cv2, title)
      BY <3>2, <3>3, <3>4, CoverLess
    <3> QED
      BY <3>1, <3>5
  <2> QED
    BY <2>4, <2>6, <2>7
<1> QED
  BY <1>1, <1>2

\* What is drawn stays, retired; nothing is shown any more.
CoversCleared(cv2, cv) ==
    /\ Ends(cv2, cv, 0, 0, cv.titles)
    /\ \A i \in {1, 2} :
          LET empty == i = cv.building \/ cv.slots[i].references = 0
          IN  /\ empty => cv2.slots[i] = EmptyCoverSlot
              /\ ~ empty => /\ cv2.slots[i].data = cv.slots[i].data
                            /\ cv2.slots[i].used = cv.slots[i].used
                            /\ cv2.slots[i].generation = cv.slots[i].generation
                            /\ cv2.slots[i].references = cv.slots[i].references

\* and its store cleared but for the cover that is drawn.
LEMMA ClearCoverKeeps ==
    ASSUME NEW h, NEW sh, NEW page, NEW cv \in Covers, NEW title,
           Kept(h, sh, page, cv, title)
    PROVE  \E h2, cv2 :
             /\ ClearCover(Memory(h, cv)) = Memory(h2, cv2)
             /\ Kept(h2, sh, page, cv2, title) /\ CoversCleared(cv2, cv)
<1>1. PICK h1, cv1 :
        /\ CancelCover(Memory(h, cv)) = Memory(h1, cv1)
        /\ Kept(h1, sh, page, cv1, title) /\ Dropped(cv1, cv)
  BY CancelCoverKeeps
<1>2. cv1 \in Covers /\ cv1.building = 0 /\ cv1.titles = cv.titles
  BY <1>1 DEF Dropped, Ends
<1>3. PICK held : held = {i \in {1, 2} : cv1.slots[i].references # 0}
  OBVIOUS
<1>4. PICK f : f = [i \in {1, 2} |->
             IF i \in held THEN [cv1.slots[i] EXCEPT !.retired = TRUE] ELSE EmptyCoverSlot]
  OBVIOUS
<1>5. PICK cv2 : cv2 = [slots |-> f, active |-> 0, building |-> 0, titles |-> cv1.titles]
  OBVIOUS
<1>6. PICK X : X = {cv1.slots[i].data : i \in {1, 2} \ held}
  OBVIOUS
<1>7. ClearCover(Memory(h, cv)) = Memory(Without(X, h1), cv2)
  <2>1. PICK c : c = CancelCover(Memory(h, cv))
    OBVIOUS
  <2>2. c.heap = h1 /\ c.store = cv1
    BY <1>1, <2>1, MemoryParts
  <2>3. [cv1 EXCEPT !.active = 0, !.slots = f] = cv2
    <3>1. PICK g, x, t : g = cv1.slots /\ x = cv1.active /\ t = cv1.titles
      OBVIOUS
    <3>2. cv1 = [slots |-> g, active |-> x, building |-> 0, titles |-> t]
      BY <1>2, <3>1, CoverParts
    <3>3. PICK d : d = [cv1 EXCEPT !.active = 0, !.slots = f]
      OBVIOUS
    <3>4. d = [slots |-> f, active |-> 0, building |-> 0, titles |-> t]
      BY <3>2, <3>3
    <3> QED
      BY <1>5, <3>1, <3>3, <3>4
  <2>4. ClearCover(Memory(h, cv)) =
          [heap |-> Without(X, h1), store |-> [cv1 EXCEPT !.active = 0, !.slots = f]]
    BY <1>3, <1>4, <1>6, <2>1, <2>2 DEF ClearCover
  <2> QED
    BY <2>3, <2>4 DEF Memory
<1>8. ASSUME NEW i \in {1, 2}
      PROVE  /\ f[i] \in CoverSlot
             /\ i \notin held => f[i] = EmptyCoverSlot
             /\ i \in held => /\ f[i].data = cv1.slots[i].data
                              /\ f[i].used = cv1.slots[i].used
                              /\ f[i].generation = cv1.slots[i].generation
                              /\ f[i].references = cv1.slots[i].references
  <2>1. PICK u : u = cv1.slots[i]
    OBVIOUS
  <2>2. u \in CoverSlot
    BY <1>2, <2>1, CoverParts
  <2>3. CASE i \in held
    <3>1. f[i] = [u EXCEPT !.retired = TRUE]
      BY <1>4, <2>1, <2>3
    <3>2. f[i] \in CoverSlot
      BY <2>2, <3>1 DEF CoverSlot
    <3>3. /\ f[i].data = u.data /\ f[i].used = u.used
          /\ f[i].generation = u.generation /\ f[i].references = u.references
      BY <2>2, <3>1 DEF CoverSlot
    <3> QED
      BY <2>1, <2>3, <3>2, <3>3
  <2>4. CASE i \notin held
    BY <1>4, <2>4, EmptyCover
  <2> QED
    BY <2>3, <2>4
<1>9. cv2.slots = f /\ cv2.active = 0 /\ cv2.building = 0 /\ cv2.titles = cv.titles
  BY <1>2, <1>5
<1>10. cv2 \in Covers
  <2>1. f \in [{1, 2} -> CoverSlot]
    <3>1. f = [i \in {1, 2} |-> f[i]]
      BY <1>4
    <3> QED
      BY <1>8, <3>1
  <2>2. cv1.titles \in Seq(BookCovers \cup {0})
    BY <1>2, CoverParts
  <2> QED
    BY <1>5, <2>1, <2>2 DEF Covers
<1>11. CoversCleared(cv2, cv)
  <2>1. ASSUME NEW i \in {1, 2}, i = cv.building \/ cv.slots[i].references = 0
        PROVE  cv2.slots[i] = EmptyCoverSlot
    <3>1. cv1.slots[i].references = 0
      BY <1>1, <2>1, EmptyCover DEF Dropped
    <3>2. i \notin held
      BY <1>3, <3>1
    <3> QED
      BY <1>8, <1>9, <3>2
  <2>2. ASSUME NEW i \in {1, 2}, ~ (i = cv.building \/ cv.slots[i].references = 0)
        PROVE  /\ cv2.slots[i].data = cv.slots[i].data
               /\ cv2.slots[i].used = cv.slots[i].used
               /\ cv2.slots[i].generation = cv.slots[i].generation
               /\ cv2.slots[i].references = cv.slots[i].references
    <3>1. cv1.slots[i] = cv.slots[i]
      BY <1>1, <2>2 DEF Dropped
    <3>2. i \in held
      BY <1>3, <2>2, <3>1
    <3> QED
      BY <1>8, <1>9, <3>1, <3>2
  <2> QED
    BY <1>9, <1>10, <2>1, <2>2 DEF CoversCleared, Ends
<1>12. Kept(Without(X, h1), sh, page, cv2, title)
  <2>1. PICK C : C = {1, 2} \ held
    OBVIOUS
  <2>2. C \in SUBSET {1, 2}
    BY <2>1
  <2>3. CoverFreed(cv2, cv1, C)
    <3>1. \A i \in C : cv2.slots[i].data = NoBuffer
      BY <1>8, <1>9, <2>1, EmptyCover
    <3>2. \A i \in {1, 2} \ C : i \in held
      BY <2>1
    <3> QED
      BY <1>2, <1>8, <1>9, <3>1, <3>2 DEF CoverFreed
  <2>4. X \ {NoBuffer} = CoverLetGo(cv1, C) \ {NoBuffer}
    BY <1>6, <2>1 DEF CoverLetGo
  <2>5. Kept(h1, sh, page, cv1, title)
    BY <1>1
  <2> QED
    BY <2>2, <2>3, <2>4, <2>5, CoverLess
<1> QED
  BY <1>7, <1>11, <1>12

\* Slot i is given a buffer of its own.
CoverBegun(cv2, cv, i, b) ==
    /\ Ends(cv2, cv, cv.active, i, cv.titles) /\ OtherSlots(cv2, cv, i)
    /\ cv2.slots[i].data = b /\ cv2.slots[i].used = 0 /\ cv2.slots[i].references = 0

\* The slot for a new cover is neither shown nor drawn.
LEMMA FirstFree ==
    ASSUME NEW cv \in Covers, FreeCoverSlots(cv) # {}
    PROVE  SlotForCover(cv) \in FreeCoverSlots(cv)
<1>1. FreeCoverSlots(cv) \subseteq {1, 2}
  BY CoverParts DEF FreeCoverSlots
<1>2. \E k \in FreeCoverSlots(cv) : \A j \in FreeCoverSlots(cv) : k <= j
  <2>1. CASE 1 \in FreeCoverSlots(cv)
    <3>1. \A j \in FreeCoverSlots(cv) : 1 <= j
      BY <1>1
    <3> QED
      BY <2>1, <3>1
  <2>2. CASE 1 \notin FreeCoverSlots(cv)
    <3>1. \A j \in FreeCoverSlots(cv) : j = 2
      BY <1>1, <2>2
    <3>2. 2 \in FreeCoverSlots(cv)
      BY <3>1
    <3> QED
      BY <3>1, <3>2
  <2> QED
    BY <2>1, <2>2
<1> QED
  BY <1>2 DEF SlotForCover

\* A building begins in a slot that gives up its old cover.
LEMMA BeginCoverKeeps ==
    ASSUME NEW h, NEW sh, NEW page, NEW cv \in Covers, NEW title,
           Kept(h, sh, page, cv, title), cv.building = 0, FreeCoverSlots(cv) # {},
           HasRoom(HeapForCover(Memory(h, cv)))
    PROVE  \E h2, cv2 :
             /\ BeginCover(Memory(h, cv)) = Memory(h2, cv2)
             /\ Kept(h2, sh, page, cv2, title)
             /\ \E i \in FreeCoverSlots(cv) : \E b \in Buffers : CoverBegun(cv2, cv, i, b)
<1>1. PICK i \in {1, 2} : i = SlotForCover(cv) /\ i \in FreeCoverSlots(cv)
  BY FirstFree, CoverParts DEF FreeCoverSlots
<1>2. PICK h1 : h1 = Without({cv.slots[i].data}, h)
  OBVIOUS
<1>3. HeapForCover(Memory(h, cv)) = h1
  BY <1>1, <1>2, MemoryParts DEF HeapForCover
<1>4. PICK b \in Buffers : b = Allocated(h1) /\ b \notin DOMAIN h1 /\ b # NoBuffer
  BY <1>3, AllocatedFree
<1>5. PICK u : u = [EmptyCoverSlot EXCEPT !.data = b]
  OBVIOUS
<1>6. u \in CoverSlot /\ u.data = b /\ u.used = 0 /\ u.references = 0
  <2>1. u = [data |-> b, used |-> 0, generation |-> 0, references |-> 0, retired |-> FALSE]
    BY <1>5 DEF EmptyCoverSlot
  <2> QED
    BY <2>1 DEF CoverSlot
<1>7. PICK cv2 : cv2 = [slots |-> [cv.slots EXCEPT ![i] = u], active |-> cv.active,
                        building |-> i, titles |-> cv.titles]
  OBVIOUS
<1>8. BeginCover(Memory(h, cv)) = Memory(With(b, h1), cv2)
  <2>1. PICK m : m = Memory(h, cv)
    OBVIOUS
  <2>2. m.heap = h /\ m.store = cv /\ CancelCover(m) = m
    BY <2>1, MemoryParts DEF CancelCover
  <2>3. PICK d : d = [cv EXCEPT !.building = i, !.slots[i] = u]
    OBVIOUS
  <2>4. BeginCover(m) = [heap |-> With(b, h1), store |-> d]
    <3>1. HeapForCover(m) = h1
      BY <1>3, <2>1
    <3> QED
      BY <1>1, <1>4, <1>5, <2>2, <2>3, <3>1 DEF BeginCover
  <2>5. d = cv2
    <3>1. PICK f, x, t : f = cv.slots /\ x = cv.active /\ t = cv.titles
      OBVIOUS
    <3>2. cv = [slots |-> f, active |-> x, building |-> 0, titles |-> t]
      BY <3>1, CoverParts
    <3>3. PICK g : g = [f EXCEPT ![i] = u]
      OBVIOUS
    <3>4. d = [cv EXCEPT !.building = i, !.slots = g]
      BY <2>3, <3>2, <3>3
    <3>5. PICK e : e = [cv EXCEPT !.building = i]
      OBVIOUS
    <3>6. e = [slots |-> f, active |-> x, building |-> i, titles |-> t]
      BY <3>2, <3>5
    <3>7. d = [e EXCEPT !.slots = g]
      BY <3>4, <3>5
    <3>8. d = [slots |-> g, active |-> x, building |-> i, titles |-> t]
      BY <3>6, <3>7
    <3> QED
      BY <1>7, <3>1, <3>3, <3>8
  <2> QED
    BY <2>1, <2>4, <2>5 DEF Memory
<1>9. SlotIs(cv2, i, u) /\ OtherSlots(cv2, cv, i) /\ Ends(cv2, cv, cv.active, i, cv.titles)
  <2>1. PICK active \in 0 .. 2, building \in 0 .. 2, titles \in Seq(BookCovers \cup {0}) :
          active = cv.active /\ building = i /\ titles = cv.titles
    BY CoverParts
  <2>2. PICK v \in CoverSlot : v = u
    BY <1>6
  <2>3. cv2 = [slots |-> [cv.slots EXCEPT ![i] = v], active |-> active,
               building |-> building, titles |-> titles]
    BY <1>7, <2>1, <2>2
  <2>4. SlotIs(cv2, i, v) /\ OtherSlots(cv2, cv, i) /\ Ends(cv2, cv, active, building, titles)
    BY <2>3, CoverReplaced
  <2> QED
    BY <2>1, <2>2, <2>4
<1>10. CoverBegun(cv2, cv, i, b)
  BY <1>6, <1>9 DEF CoverBegun, SlotIs
<1>11. Kept(With(b, h1), sh, page, cv2, title)
  <2>1. PICK f : f = [cv.slots EXCEPT ![i] = EmptyCoverSlot]
    OBVIOUS
  <2>2. PICK cv1 : cv1 = [slots |-> f, active |-> cv.active, building |-> 0,
                          titles |-> cv.titles]
    OBVIOUS
  <2>3. /\ cv1.slots[i].data = NoBuffer /\ cv1.titles = cv.titles /\ cv1.building = 0
        /\ \A j \in {1, 2} \ {i} : cv1.slots[j] = cv.slots[j]
    <3>1. cv1.slots = f
      BY <2>2
    <3>2. f[i] = EmptyCoverSlot /\ \A j \in {1, 2} \ {i} : f[j] = cv.slots[j]
      BY <2>1, CoverParts
    <3> QED
      BY <2>2, <3>1, <3>2, EmptyCover
  <2>4. Kept(h1, sh, page, cv1, title)
    <3>1. PICK C, X : C = {i} /\ X = {cv.slots[i].data}
      OBVIOUS
    <3>2. C \in SUBSET {1, 2}
      BY <3>1
    <3>3. CoverFreed(cv1, cv, C)
      BY <2>3, <3>1 DEF CoverFreed
    <3>4. X \ {NoBuffer} = CoverLetGo(cv, C) \ {NoBuffer}
      BY <3>1 DEF CoverLetGo
    <3>5. Kept(Without(X, h), sh, page, cv1, title)
      BY <3>2, <3>3, <3>4, CoverLess
    <3> QED
      BY <1>2, <3>1, <3>5
  <2> DEFINE at == At(sh, cv1)
             at2 == At(sh, cv2)
             text == Text(sh, page, cv1, title)
             text2 == Text(sh, page, cv2, title)
             p == OfBook(i)
  <2>5. p \in Places /\ at[p] = NoBuffer /\ at2[p] = b
    BY <1>10, <2>3, PlacesAre, AtPlaces DEF CoverBegun
  <2>6. text2[p] = <<>>
    <3>1. cv2.slots[i].used = 0 /\ cv2.building = i
      BY <1>10 DEF CoverBegun, Ends
    <3> QED
      BY <3>1, TextPlaces, PartEmpty
  <2>7. \A o \in Places \ {p} : at2[o] = at[o] /\ text2[o] = text[o]
    <3> SUFFICES ASSUME NEW o \in Places \ {p}
                 PROVE  at2[o] = at[o] /\ text2[o] = text[o]
      OBVIOUS
    <3>1. CASE \E t \in ShelfSlots : o = Shown(t)
      BY <3>1, AtPlaces, TextPlaces
    <3>2. CASE \E t \in ShelfSlots : o = Unfinished(t)
      BY <3>2, AtPlaces, TextPlaces
    <3>3. CASE \E j \in {1, 2} : o = OfBook(j)
      <4>1. PICK j \in {1, 2} : o = OfBook(j)
        BY <3>3
      <4>2. j # i
        BY <4>1
      <4>3. cv2.slots[j] = cv1.slots[j] /\ cv2.titles = cv1.titles
        BY <1>9, <2>3, <4>2 DEF OtherSlots, Ends
      <4>4. j # cv1.building /\ j # cv2.building
        BY <1>9, <2>3, <4>2 DEF Ends
      <4> QED
        BY <4>1, <4>3, <4>4, AtPlaces, TextPlaces
    <3> QED
      BY <3>1, <3>2, <3>3, PlaceKinds
  <2> HIDE DEF at, at2, text, text2, p
  <2>8. Stored(h1, at, text)
    BY <2>4 DEF Kept, at, text
  <2>9. Stored(With(b, h1), at2, text2)
    BY <1>4, <2>5, <2>6, <2>7, <2>8, StoredWith
  <2> QED
    BY <2>9 DEF Kept, at2, text2
<1> QED
  BY <1>1, <1>8, <1>10, <1>11

\* A slot that is neither shown nor drawn is emptied.
Evicted(cv2, cv) ==
    /\ Ends(cv2, cv, cv.active, 0, cv.titles)
    /\ \E i \in FreeCoverSlots(cv) : SlotIs(cv2, i, EmptyCoverSlot) /\ OtherSlots(cv2, cv, i)

\* So it is when there is no memory for the new cover.
LEMMA EvictCoverKeeps ==
    ASSUME NEW h, NEW sh, NEW page, NEW cv \in Covers, NEW title,
           Kept(h, sh, page, cv, title), cv.building = 0, FreeCoverSlots(cv) # {}
    PROVE  \E h2, cv2 :
             /\ EvictCover(Memory(h, cv)) = Memory(h2, cv2)
             /\ Kept(h2, sh, page, cv2, title) /\ Evicted(cv2, cv)
<1>1. PICK i \in {1, 2} : i = SlotForCover(cv) /\ i \in FreeCoverSlots(cv)
  BY FirstFree, CoverParts DEF FreeCoverSlots
<1>2. PICK C, X : C = {i} /\ X = {cv.slots[i].data}
  OBVIOUS
<1>3. PICK cv2 : cv2 = [slots |-> [cv.slots EXCEPT ![i] = EmptyCoverSlot],
                        active |-> cv.active, building |-> 0, titles |-> cv.titles]
  OBVIOUS
<1>4. EvictCover(Memory(h, cv)) = Memory(Without(X, h), cv2)
  <2>1. PICK m : m = Memory(h, cv)
    OBVIOUS
  <2>2. m.heap = h /\ m.store = cv
    BY <2>1, MemoryParts
  <2>3. PICK f, x, t : f = cv.slots /\ x = cv.active /\ t = cv.titles
    OBVIOUS
  <2>4. cv = [slots |-> f, active |-> x, building |-> 0, titles |-> t]
    BY <2>3, CoverParts
  <2>5. PICK g : g = [f EXCEPT ![i] = EmptyCoverSlot]
    OBVIOUS
  <2>6. PICK d : d = [cv EXCEPT !.slots[i] = EmptyCoverSlot]
    OBVIOUS
  <2>7. d = [cv EXCEPT !.slots = g]
    BY <2>4, <2>5, <2>6
  <2>8. d = [slots |-> g, active |-> x, building |-> 0, titles |-> t]
    BY <2>4, <2>7
  <2>9. d = cv2
    BY <1>3, <2>3, <2>5, <2>8
  <2>10. EvictCover(m) = [heap |-> Without(X, h), store |-> d]
    BY <1>1, <1>2, <2>2, <2>6 DEF EvictCover, HeapForCover
  <2> QED
    BY <2>1, <2>9, <2>10 DEF Memory
<1>5. SlotIs(cv2, i, EmptyCoverSlot) /\ OtherSlots(cv2, cv, i)
      /\ Ends(cv2, cv, cv.active, 0, cv.titles)
  <2>1. PICK active \in 0 .. 2, building \in 0 .. 2, titles \in Seq(BookCovers \cup {0}) :
          active = cv.active /\ building = 0 /\ titles = cv.titles
    BY CoverParts
  <2>2. PICK u \in CoverSlot : u = EmptyCoverSlot
    BY EmptyCover
  <2>3. cv2 = [slots |-> [cv.slots EXCEPT ![i] = u], active |-> active,
               building |-> building, titles |-> titles]
    BY <1>3, <2>1, <2>2
  <2>4. SlotIs(cv2, i, u) /\ OtherSlots(cv2, cv, i) /\ Ends(cv2, cv, active, building, titles)
    BY <2>3, CoverReplaced
  <2> QED
    BY <2>1, <2>2, <2>4
<1>6. Evicted(cv2, cv)
  BY <1>1, <1>5 DEF Evicted
<1>7. Kept(Without(X, h), sh, page, cv2, title)
  <2>1. C \in SUBSET {1, 2}
    BY <1>2
  <2>2. CoverFreed(cv2, cv, C)
    BY <1>2, <1>5, EmptyCover DEF CoverFreed, SlotIs, OtherSlots, Ends
  <2>3. X \ {NoBuffer} = CoverLetGo(cv, C) \ {NoBuffer}
    BY <1>2 DEF CoverLetGo
  <2> QED
    BY <2>1, <2>2, <2>3, CoverLess
<1> QED
  BY <1>4, <1>6, <1>7

\* The cover being built in slot i is one block longer.
CoverLonger(cv2, cv, i, n) ==
    /\ Ends(cv2, cv, cv.active, i, cv.titles) /\ OtherSlots(cv2, cv, i)
    /\ cv2.slots[i].data = cv.slots[i].data /\ cv2.slots[i].used = n
    /\ cv2.slots[i].references = cv.slots[i].references

\* A block of the book's cover is appended.
LEMMA AppendCoverKeeps ==
    ASSUME NEW h, NEW sh, NEW page, NEW cv \in Covers, NEW title,
           Kept(h, sh, page, cv, title), NEW i \in {1, 2}, cv.building = i,
           cv.slots[i].data # NoBuffer, NEW n \in Nat, n = cv.slots[i].used
    PROVE  \E h2, cv2 :
             /\ AppendCover(Memory(h, cv), title) = Memory(h2, cv2)
             /\ Kept(h2, sh, page, cv2, title) /\ CoverLonger(cv2, cv, i, n + 1)
<1>1. PICK a : a = cv.slots[i].data
  OBVIOUS
<1>2. PICK w \in CoverSlot : w = cv.slots[i]
  BY CoverParts
<1>3. PICK u : u = [w EXCEPT !.used = n + 1]
  OBVIOUS
<1>4. u \in CoverSlot /\ u.data = a /\ u.used = n + 1 /\ u.references = w.references
  BY <1>1, <1>2, <1>3 DEF CoverSlot
<1>5. PICK cv2 : cv2 = [slots |-> [cv.slots EXCEPT ![i] = u], active |-> cv.active,
                        building |-> i, titles |-> cv.titles]
  OBVIOUS
<1>6. SlotIs(cv2, i, u) /\ OtherSlots(cv2, cv, i) /\ Ends(cv2, cv, cv.active, i, cv.titles)
  <2>1. PICK active \in 0 .. 2, building \in 0 .. 2, titles \in Seq(BookCovers \cup {0}) :
          active = cv.active /\ building = i /\ titles = cv.titles
    BY CoverParts
  <2>2. PICK v \in CoverSlot : v = u
    BY <1>4
  <2>3. cv2 = [slots |-> [cv.slots EXCEPT ![i] = v], active |-> active,
               building |-> building, titles |-> titles]
    BY <1>5, <2>1, <2>2
  <2>4. SlotIs(cv2, i, v) /\ OtherSlots(cv2, cv, i) /\ Ends(cv2, cv, active, building, titles)
    BY <2>3, CoverReplaced
  <2> QED
    BY <2>1, <2>2, <2>4
<1>7. CoverLonger(cv2, cv, i, n + 1)
  BY <1>1, <1>2, <1>4, <1>6 DEF CoverLonger, SlotIs
<1>8. OfBook(i) \in Places /\ At(sh, cv)[OfBook(i)] = a
  BY <1>1, PlacesAre, AtPlaces
<1>9. h[a] = Part(title, n)
  <2>1. Text(sh, page, cv, title)[OfBook(i)] = Part(title, n)
    BY TextPlaces
  <2> QED
    BY <1>1, <1>8, <2>1 DEF Kept, Stored
<1>10. PICK block : block = [title |-> title, offset |-> n]
  OBVIOUS
<1>11. Append(h[a], block) = Part(title, n + 1)
  BY <1>9, <1>10, PartLonger
<1>12. PICK h2 : h2 = [h EXCEPT ![a] = Part(title, n + 1)]
  OBVIOUS
<1>13. AppendCover(Memory(h, cv), title) = Memory(h2, cv2)
  <2>1. PICK m : m = Memory(h, cv)
    OBVIOUS
  <2>2. m.heap = h /\ m.store = cv
    BY <2>1, MemoryParts
  <2>3. PICK d : d = [cv EXCEPT !.slots[i].used = n + 1]
    OBVIOUS
  <2>4. [cv EXCEPT !.slots[i].used = @ + 1] = d
    BY <2>3
  <2>5. [h EXCEPT ![a] = Append(@, [title |-> title, offset |-> n])] = h2
    BY <1>10, <1>11, <1>12
  <2>6. AppendCover(m, title) = [heap |-> h2, store |-> d]
    BY <1>1, <2>2, <2>4, <2>5 DEF AppendCover
  <2>7. d = cv2
    <3>1. PICK f, x, t : f = cv.slots /\ x = cv.active /\ t = cv.titles
      OBVIOUS
    <3>2. cv = [slots |-> f, active |-> x, building |-> i, titles |-> t]
      BY <3>1, CoverParts
    <3>3. PICK g : g = [f EXCEPT ![i] = u]
      OBVIOUS
    <3>4. [f EXCEPT ![i].used = n + 1] = g
      BY <1>2, <1>3, <3>1, <3>3
    <3>5. d = [cv EXCEPT !.slots = g]
      BY <2>3, <3>2, <3>4
    <3>6. d = [slots |-> g, active |-> x, building |-> i, titles |-> t]
      BY <3>2, <3>5
    <3> QED
      BY <1>5, <3>1, <3>3, <3>6
  <2> QED
    BY <2>1, <2>6, <2>7 DEF Memory
<1>14. Kept(h2, sh, page, cv2, title)
  <2> DEFINE at == At(sh, cv)
             at2 == At(sh, cv2)
             text == Text(sh, page, cv, title)
             text2 == Text(sh, page, cv2, title)
             p == OfBook(i)
  <2>1. p \in Places /\ at[p] = a /\ a # NoBuffer
    BY <1>1, <1>8
  <2>2. text2[p] = Part(title, n + 1)
    <3>1. cv2.slots[i].used = n + 1 /\ cv2.building = i
      BY <1>7 DEF CoverLonger, Ends
    <3> QED
      BY <3>1, TextPlaces
  <2>3. /\ \A o \in Places : at2[o] = at[o]
        /\ \A o \in Places \ {p} : text2[o] = text[o]
    <3> SUFFICES ASSUME NEW o \in Places
                 PROVE  at2[o] = at[o] /\ (o # p => text2[o] = text[o])
      OBVIOUS
    <3>1. CASE \E t \in ShelfSlots : o = Shown(t)
      BY <3>1, AtPlaces, TextPlaces
    <3>2. CASE \E t \in ShelfSlots : o = Unfinished(t)
      BY <3>2, AtPlaces, TextPlaces
    <3>3. CASE \E j \in {1, 2} : o = OfBook(j)
      <4>1. PICK j \in {1, 2} : o = OfBook(j)
        BY <3>3
      <4>2. at2[o] = at[o]
        <5>1. cv2.slots[j].data = cv.slots[j].data
          BY <1>7 DEF CoverLonger, OtherSlots
        <5> QED
          BY <4>1, <5>1, AtPlaces
      <4>3. ASSUME j # i
            PROVE  text2[o] = text[o]
        <5>1. cv2.slots[j] = cv.slots[j] /\ cv2.titles = cv.titles /\ cv2.building = i
          BY <1>7, <4>3 DEF CoverLonger, OtherSlots, Ends
        <5>2. j # cv.building /\ j # cv2.building
          BY <4>3, <5>1
        <5> QED
          BY <4>1, <5>1, <5>2, TextPlaces
      <4> QED
        BY <4>1, <4>2, <4>3
    <3> QED
      BY <3>1, <3>2, <3>3, PlaceKinds
  <2> HIDE DEF at, at2, text, text2, p
  <2>4. Stored(h, at, text)
    BY DEF Kept, at, text
  <2>5. h2 = [h EXCEPT ![at[p]] = text2[p]]
    BY <1>12, <2>1, <2>2
  <2>6. /\ p \in Places /\ at[p] # NoBuffer /\ \A o \in Places : at2[o] = at[o]
        /\ \A o \in Places \ {p} : at[o] # NoBuffer => text2[o] = text[o]
    BY <2>1, <2>3
  <2>7. Stored([h EXCEPT ![at[p]] = text2[p]], at2, text2)
    BY <2>4, <2>6, StoredWrites, Zenon
  <2>8. Stored(h2, at2, text2)
    BY <2>5, <2>7
  <2> QED
    BY <2>8 DEF Kept, at2, text2
<1> QED
  BY <1>7, <1>13, <1>14

\* The cover that slot i was built with is the one shown.
CoverCommitted(cv2, cv, i, title) ==
    /\ Ends(cv2, cv, i, 0, Append(cv.titles, title)) /\ OtherSlots(cv2, cv, i)
    /\ cv2.slots[i].data = cv.slots[i].data /\ cv2.slots[i].used = cv.slots[i].used
    /\ cv2.slots[i].references = cv.slots[i].references
    /\ cv2.slots[i].generation = Len(cv.titles) + 1

\* A whole cover becomes the one shown.
LEMMA CommitCoverKeeps ==
    ASSUME NEW h, NEW sh, NEW page, NEW cv \in Covers, NEW title \in BookCovers \cup {0},
           Kept(h, sh, page, cv, title), NEW i \in {1, 2}, cv.building = i,
           WholeTitled(cv), ImageValid(cv.slots[i], title)
    PROVE  \E cv2 :
             /\ CommitCover(Memory(h, cv), title) = Memory(h, cv2)
             /\ Kept(h, sh, page, cv2, title) /\ CoverCommitted(cv2, cv, i, title)
<1>1. PICK titles : titles = Append(cv.titles, title)
  OBVIOUS
<1>2. PICK n \in Nat : n = Len(cv.titles)
  BY CoverParts, LenProperties
<1>3. /\ titles \in Seq(BookCovers \cup {0}) /\ titles[n + 1] = title
      /\ \A g \in 1 .. n : titles[g] = cv.titles[g]
  <2>1. PICK S : S = BookCovers \cup {0}
    OBVIOUS
  <2>2. cv.titles \in Seq(S) /\ title \in S
    BY <2>1, CoverParts
  <2>3. /\ titles \in Seq(S) /\ titles[n + 1] = title
        /\ \A g \in 1 .. n : titles[g] = cv.titles[g]
    BY <1>1, <1>2, <2>2, TitlesLonger
  <2> QED
    BY <2>1, <2>3
<1>4. PICK w \in CoverSlot : w = cv.slots[i]
  BY CoverParts
<1>5. PICK u : u = [w EXCEPT !.generation = n + 1]
  OBVIOUS
<1>6. /\ u \in CoverSlot /\ u.data = w.data /\ u.used = w.used
      /\ u.references = w.references /\ u.generation = n + 1
  BY <1>4, <1>5 DEF CoverSlot
<1>7. PICK cv2 : cv2 = [slots |-> [cv.slots EXCEPT ![i] = u], active |-> i,
                        building |-> 0, titles |-> titles]
  OBVIOUS
<1>8. SlotIs(cv2, i, u) /\ OtherSlots(cv2, cv, i) /\ Ends(cv2, cv, i, 0, titles)
  <2>1. PICK active \in 0 .. 2, building \in 0 .. 2, t \in Seq(BookCovers \cup {0}) :
          active = i /\ building = 0 /\ t = titles
    BY <1>3
  <2>2. PICK v \in CoverSlot : v = u
    BY <1>6
  <2>3. cv2 = [slots |-> [cv.slots EXCEPT ![i] = v], active |-> active,
               building |-> building, titles |-> t]
    BY <1>7, <2>1, <2>2
  <2>4. SlotIs(cv2, i, v) /\ OtherSlots(cv2, cv, i) /\ Ends(cv2, cv, active, building, t)
    BY <2>3, CoverReplaced
  <2> QED
    BY <2>1, <2>2, <2>4
<1>9. CoverCommitted(cv2, cv, i, title)
  BY <1>1, <1>2, <1>4, <1>6, <1>8 DEF CoverCommitted, SlotIs
<1>10. CommitCover(Memory(h, cv), title) = Memory(h, cv2)
  <2>1. PICK m : m = Memory(h, cv)
    OBVIOUS
  <2>2. m.heap = h /\ m.store = cv
    BY <2>1, MemoryParts
  <2>3. PICK d : d = [cv EXCEPT !.titles = titles, !.active = i, !.building = 0,
                                !.slots[i].generation = n + 1]
    OBVIOUS
  <2>4. [cv EXCEPT !.titles = Append(@, title), !.active = i, !.building = 0,
                   !.slots[i].generation = n + 1] = d
    BY <1>1, <2>3
  <2>5. CommitCover(m, title) = [heap |-> h, store |-> d]
    BY <1>2, <2>2, <2>4 DEF CommitCover
  <2>6. d = cv2
    <3>1. PICK f, x, t : f = cv.slots /\ x = cv.active /\ t = cv.titles
      OBVIOUS
    <3>2. cv = [slots |-> f, active |-> x, building |-> i, titles |-> t]
      BY <3>1, CoverParts
    <3>3. PICK g : g = [f EXCEPT ![i] = u]
      OBVIOUS
    <3>4. [f EXCEPT ![i].generation = n + 1] = g
      BY <1>4, <1>5, <3>1, <3>3
    <3>5. PICK e : e = [cv EXCEPT !.titles = titles, !.active = i, !.building = 0]
      OBVIOUS
    <3>6. e = [slots |-> f, active |-> i, building |-> 0, titles |-> titles]
      <4>1. PICK e1 : e1 = [cv EXCEPT !.titles = titles]
        OBVIOUS
      <4>2. e1 = [slots |-> f, active |-> x, building |-> i, titles |-> titles]
        BY <3>2, <4>1
      <4>3. PICK e2 : e2 = [e1 EXCEPT !.active = i]
        OBVIOUS
      <4>4. e2 = [slots |-> f, active |-> i, building |-> i, titles |-> titles]
        BY <4>2, <4>3
      <4>5. e = [e2 EXCEPT !.building = 0]
        BY <3>5, <4>1, <4>3
      <4> QED
        BY <4>4, <4>5
    <3>7. d = [e EXCEPT !.slots[i].generation = n + 1]
      BY <2>3, <3>5
    <3>8. d = [e EXCEPT !.slots = g]
      BY <3>4, <3>6, <3>7
    <3>9. d = [slots |-> g, active |-> i, building |-> 0, titles |-> titles]
      BY <3>6, <3>8
    <3> QED
      BY <1>7, <3>1, <3>3, <3>9
  <2> QED
    BY <2>1, <2>5, <2>6 DEF Memory
<1>11. Kept(h, sh, page, cv2, title)
  <2> DEFINE at == At(sh, cv)
             at2 == At(sh, cv2)
             text == Text(sh, page, cv, title)
             text2 == Text(sh, page, cv2, title)
  <2>1. ASSUME NEW o \in Places
        PROVE  at2[o] = at[o] /\ (at[o] # NoBuffer => text2[o] = text[o])
    <3>1. CASE \E t \in ShelfSlots : o = Shown(t)
      BY <3>1, AtPlaces, TextPlaces
    <3>2. CASE \E t \in ShelfSlots : o = Unfinished(t)
      BY <3>2, AtPlaces, TextPlaces
    <3>3. CASE \E j \in {1, 2} : o = OfBook(j)
      <4>1. PICK j \in {1, 2} : o = OfBook(j)
        BY <3>3
      <4>2. cv2.building = 0 /\ cv2.titles = titles /\ cv2.slots[j].used = cv.slots[j].used
            /\ cv2.slots[j].data = cv.slots[j].data
        BY <1>1, <1>9 DEF CoverCommitted, OtherSlots, Ends
      <4>3. at2[o] = at[o]
        BY <4>1, <4>2, AtPlaces
      <4>4. CASE j = i
        <5>1. text[o] = Part(title, cv.slots[j].used)
          BY <4>1, <4>4, TextPlaces
        <5>2. titles[cv2.slots[j].generation] = title
          BY <1>2, <1>3, <1>9, <4>4 DEF CoverCommitted
        <5>3. text2[o] = Part(title, cv.slots[j].used)
          BY <4>1, <4>2, <5>2, TextPlaces
        <5> QED
          BY <4>3, <5>1, <5>3
      <4>5. CASE j # i
        <5>1. cv2.slots[j] = cv.slots[j]
          BY <1>9, <4>5 DEF CoverCommitted, OtherSlots
        <5>2. ASSUME at[o] # NoBuffer
              PROVE  text2[o] = text[o]
          <6>1. cv.slots[j].data # NoBuffer
            BY <4>1, <5>2, AtPlaces
          <6>2. cv.slots[j].generation \in 1 .. n
            BY <1>2, <4>5, <6>1 DEF WholeTitled
          <6>3. titles[cv2.slots[j].generation] = cv.titles[cv.slots[j].generation]
            BY <1>3, <5>1, <6>2
          <6>4. j # cv.building /\ j # cv2.building
            BY <4>2, <4>5
          <6> QED
            BY <4>1, <4>2, <6>3, <6>4, TextPlaces
        <5> QED
          BY <4>3, <5>2
      <4> QED
        BY <4>4, <4>5
    <3> QED
      BY <3>1, <3>2, <3>3, PlaceKinds
  <2> HIDE DEF at, at2, text, text2
  <2>2. Stored(h, at, text)
    BY DEF Kept, at, text
  <2>3. Stored(h, at2, text2)
    <3>1. {at2[o] : o \in Places} = {at[o] : o \in Places}
      BY <2>1
    <3>2. \A o \in Places : at2[o] # NoBuffer => h[at2[o]] = text2[o]
      BY <2>1, <2>2 DEF Stored
    <3>3. \A o, q \in Places : at2[o] = at2[q] => o = q \/ at2[o] = NoBuffer
      BY <2>1, <2>2 DEF Stored
    <3> QED
      BY <2>2, <3>1, <3>2, <3>3 DEF Stored
  <2> QED
    BY <2>3 DEF Kept, at2, text2
<1> QED
  BY <1>9, <1>10, <1>11

-----------------------------------------------------------------------------
(* The steps of the shelf.                                                 *)

NothingBuilt(sh) == \A s \in ShelfSlots : sh.slots[s].building = NoBuffer
\* The shelf between two requests.
Between(sh, b, queue) ==
    /\ b \in BooksShape /\ queue \in Seq(CoverBlock)
    /\ ~ b.request.busy /\ ~ b.request.started
    /\ ReadsKnown(queue, b) /\ Counted(sh, b) /\ Titled(sh, b)

\* The elements of a queue,
LEMMA SequenceOf ==
    ASSUME NEW S, NEW q \in Seq(S)
    PROVE  /\ Len(q) \in Nat /\ DOMAIN q = 1 .. Len(q)
           /\ \A k \in 1 .. Len(q) : q[k] \in S
BY LenProperties, ElementOfSeq

\* and of what follows its head.
LEMMA TailIs ==
    ASSUME NEW S, NEW q \in Seq(S), q # <<>>
    PROVE  /\ Head(q) = q[1] /\ Head(q) \in S /\ 1 \in 1 .. Len(q)
           /\ Tail(q) \in Seq(S)
           /\ \A k \in 1 .. Len(Tail(q)) : k + 1 \in 1 .. Len(q) /\ Tail(q)[k] = q[k + 1]
<1>1. PICK n \in Nat : n = Len(q)
  BY LenProperties
<1>2. n # 0
  BY <1>1, EmptySeq
<1>3. /\ Head(q) \in S /\ Head(q) = q[1] /\ Tail(q) \in Seq(S) /\ Len(Tail(q)) = n - 1
      /\ \A k \in 1 .. n - 1 : Tail(q)[k] = q[k + 1]
  BY <1>1, HeadTailProperties
<1> QED
  BY <1>1, <1>2, <1>3

\* The types of the books app's state.
LEMMA BooksParts ==
    ASSUME NEW b \in BooksShape
    PROVE  /\ b.page \in ShelfPages \cup {0} /\ b.generations \in [ShelfSlots -> Nat]
           /\ b.request \in CoverRequest /\ b.lastRead \in Nat
           /\ b = [page |-> b.page, generations |-> b.generations,
                   request |-> b.request, lastRead |-> b.lastRead]
BY DEF BooksShape

\* A block is asked for, and waits behind the ones of the queue.
OfPlace(e, page, s) == [e EXCEPT !.title = OnPage(page, s)]
AskedOf(sh, b, s, started, b2, q2, e) ==
    /\ b2 \in BooksShape /\ q2 \in Seq(CoverBlock)
    /\ b2.page = b.page /\ b2.generations = b.generations
    /\ b2.request.busy /\ b2.request.slot = s
    /\ b2.request.started = started
    /\ ReadsKnown(q2, b2) /\ Counted(sh, b2)
    /\ BlockAsked(b2) = e
\* A block that is asked for is the last of the queue, and answers the request.
LEMMA AskedNext ==
    ASSUME NEW sh \in Shelf, NEW b \in BooksShape, b.page # 0, b.lastRead < MaxReads,
           Len(sh.titles) <= b.lastRead,
           NEW queue \in Seq(CoverBlock), ReadsKnown(queue, b),
           NEW s \in ShelfSlots, NEW started \in BOOLEAN, NEW offset \in Nat,
           NEW b2, b2 = Asked(b, s, started, offset),
           NEW e, e = OfPlace(BlockAsked(b2), b.page, s),
           NEW q2, q2 = Append(queue, e)
    PROVE  AskedOf(sh, b, s, started, b2, q2, e)
<1>1. PICK p, g, r, n : p = b.page
                        /\ g = b.generations /\ r = b.request /\ n = b.lastRead
  OBVIOUS
<1>2. /\ n \in Nat /\ p \in ShelfPages /\ p # 0 /\ g \in [ShelfSlots -> Nat]
      /\ b = [page |-> p, generations |-> g, request |-> r, lastRead |-> n]
  BY <1>1, BooksParts
<1>3. PICK r2 : r2 = [busy |-> TRUE, slot |-> s, started |-> started, offset |-> offset]
  OBVIOUS
<1>4. /\ r2 \in CoverRequest /\ r2.busy /\ r2.slot = s /\ r2.started = started
      /\ r2.offset = offset
  BY <1>3, CoverAssumption DEF CoverRequest
<1>5. PICK c : c = [b EXCEPT !.lastRead = n + 1]
  OBVIOUS
<1>6. c = [page |-> p, generations |-> g, request |-> r, lastRead |-> n + 1]
  BY <1>2, <1>5
<1>7. PICK d : d = [page |-> p, generations |-> g, request |-> r2, lastRead |-> n + 1]
  OBVIOUS
<1>8. b2 = d
  <2>1. b2 = [b EXCEPT !.lastRead = n + 1, !.request = r2]
    BY <1>1, <1>3 DEF Asked
  <2>2. b2 = [c EXCEPT !.request = r2]
    BY <1>5, <2>1
  <2> QED
    BY <1>6, <1>7, <2>2
<1>9. /\ b2 \in BooksShape /\ b2.page = p /\ b2.generations = g /\ b2.request = r2
      /\ b2.lastRead = n + 1
  <2>1. d \in BooksShape
    BY <1>2, <1>4, <1>7 DEF BooksShape
  <2>2. d.page = p /\ d.generations = g /\ d.request = r2 /\ d.lastRead = n + 1
    BY <1>7
  <2> QED
    BY <1>8, <2>1, <2>2
<1>10. PICK e0 : e0 = [id |-> n + 1, title |-> OnPage(p, s), offset |-> offset]
  OBVIOUS
<1>11. BlockAsked(b2) = e0
  BY <1>4, <1>9, <1>10 DEF BlockAsked, OnPage
<1>12. e = e0
  BY <1>1, <1>10, <1>11 DEF OfPlace
<1>13. e \in CoverBlock /\ e.id = n + 1 /\ e.title = OnPage(p, s)
  <2>1. OnPage(p, s) \in ShelfTitles
    BY <1>2 DEF OnPage, ShelfTitles
  <2>2. e0 \in CoverBlock /\ e0.id = n + 1 /\ e0.title = OnPage(p, s)
    BY <1>2, <1>10, <2>1 DEF CoverBlock
  <2> QED
    BY <1>12, <2>2
<1>14. PICK k \in Nat : k = Len(queue)
  BY LenProperties
<1>15. /\ q2 \in Seq(CoverBlock) /\ Len(q2) = k + 1 /\ q2[k + 1] = e
       /\ \A i \in 1 .. k : q2[i] = queue[i]
  BY <1>13, <1>14, AppendProperties
<1>16. ReadsKnown(q2, b2)
  <2> SUFFICES ASSUME NEW i \in 1 .. k + 1
               PROVE  /\ q2[i].id <= n + 1
                      /\ q2[i].id = n + 1 => q2[i].title = OnPage(p, s)
    BY <1>4, <1>9, <1>15 DEF ReadsKnown
  <2>1. CASE i = k + 1
    BY <1>2, <1>13, <1>15, <2>1
  <2>2. CASE i # k + 1
    <3>1. i \in 1 .. k /\ queue[i] \in CoverBlock
      BY <1>14, <2>2, SequenceOf
    <3>2. queue[i].id <= n
      BY <1>1, <1>14, <3>1 DEF ReadsKnown
    <3>3. PICK j \in Nat : j = queue[i].id
      BY <3>1 DEF CoverBlock
    <3> QED
      BY <1>2, <1>15, <3>1, <3>2, <3>3
  <2> QED
    BY <2>1, <2>2
<1>17. Counted(sh, b2)
  <2>1. PICK m \in Nat : m = Len(sh.titles)
    BY ShelfParts, LenProperties
  <2>2. n + 1 <= MaxReads /\ m + 1 <= n + 1
    BY <1>1, <1>2, <2>1, CoverAssumption
  <2> QED
    BY <1>4, <1>9, <2>1, <2>2 DEF Counted
<1>18. b2.request.busy /\ b2.request.slot = s /\ b2.request.started = started
  BY <1>4, <1>9
<1> QED
  BY <1>1, <1>9, <1>11, <1>12, <1>15, <1>16, <1>17, <1>18 DEF AskedOf

\* What a search for the next cover does.
LEMMA NextCover ==
    ASSUME NEW sh \in Shelf, NEW b, NEW queue, Between(sh, b, queue),
           NothingBuilt(sh), StartNextCover(b, queue)
    PROVE  \E b2, q2 :
             /\ books' = b2 /\ reads' = q2 /\ b2 \in BooksShape /\ q2 \in Seq(CoverBlock)
             /\ b2.page = b.page /\ ~ b2.request.started
             /\ ReadsKnown(q2, b2) /\ Counted(sh, b2) /\ Titled(sh, b2)
             /\ b2.request.busy => b2.page # 0
<1>1. /\ b \in BooksShape /\ queue \in Seq(CoverBlock)
      /\ ~ b.request.busy /\ ~ b.request.started
      /\ ReadsKnown(queue, b) /\ Counted(sh, b) /\ Titled(sh, b)
  BY DEF Between
<1>2. CASE books' = b /\ reads' = queue
  BY <1>1, <1>2
<1>3. CASE /\ ~ b.request.busy /\ Wanted(b) # {}
           /\ \E refused \in SUBSET Wanted(b) :
                LET left == Wanted(b) \ refused
                    given == [b EXCEPT !.generations =
                       [s \in ShelfSlots |-> IF s \in refused THEN GivenUp ELSE @[s]]]
                IN  /\ \A s \in refused, t \in left : s < t
                    /\ \/ left = {} /\ books' = given /\ reads' = queue
                       \/ \E next \in left :
                            /\ \A t \in left : next <= t
                            /\ MayAsk(given, queue)
                            /\ books' = Asked(given, next, FALSE, 0)
                            /\ reads' = Append(queue, BlockAsked(books'))
  <2>1. PICK refused, f, given :
          /\ f = [s \in ShelfSlots |-> IF s \in refused THEN GivenUp ELSE b.generations[s]]
          /\ given = [b EXCEPT !.generations = f]
          /\ \/ books' = given /\ reads' = queue
             \/ \E next \in Wanted(b) :
                  /\ MayAsk(given, queue)
                  /\ books' = Asked(given, next, FALSE, 0)
                  /\ reads' = Append(queue, BlockAsked(books'))
    BY <1>3
  <2>2. PICK p, g, r, n : p = b.page /\ g = b.generations /\ r = b.request /\ n = b.lastRead
    OBVIOUS
  <2>3. /\ n \in Nat /\ p \in ShelfPages /\ p # 0 /\ g \in [ShelfSlots -> Nat] /\ r \in CoverRequest
        /\ b = [page |-> p, generations |-> g, request |-> r, lastRead |-> n]
    BY <1>1, <1>3, <2>2, BooksParts DEF Wanted
  <2>4. given = [page |-> p, generations |-> f, request |-> r, lastRead |-> n]
    BY <2>1, <2>3
  <2>5. /\ given \in BooksShape /\ given.page = p /\ given.generations = f
        /\ given.request = r /\ given.lastRead = n
    <3>1. f \in [ShelfSlots -> Nat]
      BY <2>1, <2>2, <2>3, CoverAssumption
    <3> QED
      BY <2>3, <2>4, <3>1 DEF BooksShape
  <2>6. ReadsKnown(queue, given) /\ Counted(sh, given)
    BY <1>1, <2>2, <2>5 DEF ReadsKnown, Counted
  <2>7. Titled(sh, given)
    <3>1. PICK k \in Nat : k = Len(sh.titles)
      BY ShelfParts, LenProperties
    <3>2. k <= n /\ n <= MaxReads
      BY <1>1, <2>2, <3>1 DEF Counted
    <3>3. GivenUp \notin 1 .. k
      BY <2>3, <3>2, CoverAssumption
    <3> SUFFICES ASSUME NEW s \in ShelfSlots
                 PROVE  /\ given.generations[s] <= k \/ given.generations[s] = GivenUp
                        /\ given.generations[s] \in 1 .. k =>
                              given.page = 0
                              \/ sh.titles[given.generations[s]] = OnPage(given.page, s)
      BY <3>1 DEF Titled
    <3>4. given.generations[s] \in {GivenUp, b.generations[s]}
      BY <2>1, <2>5
    <3>5. CASE given.generations[s] = GivenUp
      BY <3>3, <3>5
    <3>6. CASE given.generations[s] = b.generations[s]
      BY <1>1, <2>2, <2>5, <3>1, <3>6 DEF Titled
    <3> QED
      BY <3>4, <3>5, <3>6
  <2>8. CASE books' = given /\ reads' = queue
    BY <1>1, <2>2, <2>5, <2>6, <2>7, <2>8
  <2>9. CASE \E next \in Wanted(b) :
               /\ MayAsk(given, queue)
               /\ books' = Asked(given, next, FALSE, 0)
               /\ reads' = Append(queue, BlockAsked(books'))
    <3>1. PICK s, b2, e :
            /\ s \in ShelfSlots /\ n < MaxReads
            /\ b2 = Asked(given, s, FALSE, 0) /\ books' = b2
            /\ e = BlockAsked(b2) /\ reads' = Append(queue, e)
      BY <2>5, <2>9 DEF Wanted, MayAsk
    <3>2. PICK e2 : e2 = OfPlace(BlockAsked(b2), given.page, s)
      OBVIOUS
    <3>3. PICK q2 : q2 = Append(queue, e2)
      OBVIOUS
    <3>5. Len(sh.titles) <= given.lastRead /\ ~ given.request.busy
      BY <1>1, <2>2, <2>5, <2>6 DEF Counted
    <3>6. /\ b2 \in BooksShape /\ q2 \in Seq(CoverBlock)
          /\ b2.page = given.page /\ b2.generations = given.generations
          /\ b2.request.started = FALSE
          /\ ReadsKnown(q2, b2) /\ Counted(sh, b2) /\ BlockAsked(b2) = e2
      <4>1. PICK started \in BOOLEAN, offset \in Nat : started = FALSE /\ offset = 0
        OBVIOUS
      <4>2. b2 = Asked(given, s, started, offset) /\ s \in ShelfSlots
        BY <3>1, <4>1
      <4>3. given \in BooksShape /\ given.page # 0 /\ given.lastRead < MaxReads
        BY <2>3, <2>5, <3>1
      <4>4. AskedOf(sh, given, s, started, b2, q2, e2)
        BY <1>1, <2>6, <3>2, <3>3, <3>5, <4>2, <4>3, AskedNext
      <4> QED
        BY <4>1, <4>4 DEF AskedOf
    <3>7. Titled(sh, b2)
      BY <2>7, <3>6 DEF Titled
    <3> QED
      BY <2>2, <2>3, <2>5, <3>1, <3>3, <3>6, <3>7
  <2> QED
    BY <2>1, <2>8, <2>9
<1> QED
  BY <1>2, <1>3 DEF StartNextCover

\* What speaks only of the covers shown holds while they stay,
LEMMA ShownSame ==
    ASSUME NEW sh, NEW sh2, SameShown(sh2, sh)
    PROVE  /\ ShelfTitled(sh) => ShelfTitled(sh2)
           /\ \A le, cv : Lent(le, sh, cv) => Lent(le, sh2, cv)
           /\ \A b : /\ Counted(sh, b) => Counted(sh2, b)
                     /\ Titled(sh, b) => Titled(sh2, b)
<1>1. ShelfTitled(sh) => ShelfTitled(sh2)
  BY DEF SameShown, ShelfTitled
<1>2. ASSUME NEW le, NEW cv, Lent(le, sh, cv)
      PROVE  Lent(le, sh2, cv)
  BY <1>2 DEF SameShown, Lent
<1>3. \A b : (Counted(sh, b) => Counted(sh2, b)) /\ (Titled(sh, b) => Titled(sh2, b))
  BY DEF SameShown, Counted, Titled
<1> QED
  BY <1>1, <1>2, <1>3

\* or are cleared.
LEMMA ClearedShown ==
    ASSUME NEW sh, NEW sh2, Cleared(sh2, sh)
    PROVE  /\ ShelfTitled(sh) => ShelfTitled(sh2)
           /\ \A le, cv : Lent(le, sh, cv) => Lent(le, sh2, cv)
           /\ \A b : /\ Counted(sh, b) => Counted(sh2, b)
                     /\ Titled(sh, b) => Titled(sh2, b)
           /\ NothingBuilt(sh2)
<1>1. ShelfTitled(sh) => ShelfTitled(sh2)
  BY DEF Cleared, ShelfTitled
<1>2. ASSUME NEW le, NEW cv, Lent(le, sh, cv)
      PROVE  Lent(le, sh2, cv)
  <2>1. le.store = "books" => /\ le.slot \in ShelfSlots
                              /\ sh.slots[le.slot].references = 1
    BY <1>2 DEF Lent
  <2>2. le.store = "books" => /\ sh2.slots[le.slot].active = sh.slots[le.slot].active
                              /\ sh2.slots[le.slot].generation = sh.slots[le.slot].generation
    BY <2>1 DEF Cleared
  <2>3. \A s \in ShelfSlots : sh2.slots[s].references = sh.slots[s].references
    BY DEF Cleared
  <2> QED
    BY <1>2, <2>2, <2>3 DEF Lent
<1>3. \A b : (Counted(sh, b) => Counted(sh2, b)) /\ (Titled(sh, b) => Titled(sh2, b))
  BY DEF Cleared, Counted, Titled
<1>4. NothingBuilt(sh2)
  BY DEF Cleared, NothingBuilt
<1> QED
  BY <1>1, <1>2, <1>3, <1>4

\* A request that is cancelled leaves nothing built.
LEMMA CancelledKeeps ==
    ASSUME CoversInv
    PROVE  \E h2, sh2 :
             /\ CancelledRequest(ShelfMemory, books) = Memory(h2, sh2)
             /\ sh2 \in Shelf /\ Kept(h2, sh2, books.page, cover, novel.title)
             /\ SameShown(sh2, shelf) /\ NothingBuilt(sh2)
<1>1. /\ shelf \in Shelf /\ Kept(heap, shelf, books.page, cover, novel.title)
      /\ BuiltForRequest(shelf, books)
  BY DEF CoversInv, CoversFit, CoverShape
<1>2. ShelfMemory = Memory(heap, shelf)
  BY DEF ShelfMemory, Memory
<1>3. CASE books.request.started
  <2>1. PICK s \in ShelfSlots : s = books.request.slot
    BY <1>3 DEF CoversInv, CoversFit, NovelFits, Counted
  <2>2. PICK h2, sh2 :
          /\ CancelShelf(Memory(heap, shelf), s) = Memory(h2, sh2)
          /\ Kept(h2, sh2, books.page, cover, novel.title)
          /\ Rebuilt(sh2, shelf, s, NoBuffer, 0)
    <3>1. PICK h, page, cv, title :
            h = heap /\ page = books.page /\ cv = cover /\ title = novel.title
      OBVIOUS
    <3>2. PICK sh \in Shelf : sh = shelf
      BY <1>1
    <3>3. Kept(h, sh, page, cv, title)
      BY <1>1, <3>1, <3>2
    <3>4. \E h2, sh2 :
            /\ CancelShelf(Memory(h, sh), s) = Memory(h2, sh2)
            /\ Kept(h2, sh2, page, cv, title) /\ Rebuilt(sh2, sh, s, NoBuffer, 0)
      BY <3>3, CancelShelfKeeps
    <3> QED
      BY <3>1, <3>2, <3>4
  <2>3. NothingBuilt(sh2)
    BY <1>1, <2>1, <2>2 DEF NothingBuilt, BuiltForRequest, Rebuilt, SameBuilt, Building
  <2>4. CancelledRequest(ShelfMemory, books) = Memory(h2, sh2)
    BY <1>2, <1>3, <2>1, <2>2 DEF CancelledRequest
  <2> QED
    BY <2>2, <2>3, <2>4 DEF Rebuilt
<1>4. CASE ~ books.request.started
  <2>1. NothingBuilt(shelf)
    BY <1>1, <1>4 DEF NothingBuilt, BuiltForRequest
  <2>2. SameShown(shelf, shelf)
    BY DEF SameShown
  <2> QED
    BY <1>1, <1>2, <1>4, <2>1, <2>2 DEF CancelledRequest
<1> QED
  BY <1>3, <1>4

\* With nothing built, the shelf may show another page.
LEMMA KeptOnPage ==
    ASSUME NEW h, NEW sh, NEW page, NEW cv, NEW title, Kept(h, sh, page, cv, title),
           NothingBuilt(sh), NEW page2
    PROVE  Kept(h, sh, page2, cv, title)
BY KeptElsewhere DEF NothingBuilt

\* The queue without its head is known as well,
LEMMA TailKnown ==
    ASSUME NEW b, NEW queue \in Seq(CoverBlock), queue # <<>>, ReadsKnown(queue, b)
    PROVE  Tail(queue) \in Seq(CoverBlock) /\ ReadsKnown(Tail(queue), b)
<1>1. /\ Tail(queue) \in Seq(CoverBlock)
      /\ \A k \in 1 .. Len(Tail(queue)) :
            k + 1 \in 1 .. Len(queue) /\ Tail(queue)[k] = queue[k + 1]
  BY TailIs
<1> QED
  BY <1>1 DEF ReadsKnown

\* and no answer is for an app that waits for none.
LEMMA ReadsOfOther ==
    ASSUME NEW b, NEW b2, NEW queue, ReadsKnown(queue, b), b2.lastRead = b.lastRead,
           ~ b2.request.busy
    PROVE  ReadsKnown(queue, b2)
BY DEF ReadsKnown

\* A change of page or of covers, without a request, and then the next search.
LEMMA ShelfMoves ==
    ASSUME CoversInv, NEW h, NEW sh \in Shelf, NEW b \in BooksShape,
           Kept(h, sh, b.page, cover, novel.title), NothingBuilt(sh),
           ShelfTitled(sh), Lent(lease, sh, cover), NEW queue, Between(sh, b, queue),
           heap' = h, shelf' = sh, StartNextCover(b, queue), ~ novel.open,
           UNCHANGED <<cover, novel, lease>>
    PROVE  CoversInv'
<1>1. PICK b2, q2 :
        /\ books' = b2 /\ reads' = q2 /\ b2 \in BooksShape /\ q2 \in Seq(CoverBlock)
        /\ b2.page = b.page /\ ~ b2.request.started
        /\ ReadsKnown(q2, b2) /\ Counted(sh, b2) /\ Titled(sh, b2)
  BY NextCover
<1>2. PICK cv, no, le : cv = cover /\ no = novel /\ le = lease
  OBVIOUS
<1>3. CoverShape(sh, b2, q2, cv, no, le) /\ CoverTitled(cv)
  BY <1>1, <1>2 DEF CoversInv, CoversFit, CoverShape
<1>4. Kept(h, sh, b2.page, cv, no.title)
  BY <1>1, <1>2
<1>5. BuiltForRequest(sh, b2)
  BY DEF NothingBuilt, BuiltForRequest
<1>6. NovelFits(no, b2, cv)
  BY <1>1, <1>2 DEF CoversInv, CoversFit, NovelFits
<1>7. CoversFit(h, sh, b2, q2, cv, no, le)
  BY <1>1, <1>2, <1>3, <1>4, <1>5, <1>6 DEF CoversFit
<1> QED
  BY <1>1, <1>2, <1>7 DEF CoversInv

\* No request is one that is not under way.
LEMMA NoRequest ==
    /\ NoCoverRequest \in CoverRequest
    /\ ~ NoCoverRequest.busy /\ ~ NoCoverRequest.started
BY DEF NoCoverRequest, CoverRequest

\* A page is loaded: the shelf is cleared first.
LEMMA LoadPageKeeps ==
    ASSUME CoversInv, LoadPage
    PROVE  CoversInv'
<1>1. PICK h1, sh1 :
        /\ CancelledRequest(ShelfMemory, books) = Memory(h1, sh1)
        /\ sh1 \in Shelf /\ Kept(h1, sh1, books.page, cover, novel.title)
        /\ SameShown(sh1, shelf) /\ NothingBuilt(sh1)
  BY CancelledKeeps
<1>2. PICK h, sh :
        /\ ClearShelf(Memory(h1, sh1)) = Memory(h, sh)
        /\ Kept(h, sh, books.page, cover, novel.title) /\ Cleared(sh, sh1)
  BY <1>1, ClearShelfKeeps
<1>3. /\ shelf \in Shelf /\ books \in BooksShape /\ reads \in Seq(CoverBlock)
      /\ ShelfTitled(shelf) /\ Lent(lease, shelf, cover)
      /\ ReadsKnown(reads, books) /\ Counted(shelf, books)
  BY DEF CoversInv, CoversFit, CoverShape
<1>4. /\ ShelfTitled(sh) /\ Lent(lease, sh, cover) /\ Counted(sh, books)
      /\ NothingBuilt(sh) /\ sh \in Shelf
  <2>1. ShelfTitled(sh1) /\ Lent(lease, sh1, cover) /\ Counted(sh1, books)
    BY <1>1, <1>3, ShownSame
  <2>2. ShelfTitled(sh) /\ Lent(lease, sh, cover) /\ Counted(sh, books) /\ NothingBuilt(sh)
    BY <1>2, <2>1, ClearedShown
  <2> QED
    BY <1>2, <2>2 DEF Cleared
<1>5. PICK p, b :
        /\ p \in ShelfPages \cup {0}
        /\ b = [books EXCEPT !.page = p, !.request = NoCoverRequest,
                             !.generations = [s \in ShelfSlots |-> 0]]
        /\ heap' = h /\ shelf' = sh /\ StartNextCover(b, reads)
        /\ ~ novel.open /\ UNCHANGED <<cover, novel, lease>>
  <2>1. PICK p :
          /\ p \in ShelfPages \cup {0}
          /\ SetShelf(ClearShelf(CancelledRequest(ShelfMemory, books)))
          /\ StartNextCover([books EXCEPT !.page = p, !.request = NoCoverRequest,
                                          !.generations = [s \in ShelfSlots |-> 0]], reads)
    BY DEF LoadPage
  <2>2. ClearShelf(CancelledRequest(ShelfMemory, books)) = Memory(h, sh)
    BY <1>1, <1>2
  <2>3. heap' = h /\ shelf' = sh
    BY <2>1, <2>2, MemoryParts DEF SetShelf
  <2>4. ~ novel.open /\ UNCHANGED <<cover, novel, lease>>
    BY DEF LoadPage
  <2>5. PICK b : b = [books EXCEPT !.page = p, !.request = NoCoverRequest,
                             !.generations = [s \in ShelfSlots |-> 0]]
    OBVIOUS
  <2>6. StartNextCover(b, reads)
    BY <2>1, <2>5
  <2> QED
    BY <2>1, <2>3, <2>4, <2>5, <2>6
<1>6. PICK g : g = [s \in ShelfSlots |-> 0]
  OBVIOUS
<1>7. PICK n \in Nat : n = books.lastRead
  BY <1>3, BooksParts
<1>8. b = [page |-> p, generations |-> g, request |-> NoCoverRequest, lastRead |-> n]
  <2>1. PICK x, y, z : x = books.page /\ y = books.generations /\ z = books.request
    OBVIOUS
  <2>2. PICK c : c = books
    OBVIOUS
  <2>3. c = [page |-> x, generations |-> y, request |-> z, lastRead |-> n]
    BY <1>3, <1>7, <2>1, <2>2, BooksParts
  <2>4. PICK no : no = NoCoverRequest
    OBVIOUS
  <2>5. b = [c EXCEPT !.page = p, !.request = no, !.generations = g]
    BY <1>5, <1>6, <2>2, <2>4
  <2>6. PICK d : d = [c EXCEPT !.page = p]
    OBVIOUS
  <2>7. d = [page |-> p, generations |-> y, request |-> z, lastRead |-> n]
    BY <2>3, <2>6
  <2>8. PICK e : e = [d EXCEPT !.request = no]
    OBVIOUS
  <2>9. e = [page |-> p, generations |-> y, request |-> no, lastRead |-> n]
    BY <2>7, <2>8
  <2>10. b = [e EXCEPT !.generations = g]
    BY <2>5, <2>6, <2>8
  <2>11. b = [page |-> p, generations |-> g, request |-> no, lastRead |-> n]
    BY <2>9, <2>10
  <2> QED
    BY <2>4, <2>11
<1>9. /\ b.page = p /\ b.generations = g /\ b.request = NoCoverRequest /\ b.lastRead = n
      /\ b \in BooksShape
  <2>1. g \in [ShelfSlots -> Nat]
    BY <1>6
  <2> QED
    <3>1. PICK no \in CoverRequest : no = NoCoverRequest
      BY NoRequest
    <3>2. b = [page |-> p, generations |-> g, request |-> no, lastRead |-> n]
      BY <1>8, <3>1
    <3>3. b \in BooksShape
      BY <1>5, <2>1, <3>2 DEF BooksShape
    <3> QED
      BY <3>1, <3>2, <3>3
<1>10. Between(sh, b, reads)
  <2>1. ~ b.request.busy /\ ~ b.request.started
    BY <1>9, NoRequest
  <2>2. ReadsKnown(reads, b)
    BY <1>3, <1>7, <1>9, <2>1, ReadsOfOther
  <2>3. Counted(sh, b)
    <3>1. PICK k \in Nat : k = Len(sh.titles)
      BY <1>4, ShelfParts, LenProperties
    <3>2. k <= n /\ n <= MaxReads
      <4>1. PICK z \in {0, 1} : z = IF books.request.busy THEN 1 ELSE 0
        OBVIOUS
      <4>2. k + z <= n /\ n <= MaxReads
        BY <1>4, <1>7, <3>1, <4>1 DEF Counted
      <4> QED
        <5>1. n \in Nat /\ k \in Nat /\ z \in Nat
          BY <1>7, <3>1, <4>1
        <5>2. k <= n
          BY <4>2, <5>1
        <5> QED
          BY <4>2, <5>2
    <3> QED
      BY <1>9, <2>1, <3>1, <3>2 DEF Counted
  <2>4. Titled(sh, b)
    <3>1. PICK k \in Nat : k = Len(sh.titles)
      BY <1>4, ShelfParts, LenProperties
    <3> QED
      BY <1>6, <1>9, <3>1 DEF Titled
  <2> QED
    BY <1>3, <1>9, <2>1, <2>2, <2>3, <2>4 DEF Between
<1>11. Kept(h, sh, b.page, cover, novel.title)
  BY <1>2, <1>4, KeptOnPage
<1> QED
  BY <1>4, <1>5, <1>9, <1>10, <1>11, ShelfMoves

\* The card is lost: the request is left, but its answer has no page.
LEMMA LoseCardKeeps ==
    ASSUME CoversInv, LoseCard
    PROVE  CoversInv'
<1>1. /\ shelf \in Shelf /\ books \in BooksShape /\ reads \in Seq(CoverBlock)
      /\ ShelfTitled(shelf) /\ Lent(lease, shelf, cover) /\ CoverTitled(cover)
      /\ ReadsKnown(reads, books) /\ Counted(shelf, books) /\ NovelFits(novel, books, cover)
      /\ Kept(heap, shelf, books.page, cover, novel.title)
      /\ cover \in Covers /\ novel \in NovelShape /\ lease \in LeaseShape
  BY DEF CoversInv, CoversFit, CoverShape
<1>2. PICK h, sh :
        /\ ClearShelf(Memory(heap, shelf)) = Memory(h, sh)
        /\ Kept(h, sh, books.page, cover, novel.title) /\ Cleared(sh, shelf)
  BY <1>1, ClearShelfKeeps
<1>3. PICK b : b = [books EXCEPT !.page = 0]
  OBVIOUS
<1>4. /\ heap' = h /\ shelf' = sh /\ books' = b
      /\ UNCHANGED <<reads, cover, novel, lease>>
  BY <1>2, <1>3, MemoryParts DEF LoseCard, SetShelf, ShelfMemory, Memory
<1>5. /\ b \in BooksShape /\ b.page = 0 /\ b.request = books.request
      /\ b.lastRead = books.lastRead /\ b.generations = books.generations
  BY <1>1, <1>3 DEF BooksShape
<1>6. /\ ShelfTitled(sh) /\ Lent(lease, sh, cover) /\ Counted(sh, books)
      /\ NothingBuilt(sh)
  BY <1>1, <1>2, ClearedShown
<1>7. sh \in Shelf
  BY <1>2 DEF Cleared
<1>8. ReadsKnown(reads, b) /\ Counted(sh, b) /\ Titled(sh, b) /\ BuiltForRequest(sh, b)
  <2>1. ReadsKnown(reads, b) /\ Counted(sh, b) /\ BuiltForRequest(sh, b)
    BY <1>1, <1>5, <1>6 DEF ReadsKnown, Counted, BuiltForRequest, NothingBuilt
  <2>2. Titled(sh, books)
    BY <1>2, ClearedShown DEF CoversInv, CoversFit
  <2>3. Titled(sh, b)
    BY <1>5, <2>2 DEF Titled
  <2> QED
    BY <2>1, <2>3
<1>9. NovelFits(novel, b, cover)
  BY <1>1, <1>5 DEF NovelFits
<1>10. Kept(h, sh, b.page, cover, novel.title)
  BY <1>2, <1>6, KeptOnPage
<1>11. CoversFit(h, sh, b, reads, cover, novel, lease)
  BY <1>1, <1>5, <1>6, <1>7, <1>8, <1>9, <1>10 DEF CoversFit, CoverShape
<1> QED
  BY <1>4, <1>11 DEF CoversInv

\* The next cover is looked for.
LEMMA LookForCoverKeeps ==
    ASSUME CoversInv, LookForCover
    PROVE  CoversInv'
<1>1. /\ shelf \in Shelf /\ books \in BooksShape /\ reads \in Seq(CoverBlock)
      /\ ShelfTitled(shelf) /\ Lent(lease, shelf, cover)
      /\ ReadsKnown(reads, books) /\ Counted(shelf, books) /\ Titled(shelf, books)
      /\ Kept(heap, shelf, books.page, cover, novel.title)
      /\ BuiltForRequest(shelf, books) /\ NovelFits(novel, books, cover)
  BY DEF CoversInv, CoversFit, CoverShape
<1>2. ~ books.request.busy /\ ~ books.request.started /\ ~ novel.open
  BY <1>1 DEF LookForCover, NovelFits
<1>3. NothingBuilt(shelf) /\ Between(shelf, books, reads)
  BY <1>1, <1>2 DEF NothingBuilt, BuiltForRequest, Between
<1>4. PICK h, sh, b, queue : h = heap /\ sh = shelf /\ b = books /\ queue = reads
  OBVIOUS
<1>5. /\ heap' = h /\ shelf' = sh /\ StartNextCover(b, queue)
      /\ UNCHANGED <<cover, novel, lease>>
  BY <1>4 DEF LookForCover
<1> QED
  BY <1>1, <1>2, <1>3, <1>4, <1>5, ShelfMoves

\* An answer for nobody is dropped.
LEMMA DropBlockKeeps ==
    ASSUME CoversInv, DropBlock
    PROVE  CoversInv'
<1>1. /\ reads \in Seq(CoverBlock) /\ ReadsKnown(reads, books)
  BY DEF CoversInv, CoversFit, CoverShape
<1>2. PICK queue : queue = Tail(reads)
  OBVIOUS
<1>3. reads # <<>> /\ reads' = queue /\ UNCHANGED <<heap, shelf, books, cover, novel, lease>>
  BY <1>2 DEF DropBlock
<1>4. queue \in Seq(CoverBlock) /\ ReadsKnown(queue, books)
  BY <1>1, <1>2, <1>3, TailKnown
<1>5. CoversFit(heap, shelf, books, queue, cover, novel, lease)
  BY <1>4 DEF CoversInv, CoversFit, CoverShape
<1> QED
  BY <1>3, <1>5 DEF CoversInv

\* The request is over, with generation g for its position.
Settled(b, b1, s, g) ==
    /\ b \in BooksShape /\ b.page = b1.page /\ b.lastRead = b1.lastRead
    /\ ~ b.request.busy /\ ~ b.request.started
    /\ b.generations = [b1.generations EXCEPT ![s] = g]

\* A request that ends with generation g for its slot,
LEMMA SettledIs ==
    ASSUME NEW b1 \in BooksShape, NEW s \in ShelfSlots, NEW g \in Nat, NEW b,
           b = [b1 EXCEPT !.generations[s] = g, !.request = NoCoverRequest]
    PROVE  Settled(b, b1, s, g)
<1>1. PICK p, f, r, n : p = b1.page /\ f = b1.generations /\ r = b1.request /\ n = b1.lastRead
  OBVIOUS
<1>2. b1 = [page |-> p, generations |-> f, request |-> r, lastRead |-> n]
  BY <1>1, BooksParts
<1>3. PICK f2, no : f2 = [f EXCEPT ![s] = g] /\ no = NoCoverRequest
  OBVIOUS
<1>4. b = [b1 EXCEPT !.generations = f2, !.request = no]
  BY <1>2, <1>3
<1>5. PICK d : d = [b1 EXCEPT !.generations = f2]
  OBVIOUS
<1>6. d = [page |-> p, generations |-> f2, request |-> r, lastRead |-> n]
  BY <1>2, <1>5
<1>7. b = [d EXCEPT !.request = no]
  BY <1>4, <1>5
<1>8. b = [page |-> p, generations |-> f2, request |-> no, lastRead |-> n]
  BY <1>6, <1>7
<1>9. f2 \in [ShelfSlots -> Nat] /\ p \in ShelfPages \cup {0} /\ n \in Nat
  BY <1>1, <1>3, BooksParts
<1>10. no \in CoverRequest /\ ~ no.busy /\ ~ no.started
  BY <1>3, NoRequest
<1>11. b \in BooksShape
  BY <1>8, <1>9, <1>10 DEF BooksShape
<1>12. b.page = p /\ b.lastRead = n /\ b.request = no /\ b.generations = f2
  <2>1. PICK c : c = [page |-> p, generations |-> f2, request |-> no, lastRead |-> n]
    OBVIOUS
  <2>2. c.page = p /\ c.lastRead = n /\ c.request = no /\ c.generations = f2
    BY <2>1
  <2>3. b = c
    BY <1>8, <2>1
  <2> QED
    BY <2>2, <2>3
<1> QED
  BY <1>1, <1>3, <1>10, <1>11, <1>12 DEF Settled

\* after which the app is between two requests.
LEMMA SettledBetween ==
    ASSUME NEW sh \in Shelf, NEW b, NEW b1 \in BooksShape, NEW s \in ShelfSlots, NEW g \in Nat,
           Settled(b, b1, s, g), NEW queue \in Seq(CoverBlock), queue # <<>>,
           ReadsKnown(queue, b1),
           b1.lastRead <= MaxReads, Len(sh.titles) <= b1.lastRead, Titled(sh, b)
    PROVE  Between(sh, b, Tail(queue))
<1>1. /\ b \in BooksShape /\ b.page = b1.page /\ b.lastRead = b1.lastRead
      /\ ~ b.request.busy /\ ~ b.request.started
      /\ b.generations = [b1.generations EXCEPT ![s] = g]
  BY DEF Settled
<1>2. Tail(queue) \in Seq(CoverBlock) /\ ReadsKnown(Tail(queue), b1)
  BY TailKnown
<1>3. ReadsKnown(Tail(queue), b)
  BY <1>1, <1>2, ReadsOfOther
<1>4. Counted(sh, b)
  <2>1. PICK k \in Nat : k = Len(sh.titles)
    BY ShelfParts, LenProperties
  <2> QED
    BY <1>1, <2>1 DEF Counted
<1> QED
  BY <1>1, <1>2, <1>3, <1>4 DEF Between

\* A slot given up has a generation without a title;
LEMMA GivenUpTitled ==
    ASSUME NEW sh \in Shelf, NEW b, NEW b1 \in BooksShape, NEW s \in ShelfSlots,
           Settled(b, b1, s, GivenUp), Titled(sh, b1), Len(sh.titles) <= MaxReads
    PROVE  Titled(sh, b)
<1>1. PICK k \in Nat : k = Len(sh.titles)
  BY ShelfParts, LenProperties
<1>2. GivenUp \notin 1 .. k
  BY <1>1, CoverAssumption
<1>3. PICK f, f1, p :
        f = b.generations /\ f1 = b1.generations /\ p = b1.page /\ p = b.page
  BY DEF Settled
<1>4. f1 \in [ShelfSlots -> Nat] /\ f = [f1 EXCEPT ![s] = GivenUp]
  BY <1>3, BooksParts DEF Settled
<1>5. SUFFICES ASSUME NEW t \in ShelfSlots
               PROVE  /\ f[t] <= k \/ f[t] = GivenUp
                      /\ f[t] \in 1 .. k => p = 0 \/ sh.titles[f[t]] = OnPage(p, t)
  BY <1>1, <1>3 DEF Titled
<1>6. CASE t = s
  BY <1>2, <1>4, <1>6
<1>7. CASE t # s
  <2>1. f[t] = f1[t]
    BY <1>4, <1>7
  <2>2. /\ f1[t] <= k \/ f1[t] = GivenUp
        /\ f1[t] \in 1 .. k => p = 0 \/ sh.titles[f1[t]] = OnPage(p, t)
    BY <1>1, <1>3 DEF Titled
  <2> QED
    BY <2>1, <2>2
<1> QED
  BY <1>6, <1>7

\* one that is committed has the title of its item.
LEMMA CommittedTitled ==
    ASSUME NEW sh \in Shelf, NEW sh2, NEW b, NEW b1 \in BooksShape, NEW s \in ShelfSlots,
           Settled(b, b1, s, Len(sh.titles) + 1), Titled(sh, b1),
           OnPage(b1.page, s) \in ShelfTitles,
           sh2.titles = Append(sh.titles, OnPage(b1.page, s)), Len(sh.titles) + 1 <= MaxReads
    PROVE  Titled(sh2, b)
<1>1. PICK k \in Nat : k = Len(sh.titles)
  BY ShelfParts, LenProperties
<1>2. PICK f, f1, p :
        f = b.generations /\ f1 = b1.generations /\ p = b1.page /\ p = b.page
  BY DEF Settled
<1>3. f1 \in [ShelfSlots -> Nat] /\ f = [f1 EXCEPT ![s] = k + 1]
  BY <1>1, <1>2, BooksParts DEF Settled
<1>4. PICK q : q = sh.titles
  OBVIOUS
<1>5. PICK q2 : q2 = sh2.titles
  OBVIOUS
<1>6. /\ Len(q2) = k + 1 /\ q2[k + 1] = OnPage(p, s)
      /\ \A g \in 1 .. k : q2[g] = q[g]
  <2>1. PICK e \in ShelfTitles : e = OnPage(p, s)
    BY <1>2
  <2>2. q \in Seq(ShelfTitles) /\ q2 = Append(q, e) /\ Len(q) = k
    BY <1>1, <1>2, <1>4, <1>5, <2>1, ShelfParts
  <2> QED
    BY <2>1, <2>2, TitlesLonger
<1>7. SUFFICES ASSUME NEW t \in ShelfSlots
               PROVE  /\ f[t] <= k + 1 \/ f[t] = GivenUp
                      /\ f[t] \in 1 .. k + 1 => p = 0 \/ q2[f[t]] = OnPage(p, t)
  BY <1>2, <1>5, <1>6 DEF Titled
<1>8. CASE t = s
  BY <1>3, <1>6, <1>8
<1>9. CASE t # s
  <2>1. f[t] = f1[t] /\ f[t] \in Nat
    BY <1>3, <1>9
  <2>2. /\ f1[t] <= k \/ f1[t] = GivenUp
        /\ f1[t] \in 1 .. k => p = 0 \/ q[f1[t]] = OnPage(p, t)
    BY <1>1, <1>2, <1>4 DEF Titled
  <2>3. k + 1 < GivenUp
    BY <1>1, CoverAssumption
  <2>4. CASE f[t] = GivenUp
    BY <2>3, <2>4
  <2>5. CASE f[t] # GivenUp
    <3>1. f[t] <= k
      BY <2>1, <2>2, <2>5
    <3>2. f[t] \in 1 .. k + 1 => f[t] \in 1 .. k
      BY <2>1, <3>1
    <3> QED
      BY <1>6, <2>1, <2>2, <3>1, <3>2
  <2> QED
    BY <2>4, <2>5
<1> QED
  BY <1>8, <1>9

\* What an answer that is taken finds.
LEMMA AnswerIs ==
    ASSUME CoversInv, Answered
    PROVE  /\ ~ novel.open /\ reads # <<>> /\ books.request.busy
           /\ books.request.slot \in ShelfSlots
           /\ books.page # 0 =>
                 Head(reads).title = OnPage(books.page, books.request.slot)
           /\ books.lastRead <= MaxReads /\ Len(shelf.titles) + 1 <= books.lastRead
<1>1. /\ reads \in Seq(CoverBlock) /\ ReadsKnown(reads, books) /\ Counted(shelf, books)
  BY DEF CoversInv, CoversFit, CoverShape
<1>2. /\ ~ novel.open /\ reads # <<>> /\ books.request.busy
      /\ Head(reads).id = books.lastRead
  BY DEF Answered
<1>3. Head(reads) = reads[1] /\ 1 \in 1 .. Len(reads)
  BY <1>1, <1>2, TailIs
<1>4. reads[1].id = books.lastRead
  BY <1>2, <1>3
<1>5. books.page # 0 => reads[1].title = OnPage(books.page, books.request.slot)
  BY <1>1, <1>2, <1>3, <1>4 DEF ReadsKnown
<1>6. /\ books.request.slot \in ShelfSlots
      /\ books.lastRead <= MaxReads /\ Len(shelf.titles) + 1 <= books.lastRead
  BY <1>1, <1>2 DEF Counted
<1> QED
  BY <1>2, <1>3, <1>5, <1>6

\* A slot is given up, in whatever heap its blocks have left,
LEMMA GivesUpKeeps ==
    ASSUME CoversInv, Answered, NEW h, NEW sh \in Shelf,
           NEW s \in ShelfSlots, s = books.request.slot,
           Kept(h, sh, books.page, cover, novel.title), SameShown(sh, shelf),
           SameBuilt(sh, shelf, ShelfSlots \ {s}), GiveUp(Memory(h, sh), s),
           UNCHANGED <<cover, novel, lease>>
    PROVE  CoversInv'
<1>1. PICK h2, sh2 :
        /\ CancelShelf(Memory(h, sh), s) = Memory(h2, sh2)
        /\ Kept(h2, sh2, books.page, cover, novel.title)
        /\ Rebuilt(sh2, sh, s, NoBuffer, 0)
  <2>1. PICK page, cv, title : page = books.page /\ cv = cover /\ title = novel.title
    OBVIOUS
  <2>2. Kept(h, sh, page, cv, title)
    BY <2>1
  <2>3. \E h2, sh2 :
          /\ CancelShelf(Memory(h, sh), s) = Memory(h2, sh2)
          /\ Kept(h2, sh2, page, cv, title) /\ Rebuilt(sh2, sh, s, NoBuffer, 0)
    BY <2>2, CancelShelfKeeps
  <2> QED
    BY <2>1, <2>3
<1>2. /\ shelf \in Shelf /\ books \in BooksShape /\ reads \in Seq(CoverBlock)
      /\ ShelfTitled(shelf) /\ Lent(lease, shelf, cover) /\ BuiltForRequest(shelf, books)
      /\ ReadsKnown(reads, books) /\ Titled(shelf, books)
  BY DEF CoversInv, CoversFit, CoverShape
<1>3. NothingBuilt(sh2)
  <2>1. \A t \in ShelfSlots \ {s} : shelf.slots[t].building = NoBuffer
    BY <1>2 DEF BuiltForRequest
  <2>2. \A t \in ShelfSlots \ {s} : sh2.slots[t].building = NoBuffer
    BY <1>1, <2>1 DEF Rebuilt, SameBuilt
  <2>3. sh2.slots[s].building = NoBuffer
    BY <1>1 DEF Rebuilt, Building
  <2> QED
    BY <2>2, <2>3 DEF NothingBuilt
<1>4. sh2 \in Shelf /\ SameShown(sh2, sh)
  BY <1>1 DEF Rebuilt
<1>5. ShelfTitled(sh2) /\ Lent(lease, sh2, cover) /\ Titled(sh2, books)
  <2>1. ShelfTitled(sh) /\ Lent(lease, sh, cover) /\ Titled(sh, books)
    BY <1>2, ShownSame
  <2> QED
    BY <1>4, <2>1, ShownSame
<1>6. sh2.titles = shelf.titles
  BY <1>4 DEF SameShown
<1>7. /\ ~ novel.open /\ reads # <<>>
      /\ books.lastRead <= MaxReads /\ Len(shelf.titles) + 1 <= books.lastRead
  BY AnswerIs
<1>8. Len(sh2.titles) <= books.lastRead /\ Len(sh2.titles) <= MaxReads
  <2>1. PICK k \in Nat : k = Len(sh2.titles)
    BY <1>4, ShelfParts, LenProperties
  <2>2. PICK n \in Nat : n = books.lastRead
    BY <1>2, BooksParts
  <2> QED
    BY <1>6, <1>7, <2>1, <2>2, CoverAssumption
<1>9. PICK b1 \in BooksShape, g \in Nat, queue \in Seq(CoverBlock) :
        b1 = books /\ g = GivenUp /\ queue = reads
  BY <1>2, CoverAssumption
<1>10. PICK b : b = [b1 EXCEPT !.generations[s] = g, !.request = NoCoverRequest]
  OBVIOUS
<1>11. heap' = h2 /\ shelf' = sh2 /\ StartNextCover(b, Tail(queue))
  BY <1>1, <1>9, <1>10, MemoryParts DEF GiveUp, SetShelf
<1>12. Settled(b, b1, s, g)
  BY <1>10, SettledIs
<1>13. Titled(sh2, b)
  <2>1. Settled(b, b1, s, GivenUp) /\ Titled(sh2, b1)
    BY <1>5, <1>9, <1>12
  <2> QED
    BY <1>4, <1>8, <2>1, GivenUpTitled
<1>14. Between(sh2, b, Tail(queue))
  <2>1. /\ queue # <<>> /\ ReadsKnown(queue, b1) /\ b1.lastRead <= MaxReads
        /\ Len(sh2.titles) <= b1.lastRead
    BY <1>2, <1>7, <1>8, <1>9
  <2> QED
    BY <1>4, <1>12, <1>13, <2>1, SettledBetween
<1>15. b \in BooksShape /\ Kept(h2, sh2, b.page, cover, novel.title)
  BY <1>1, <1>9, <1>12 DEF Settled
<1>16. PICK q : q = Tail(queue)
  OBVIOUS
<1>17. Between(sh2, b, q) /\ StartNextCover(b, q)
  BY <1>11, <1>14, <1>16
<1> QED
  BY <1>3, <1>4, <1>5, <1>7, <1>11, <1>15, <1>17, ShelfMoves

\* and so before a block has been taken.
LEMMA GivesUpNow ==
    ASSUME CoversInv, Answered, GiveUp(ShelfMemory, books.request.slot),
           UNCHANGED <<cover, novel, lease>>
    PROVE  CoversInv'
<1>1. PICK s \in ShelfSlots : s = books.request.slot
  BY AnswerIs
<1>2. PICK h : h = heap
  OBVIOUS
<1>3. PICK sh \in Shelf : sh = shelf
  BY DEF CoversInv, CoversFit, CoverShape
<1>4. Kept(h, sh, books.page, cover, novel.title)
  BY <1>2, <1>3 DEF CoversInv, CoversFit
<1>5. SameShown(sh, shelf) /\ SameBuilt(sh, shelf, ShelfSlots \ {s})
  BY <1>3 DEF SameShown, SameBuilt
<1>6. GiveUp(Memory(h, sh), s)
  BY <1>1, <1>2, <1>3 DEF ShelfMemory, Memory
<1> QED
  BY <1>1, <1>4, <1>5, <1>6, GivesUpKeeps

\* A block that failed.
LEMMA BlockFailsKeeps ==
    ASSUME CoversInv, BlockFails
    PROVE  CoversInv'
<1>1. /\ Answered /\ GiveUp(ShelfMemory, books.request.slot)
      /\ UNCHANGED <<cover, novel, lease>>
  BY DEF BlockFails
<1> QED
  BY <1>1, GivesUpNow

\* The cover that the answered block belongs to, and that cover with the block.
Begins ==
    \/ books.request.started
    \/ /\ books.page # 0
       /\ HasRoom(CancelShelf(ShelfMemory, books.request.slot).heap)
Begun ==
    IF books.request.started THEN ShelfMemory
    ELSE BeginShelf(ShelfMemory, books.request.slot)
Taken ==
    AppendShelf(Begun, books.request.slot,
                [title |-> Head(reads).title, offset |-> books.request.offset])
Finished ==
    /\ SetShelf(CommitShelf(Taken, books.request.slot, Head(reads).title))
    /\ StartNextCover(
          [books EXCEPT !.generations[books.request.slot] =
               IF CommitShelf(Taken, books.request.slot, Head(reads).title).store.titles
                   = shelf.titles
               THEN GivenUp
               ELSE Len(CommitShelf(Taken, books.request.slot,
                                    Head(reads).title).store.titles),
               !.request = NoCoverRequest], Tail(reads))
Continued ==
    /\ MayAsk(books, Tail(reads)) /\ SetShelf(Taken)
    /\ books' = Asked(books, books.request.slot, TRUE, books.request.offset + 1)
    /\ reads' = Append(Tail(reads),
                       [BlockAsked(books') EXCEPT !.title = Head(reads).title])

\* The ways in which a block is taken.
LEMMA TakeBlockIs ==
    ASSUME TakeBlock
    PROVE  /\ Answered /\ UNCHANGED <<cover, novel, lease>>
           /\ \/ GiveUp(ShelfMemory, books.request.slot)
              \/ /\ Begins /\ ShelfTakes(Begun, books.request.slot, books.request.offset)
                 /\ \/ books.request.offset + 1 = Blocks /\ Finished
                    \/ books.request.offset + 1 # Blocks /\ Continued
                    \/ GiveUp(Taken, books.request.slot)
BY Zenon DEF TakeBlock, Begins, Begun, Taken, Finished, Continued

\* The offset of a request.
LEMMA RequestParts ==
    ASSUME NEW b \in BooksShape
    PROVE  b.request.offset \in Nat
BY DEF BooksShape, CoverRequest

\* The block taken belongs to the item of the slot, and is the next one.
LEMMA BlockTaken ==
    ASSUME CoversInv, Answered, Begins, NEW s \in ShelfSlots, s = books.request.slot,
           ShelfTakes(Begun, s, books.request.offset)
    PROVE  \E h2, sh2 : \E a \in Buffers, n \in Nat :
             /\ n = books.request.offset /\ n < Blocks /\ books.page # 0
             /\ Taken = Memory(h2, sh2)
             /\ sh2 \in Shelf /\ Kept(h2, sh2, books.page, cover, novel.title)
             /\ SameShown(sh2, shelf) /\ SameBuilt(sh2, shelf, ShelfSlots \ {s})
             /\ Building(sh2, s) = a /\ Used(sh2, s) = n + 1
<1>1. /\ shelf \in Shelf /\ books \in BooksShape
      /\ Kept(heap, shelf, books.page, cover, novel.title)
      /\ BuiltForRequest(shelf, books)
  BY DEF CoversInv, CoversFit, CoverShape
<1>2. PICK page, cv, title : page = books.page /\ cv = cover /\ title = novel.title
  OBVIOUS
<1>3. PICK h0 : h0 = heap
  OBVIOUS
<1>4. PICK sh0 \in Shelf : sh0 = shelf
  BY <1>1
<1>5. Kept(h0, sh0, page, cv, title) /\ ShelfMemory = Memory(h0, sh0)
  BY <1>1, <1>2, <1>3, <1>4 DEF ShelfMemory, Memory
<1>6. PICK h, sh :
        /\ Begun = Memory(h, sh) /\ sh \in Shelf /\ Kept(h, sh, page, cv, title)
        /\ SameShown(sh, sh0) /\ SameBuilt(sh, sh0, ShelfSlots \ {s})
        /\ \/ sh = sh0
           \/ page # 0
  <2>1. CASE books.request.started
    <3>1. Begun = Memory(h0, sh0)
      BY <1>5, <2>1 DEF Begun
    <3>2. SameShown(sh0, sh0) /\ SameBuilt(sh0, sh0, ShelfSlots \ {s})
      BY DEF SameShown, SameBuilt
    <3> QED
      BY <1>5, <2>1, <3>1, <3>2
  <2>2. CASE ~ books.request.started
    <3>1. HasRoom(CancelShelf(Memory(h0, sh0), s).heap) /\ page # 0
      BY <1>2, <1>5, <2>2 DEF Begins
    <3>2. PICK h, sh, a :
            /\ BeginShelf(Memory(h0, sh0), s) = Memory(h, sh)
            /\ Kept(h, sh, page, cv, title) /\ Rebuilt(sh, sh0, s, a, 0)
      BY <1>5, <3>1, BeginShelfKeeps
    <3>3. Begun = Memory(h, sh)
      BY <1>5, <2>2, <3>2 DEF Begun
    <3> QED
      BY <3>1, <3>2, <3>3 DEF Rebuilt
  <2> QED
    BY <2>1, <2>2
<1>7. PICK n \in Nat : n = books.request.offset
  BY <1>1, RequestParts
<1>8. /\ Building(sh, s) \in Buffers /\ n = Used(sh, s) /\ n < Blocks
  <2>1. sh.slots[s].building # NoBuffer /\ n = sh.slots[s].used /\ sh.slots[s].used < Blocks
    BY <1>6, <1>7, MemoryParts DEF ShelfTakes
  <2>2. sh.slots[s].building \in Buffers \cup {NoBuffer}
    BY <1>6, ShelfParts
  <2> QED
    BY <2>1, <2>2 DEF Building, Used
<1>9. page # 0
  <2>1. CASE sh = sh0
    <3>1. shelf.slots[s].building \in Buffers
      BY <1>4, <1>8, <2>1 DEF Building
    <3> QED
      BY <1>1, <1>2, <3>1, CoverAssumption DEF BuiltForRequest
  <2> QED
    BY <1>6, <2>1
<1>10. PICK block : block = [title |-> OnPage(page, s), offset |-> n]
  OBVIOUS
<1>11. Taken = AppendShelf(Memory(h, sh), s, block)
  <2>1. Head(reads).title = OnPage(page, s)
    BY <1>2, <1>9, AnswerIs
  <2> QED
    BY <1>6, <1>7, <1>10, <2>1 DEF Taken
<1>12. PICK a \in Buffers : a = Building(sh, s)
  BY <1>8
<1>13. PICK sh1 \in Shelf : sh1 = sh
  BY <1>6
<1>14. PICK h2, sh2 :
         /\ AppendShelf(Memory(h, sh1), s, block) = Memory(h2, sh2)
         /\ Kept(h2, sh2, page, cv, title) /\ Rebuilt(sh2, sh1, s, a, n + 1)
  <2>1. Kept(h, sh1, page, cv, title) /\ a = Building(sh1, s) /\ n = Used(sh1, s)
    BY <1>6, <1>8, <1>12, <1>13
  <2> QED
    BY <1>7, <1>10, <1>12, <1>13, <2>1, AppendShelfKeeps
<1>15. /\ sh2 \in Shelf /\ SameShown(sh2, shelf)
       /\ SameBuilt(sh2, shelf, ShelfSlots \ {s})
       /\ Building(sh2, s) = a /\ Used(sh2, s) = n + 1
  <2>1. /\ sh2 \in Shelf /\ SameShown(sh2, sh) /\ SameBuilt(sh2, sh, ShelfSlots \ {s})
        /\ Building(sh2, s) = a /\ Used(sh2, s) = n + 1
    BY <1>13, <1>14 DEF Rebuilt
  <2>2. SameShown(sh2, shelf)
    BY <1>4, <1>6, <2>1 DEF SameShown
  <2>3. SameBuilt(sh2, shelf, ShelfSlots \ {s})
    BY <1>4, <1>6, <2>1 DEF SameBuilt
  <2> QED
    BY <2>1, <2>2, <2>3
<1> QED
  BY <1>2, <1>7, <1>8, <1>9, <1>11, <1>13, <1>14, <1>15

\* The cover of slot s of the shelf sh, whole, is the one shown there next.
LEMMA CommittedFits ==
    ASSUME NEW sh \in Shelf, NEW s \in ShelfSlots, NEW title \in ShelfTitles, NEW sh2,
           Committed(sh2, sh, s, title), sh.slots[s].references = 0, ShelfTitled(sh)
    PROVE  /\ ShelfTitled(sh2) /\ Len(sh2.titles) = Len(sh.titles) + 1
           /\ \A le, cv : Lent(le, sh, cv) => Lent(le, sh2, cv)
<1>1. PICK k \in Nat : k = Len(sh.titles)
  BY ShelfParts, LenProperties
<1>2. /\ sh2.titles = Append(sh.titles, title)
      /\ sh2.slots[s].generation = k + 1 /\ sh2.slots[s].references = 0
      /\ \A t \in ShelfSlots \ {s} : sh2.slots[t] = sh.slots[t]
  BY <1>1 DEF Committed
<1>3. Len(sh2.titles) = k + 1
  <2>1. PICK q \in Seq(ShelfTitles) : q = sh.titles
    BY ShelfParts
  <2>2. Len(Append(q, title)) = k + 1
    BY <1>1, <2>1, TitlesLonger
  <2> QED
    BY <1>2, <2>1, <2>2
<1>4. ShelfTitled(sh2)
  <2> SUFFICES ASSUME NEW t \in ShelfSlots, sh2.slots[t].active # NoBuffer
               PROVE  sh2.slots[t].generation \in 1 .. k + 1
    BY <1>3 DEF ShelfTitled
  <2>1. CASE t = s
    BY <1>2, <2>1
  <2>2. CASE t # s
    BY <1>1, <1>2, <2>2 DEF ShelfTitled
  <2> QED
    BY <2>1, <2>2
<1>5. ASSUME NEW le, NEW cv, Lent(le, sh, cv)
      PROVE  Lent(le, sh2, cv)
  <2>1. ~ (le.store = "books" /\ le.slot = s)
    BY <1>5 DEF Lent
  <2>2. \A t \in ShelfSlots : sh2.slots[t].references = sh.slots[t].references
    BY <1>2
  <2>3. le.store = "books" => le.slot \in ShelfSlots \ {s}
    BY <1>5, <2>1 DEF Lent
  <2>4. le.store = "books" => sh2.slots[le.slot] = sh.slots[le.slot]
    BY <1>2, <2>3
  <2> QED
    BY <1>5, <2>2, <2>4 DEF Lent
<1> QED
  BY <1>1, <1>3, <1>4, <1>5

\* With the last block the cover is committed,
LEMMA FinishedKeeps ==
    ASSUME CoversInv, Answered, Begins,
           ShelfTakes(Begun, books.request.slot, books.request.offset),
           books.request.offset + 1 = Blocks, Finished, UNCHANGED <<cover, novel, lease>>
    PROVE  CoversInv'
<1>1. PICK s \in ShelfSlots : s = books.request.slot
  BY AnswerIs
<1>2. PICK h2, sh2, a, n :
        /\ a \in Buffers /\ n \in Nat /\ n = books.request.offset /\ n < Blocks
        /\ books.page # 0 /\ Taken = Memory(h2, sh2)
        /\ sh2 \in Shelf /\ Kept(h2, sh2, books.page, cover, novel.title)
        /\ SameShown(sh2, shelf) /\ SameBuilt(sh2, shelf, ShelfSlots \ {s})
        /\ Building(sh2, s) = a /\ Used(sh2, s) = n + 1
  <2>1. ShelfTakes(Begun, s, books.request.offset)
    BY <1>1
  <2> QED
    BY <1>1, <2>1, BlockTaken
<1>3. /\ ~ novel.open /\ reads # <<>> /\ books.lastRead <= MaxReads
      /\ Len(shelf.titles) + 1 <= books.lastRead
      /\ Head(reads).title = OnPage(books.page, s)
  BY <1>1, <1>2, AnswerIs
<1>4. /\ books \in BooksShape /\ reads \in Seq(CoverBlock) /\ shelf \in Shelf
      /\ ShelfTitled(shelf) /\ Lent(lease, shelf, cover) /\ BuiltForRequest(shelf, books)
      /\ ReadsKnown(reads, books) /\ Titled(shelf, books)
  BY DEF CoversInv, CoversFit, CoverShape
<1>5. ShelfTitled(sh2) /\ Lent(lease, sh2, cover) /\ Titled(sh2, books)
  BY <1>2, <1>4, ShownSame
<1>6. PICK title : title = OnPage(books.page, s)
  OBVIOUS
<1>7. title \in ShelfTitles
  BY <1>2, <1>4, <1>6, BooksParts DEF OnPage, ShelfTitles
<1>8. PICK done : done = CommitShelf(Memory(h2, sh2), s, title)
  OBVIOUS
<1>9. sh2.titles = shelf.titles
  BY <1>2 DEF SameShown
<1>10. CASE MayCommit(sh2.slots[s])
  <2>1. PICK h3, sh3 :
          /\ done = Memory(h3, sh3)
          /\ Kept(h3, sh3, books.page, cover, novel.title) /\ Committed(sh3, sh2, s, title)
    <3>1. PICK page, cv, book : page = books.page /\ cv = cover /\ book = novel.title
      OBVIOUS
    <3>2. Kept(h2, sh2, page, cv, book) /\ OnPage(page, s) \in ShelfTitles
      BY <1>2, <1>6, <1>7, <3>1
    <3>3. \E h3, sh3 :
            /\ CommitShelf(Memory(h2, sh2), s, OnPage(page, s)) = Memory(h3, sh3)
            /\ Kept(h3, sh3, page, cv, book)
            /\ Committed(sh3, sh2, s, OnPage(page, s))
      BY <1>2, <1>5, <1>10, <3>2, CommitShelfKeeps
    <3> QED
      BY <1>6, <1>8, <3>1, <3>3
  <2>2. sh2.slots[s].references = 0
    BY <1>10 DEF MayCommit
  <2>3. /\ ShelfTitled(sh3) /\ Lent(lease, sh3, cover)
        /\ Len(sh3.titles) = Len(sh2.titles) + 1
    BY <1>2, <1>5, <1>7, <2>1, <2>2, CommittedFits
  <2>4. NothingBuilt(sh3) /\ sh3 \in Shelf /\ sh3.titles = Append(sh2.titles, title)
    <3>1. \A t \in ShelfSlots \ {s} : sh2.slots[t].building = NoBuffer
      BY <1>1, <1>2, <1>4 DEF BuiltForRequest, SameBuilt
    <3> QED
      BY <2>1, <3>1 DEF Committed, NothingBuilt
  <2>5. PICK k \in Nat : k = Len(sh2.titles)
    BY <1>2, ShelfParts, LenProperties
  <2>6. PICK g \in Nat : g = k + 1
    OBVIOUS
  <2>7. PICK b1 \in BooksShape, queue \in Seq(CoverBlock) : b1 = books /\ queue = reads
    BY <1>4
  <2>8. PICK n1 \in Nat : n1 = b1.lastRead
    BY BooksParts
  <2>9. PICK b : b = [b1 EXCEPT !.generations[s] = g, !.request = NoCoverRequest]
    OBVIOUS
  <2>10. heap' = h3 /\ shelf' = sh3 /\ StartNextCover(b, Tail(queue))
    <3>1. CommitShelf(Taken, books.request.slot, Head(reads).title) = done
      BY <1>1, <1>2, <1>3, <1>6, <1>8
    <3>2. done.store.titles # shelf.titles /\ Len(done.store.titles) = g
      BY <1>9, <2>1, <2>3, <2>5, <2>6, MemoryParts
    <3>3. heap' = h3 /\ shelf' = sh3
      BY <2>1, <3>1, MemoryParts DEF Finished, SetShelf
    <3>4. StartNextCover([books EXCEPT !.generations[books.request.slot] =
               IF done.store.titles = shelf.titles THEN GivenUp
               ELSE Len(done.store.titles), !.request = NoCoverRequest], Tail(reads))
      BY <3>1 DEF Finished
    <3>5. (IF done.store.titles = shelf.titles THEN GivenUp
           ELSE Len(done.store.titles)) = g
      BY <3>2
    <3> QED
      BY <1>1, <2>7, <2>9, <3>3, <3>4, <3>5
  <2>11. Settled(b, b1, s, g)
    BY <2>9, SettledIs
  <2>12. k + 1 <= n1 /\ n1 <= MaxReads /\ k + 1 <= MaxReads
    BY <1>3, <1>9, <2>5, <2>7, <2>8, CoverAssumption
  <2>13. Titled(sh3, b)
    <3>1. /\ Settled(b, b1, s, Len(sh2.titles) + 1) /\ Titled(sh2, b1)
          /\ OnPage(b1.page, s) \in ShelfTitles
          /\ sh3.titles = Append(sh2.titles, OnPage(b1.page, s))
          /\ Len(sh2.titles) + 1 <= MaxReads
      BY <1>5, <1>6, <1>7, <2>4, <2>5, <2>6, <2>7, <2>11, <2>12
    <3> QED
      BY <1>2, <3>1, CommittedTitled
  <2>14. Between(sh3, b, Tail(queue))
    <3>1. /\ queue # <<>> /\ ReadsKnown(queue, b1) /\ b1.lastRead <= MaxReads
          /\ Len(sh3.titles) <= b1.lastRead
      BY <1>3, <1>4, <2>3, <2>5, <2>7, <2>8, <2>12
    <3> QED
      BY <2>4, <2>11, <2>13, <3>1, SettledBetween
  <2>15. b \in BooksShape /\ Kept(h3, sh3, b.page, cover, novel.title)
    BY <2>1, <2>7, <2>11 DEF Settled
  <2>16. PICK q : q = Tail(queue)
    OBVIOUS
  <2>17. Between(sh3, b, q) /\ StartNextCover(b, q)
    BY <2>10, <2>14, <2>16
  <2> QED
    BY <1>3, <2>3, <2>4, <2>10, <2>15, <2>17, ShelfMoves
<1>11. CASE ~ MayCommit(sh2.slots[s])
  <2>1. done = CancelShelf(Memory(h2, sh2), s)
    BY <1>8, <1>11, MemoryParts DEF CommitShelf
  <2>2. done.store.titles = shelf.titles
    <3>1. PICK page, cv, book : page = books.page /\ cv = cover /\ book = novel.title
      OBVIOUS
    <3>2. Kept(h2, sh2, page, cv, book)
      BY <1>2, <3>1
    <3>3. PICK h3, sh3 :
            /\ CancelShelf(Memory(h2, sh2), s) = Memory(h3, sh3)
            /\ Rebuilt(sh3, sh2, s, NoBuffer, 0)
      BY <1>2, <3>2, CancelShelfKeeps
    <3>4. sh3.titles = sh2.titles
      BY <3>3 DEF Rebuilt, SameShown
    <3> QED
      BY <1>9, <2>1, <3>3, <3>4, MemoryParts
  <2>3. CommitShelf(Taken, books.request.slot, Head(reads).title) = done
    BY <1>1, <1>2, <1>3, <1>6, <1>8
  <2>4. SetShelf(CancelShelf(Memory(h2, sh2), s))
    BY <2>1, <2>3 DEF Finished
  <2>5. StartNextCover([books EXCEPT !.generations[s] =
               IF done.store.titles = shelf.titles THEN GivenUp
               ELSE Len(done.store.titles), !.request = NoCoverRequest], Tail(reads))
    BY <1>1, <2>3 DEF Finished
  <2>6. GiveUp(Memory(h2, sh2), s)
    BY <2>2, <2>4, <2>5 DEF GiveUp
  <2> QED
    BY <1>1, <1>2, <2>6, GivesUpKeeps
<1> QED
  BY <1>10, <1>11

\* with another one the next is asked for.
LEMMA ContinuedKeeps ==
    ASSUME CoversInv, Answered, Begins,
           ShelfTakes(Begun, books.request.slot, books.request.offset),
           books.request.offset + 1 # Blocks, Continued, UNCHANGED <<cover, novel, lease>>
    PROVE  CoversInv'
<1>1. PICK s \in ShelfSlots : s = books.request.slot
  BY AnswerIs
<1>2. PICK h2, sh2, a, n :
        /\ a \in Buffers /\ n \in Nat /\ n = books.request.offset /\ n < Blocks
        /\ books.page # 0 /\ Taken = Memory(h2, sh2)
        /\ sh2 \in Shelf /\ Kept(h2, sh2, books.page, cover, novel.title)
        /\ SameShown(sh2, shelf) /\ SameBuilt(sh2, shelf, ShelfSlots \ {s})
        /\ Building(sh2, s) = a /\ Used(sh2, s) = n + 1
  <2>1. ShelfTakes(Begun, s, books.request.offset)
    BY <1>1
  <2> QED
    BY <1>1, <2>1, BlockTaken
<1>3. /\ ~ novel.open /\ reads # <<>> /\ Len(shelf.titles) + 1 <= books.lastRead
      /\ Head(reads).title = OnPage(books.page, s)
  BY <1>1, <1>2, AnswerIs
<1>4. /\ books \in BooksShape /\ reads \in Seq(CoverBlock) /\ shelf \in Shelf
      /\ ShelfTitled(shelf) /\ Lent(lease, shelf, cover) /\ BuiltForRequest(shelf, books)
      /\ ReadsKnown(reads, books) /\ Titled(shelf, books) /\ CoverTitled(cover)
      /\ cover \in Covers /\ novel \in NovelShape /\ lease \in LeaseShape
      /\ NovelFits(novel, books, cover)
  BY DEF CoversInv, CoversFit, CoverShape
<1>5. ShelfTitled(sh2) /\ Lent(lease, sh2, cover) /\ Titled(sh2, books)
  BY <1>2, <1>4, ShownSame
<1>6. PICK queue : queue = Tail(reads)
  OBVIOUS
<1>7. queue \in Seq(CoverBlock) /\ ReadsKnown(queue, books)
  BY <1>3, <1>4, <1>6, TailKnown
<1>8. PICK b1 \in BooksShape : b1 = books
  BY <1>4
<1>9. PICK started \in BOOLEAN, offset \in Nat : started = TRUE /\ offset = n + 1
  <2>1. n + 1 \in Nat /\ TRUE \in BOOLEAN
    BY <1>2
  <2> QED
    BY <2>1, Zenon
<1>10. PICK b : b = Asked(b1, s, started, offset)
  OBVIOUS
<1>11. PICK e : e = OfPlace(BlockAsked(b), b1.page, s)
  OBVIOUS
<1>12. PICK q : q = Append(queue, e)
  OBVIOUS
<1>13. /\ heap' = h2 /\ shelf' = sh2 /\ books' = b /\ reads' = q
       /\ b1.lastRead < MaxReads
  <2>1. /\ MayAsk(books, Tail(reads)) /\ SetShelf(Taken)
        /\ books' = Asked(books, books.request.slot, TRUE, books.request.offset + 1)
        /\ reads' = Append(Tail(reads),
                           [BlockAsked(books') EXCEPT !.title = Head(reads).title])
    BY DEF Continued
  <2>2. heap' = h2 /\ shelf' = sh2
    BY <1>2, <2>1, MemoryParts DEF SetShelf
  <2>3. books' = b
    BY <1>1, <1>2, <1>8, <1>9, <1>10, <2>1
  <2>4. reads' = q
    BY <1>3, <1>6, <1>8, <1>11, <1>12, <2>1, <2>3 DEF OfPlace
  <2>5. b1.lastRead < MaxReads
    BY <1>8, <2>1 DEF MayAsk
  <2> QED
    BY <2>2, <2>3, <2>4, <2>5
<1>14. AskedOf(sh2, b1, s, started, b, q, e)
  <2>1. sh2.titles = shelf.titles
    BY <1>2 DEF SameShown
  <2>2. Len(sh2.titles) <= b1.lastRead
    <3>1. PICK k \in Nat : k = Len(sh2.titles)
      BY <1>2, ShelfParts, LenProperties
    <3>2. PICK m \in Nat : m = b1.lastRead
      BY BooksParts
    <3> QED
      BY <1>3, <1>8, <2>1, <3>1, <3>2
  <2>3. ReadsKnown(queue, b1) /\ b1.page # 0
    BY <1>2, <1>7, <1>8
  <2> QED
    BY <1>2, <1>7, <1>10, <1>11, <1>12, <1>13, <2>2, <2>3, AskedNext
<1>15. /\ b \in BooksShape /\ q \in Seq(CoverBlock)
       /\ b.page = books.page /\ b.generations = books.generations
       /\ b.request.busy /\ b.request.slot = s /\ b.request.started
       /\ ReadsKnown(q, b) /\ Counted(sh2, b)
  BY <1>8, <1>9, <1>14 DEF AskedOf
<1>16. Titled(sh2, b)
  BY <1>5, <1>15 DEF Titled
<1>17. BuiltForRequest(sh2, b)
  <2> SUFFICES ASSUME NEW t \in ShelfSlots, sh2.slots[t].building # NoBuffer
               PROVE  t = s /\ sh2.slots[t].used < Blocks
    BY <1>2, <1>15 DEF BuiltForRequest
  <2>1. t = s
    BY <1>1, <1>2, <1>4 DEF SameBuilt, BuiltForRequest
  <2>2. n + 1 < Blocks
    BY <1>2, CoverAssumption
  <2> QED
    BY <1>2, <2>1, <2>2 DEF Used
<1>18. NovelFits(novel, b, cover)
  BY <1>3, <1>4, <1>15 DEF NovelFits
<1>19. CoversFit(h2, sh2, b, q, cover, novel, lease)
  BY <1>2, <1>4, <1>5, <1>15, <1>16, <1>17, <1>18 DEF CoversFit, CoverShape
<1> QED
  BY <1>13, <1>19 DEF CoversInv

\* A block that is taken.
LEMMA TakeBlockKeeps ==
    ASSUME CoversInv, TakeBlock
    PROVE  CoversInv'
<1>1. Answered /\ UNCHANGED <<cover, novel, lease>>
  BY TakeBlockIs
<1>2. CASE GiveUp(ShelfMemory, books.request.slot)
  BY <1>1, <1>2, GivesUpNow
<1>3. CASE /\ Begins /\ ShelfTakes(Begun, books.request.slot, books.request.offset)
           /\ \/ books.request.offset + 1 = Blocks /\ Finished
              \/ books.request.offset + 1 # Blocks /\ Continued
              \/ GiveUp(Taken, books.request.slot)
  <2>1. CASE books.request.offset + 1 = Blocks /\ Finished
    BY <1>1, <1>3, <2>1, FinishedKeeps
  <2>2. CASE books.request.offset + 1 # Blocks /\ Continued
    BY <1>1, <1>3, <2>2, ContinuedKeeps
  <2>3. CASE GiveUp(Taken, books.request.slot)
    <3>1. PICK s \in ShelfSlots : s = books.request.slot
      BY <1>1, AnswerIs
    <3>2. ShelfTakes(Begun, s, books.request.offset)
      BY <1>3, <3>1
    <3>3. PICK h2, sh2 :
            /\ Taken = Memory(h2, sh2)
            /\ sh2 \in Shelf /\ Kept(h2, sh2, books.page, cover, novel.title)
            /\ SameShown(sh2, shelf) /\ SameBuilt(sh2, shelf, ShelfSlots \ {s})
      BY <1>1, <1>3, <3>1, <3>2, BlockTaken
    <3>4. GiveUp(Memory(h2, sh2), s)
      BY <2>3, <3>1, <3>3
    <3> QED
      BY <1>1, <3>1, <3>3, <3>4, GivesUpKeeps
  <2> QED
    BY <1>3, <2>1, <2>2, <2>3
<1> QED
  BY <1>1, <1>2, <1>3, TakeBlockIs
-----------------------------------------------------------------------------
(* The steps of Reader's cover.                                            *)

\* Without what was built, Reader's store fits its frame,
LEMMA DroppedFits ==
    ASSUME NEW cv \in Covers, NEW cv2, Dropped(cv2, cv), WholeTitled(cv)
    PROVE  /\ CoverTitled(cv2) /\ cv2 \in Covers
           /\ cv2.active = cv.active /\ cv2.building = 0 /\ cv2.titles = cv.titles
           /\ \A le, sh : Lent(le, sh, cv) => Lent(le, sh, cv2)
<1>1. /\ cv2 \in Covers /\ cv2.active = cv.active /\ cv2.building = 0
      /\ cv2.titles = cv.titles
  BY DEF Dropped, Ends
<1>2. \A i \in {1, 2} : i = cv.building => /\ cv2.slots[i].data = NoBuffer
                                           /\ cv2.slots[i].references = 0
  BY EmptyCover DEF Dropped
<1>3. \A i \in {1, 2} : i # cv.building => cv2.slots[i] = cv.slots[i]
  BY DEF Dropped
<1>4. CoverTitled(cv2)
  BY <1>1, <1>2, <1>3 DEF CoverTitled, WholeTitled
<1>5. ASSUME NEW le, NEW sh, Lent(le, sh, cv)
      PROVE  Lent(le, sh, cv2)
  <2>1. ASSUME NEW i \in {1, 2}
        PROVE  cv2.slots[i].references = IF le.store = "reader" /\ le.slot = i THEN 1 ELSE 0
    <3>1. CASE i = cv.building
      <4>1. ~ (le.store = "reader" /\ le.slot = i)
        BY <1>5, <3>1 DEF Lent
      <4> QED
        BY <1>2, <3>1, <4>1
    <3>2. CASE i # cv.building
      BY <1>3, <1>5, <3>2 DEF Lent
    <3> QED
      BY <3>1, <3>2
  <2>2. le.store = "reader" =>
          /\ le.slot \in {1, 2} /\ le.data # NoBuffer /\ le.slot # cv2.building
          /\ cv2.slots[le.slot].data = le.data
          /\ cv2.slots[le.slot].generation = le.generation
    BY <1>1, <1>3, <1>5 DEF Lent
  <2> QED
    BY <1>5, <2>1, <2>2 DEF Lent
<1> QED
  BY <1>1, <1>4, <1>5

\* without a cover that gave way,
LEMMA EvictedFits ==
    ASSUME NEW cv \in Covers, NEW cv2, Evicted(cv2, cv), cv.building = 0, WholeTitled(cv)
    PROVE  /\ CoverTitled(cv2) /\ cv2 \in Covers
           /\ cv2.active = cv.active /\ cv2.building = 0
           /\ \A le, sh : Lent(le, sh, cv) => Lent(le, sh, cv2)
<1>1. /\ cv2 \in Covers /\ cv2.active = cv.active /\ cv2.building = 0
      /\ cv2.titles = cv.titles
  BY DEF Evicted, Ends
<1>2. PICK i \in FreeCoverSlots(cv) : SlotIs(cv2, i, EmptyCoverSlot) /\ OtherSlots(cv2, cv, i)
  BY DEF Evicted
<1>3. i \in {1, 2} /\ cv.slots[i].references = 0
  BY CoverParts DEF FreeCoverSlots
<1>4. cv2.slots[i].data = NoBuffer /\ cv2.slots[i].references = 0
  BY <1>2, EmptyCover DEF SlotIs
<1>5. \A j \in {1, 2} : j # i => cv2.slots[j] = cv.slots[j]
  BY <1>2 DEF OtherSlots
<1>6. CoverTitled(cv2)
  BY <1>1, <1>4, <1>5 DEF CoverTitled, WholeTitled
<1>7. ASSUME NEW le, NEW sh, Lent(le, sh, cv)
      PROVE  Lent(le, sh, cv2)
  <2>1. ~ (le.store = "reader" /\ le.slot = i)
    BY <1>3, <1>7 DEF Lent
  <2>2. \A j \in {1, 2} :
          cv2.slots[j].references = IF le.store = "reader" /\ le.slot = j THEN 1 ELSE 0
    BY <1>4, <1>5, <1>7, <2>1 DEF Lent
  <2>3. le.store = "reader" =>
          /\ le.slot \in {1, 2} /\ le.data # NoBuffer /\ le.slot # cv2.building
          /\ cv2.slots[le.slot].data = le.data
          /\ cv2.slots[le.slot].generation = le.generation
    BY <1>1, <1>5, <1>7, <2>1 DEF Lent
  <2> QED
    BY <1>7, <2>2, <2>3 DEF Lent
<1> QED
  BY <1>1, <1>6, <1>7

\* as it does when it is cleared.
LEMMA CoversClearedFit ==
    ASSUME NEW cv \in Covers, NEW cv2, CoversCleared(cv2, cv), WholeTitled(cv)
    PROVE  /\ CoverTitled(cv2) /\ cv2 \in Covers
           /\ cv2.active = 0 /\ cv2.building = 0
           /\ \A le, sh : Lent(le, sh, cv) => Lent(le, sh, cv2)
<1>1. cv2 \in Covers /\ cv2.active = 0 /\ cv2.building = 0 /\ cv2.titles = cv.titles
  BY DEF CoversCleared, Ends
<1>2. \A i \in {1, 2} :
        i = cv.building \/ cv.slots[i].references = 0 =>
            cv2.slots[i].data = NoBuffer /\ cv2.slots[i].references = 0
  BY EmptyCover DEF CoversCleared
<1>3. \A i \in {1, 2} :
        i # cv.building /\ cv.slots[i].references # 0 =>
            /\ cv2.slots[i].data = cv.slots[i].data
            /\ cv2.slots[i].used = cv.slots[i].used
            /\ cv2.slots[i].generation = cv.slots[i].generation
            /\ cv2.slots[i].references = cv.slots[i].references
  BY DEF CoversCleared
<1>4. CoverTitled(cv2)
  BY <1>1, <1>2, <1>3 DEF CoverTitled, WholeTitled
<1>5. ASSUME NEW le, NEW sh, Lent(le, sh, cv)
      PROVE  Lent(le, sh, cv2)
  <2>1. ASSUME NEW i \in {1, 2}
        PROVE  cv2.slots[i].references = IF le.store = "reader" /\ le.slot = i THEN 1 ELSE 0
    <3>1. cv.slots[i].references = IF le.store = "reader" /\ le.slot = i THEN 1 ELSE 0
      BY <1>5 DEF Lent
    <3>2. CASE i = cv.building
      <4>1. ~ (le.store = "reader" /\ le.slot = i)
        BY <1>5, <3>2 DEF Lent
      <4> QED
        BY <1>2, <3>2, <4>1
    <3>3. CASE i # cv.building
      BY <1>2, <1>3, <3>1, <3>3
    <3> QED
      BY <3>2, <3>3
  <2>2. ASSUME le.store = "reader"
        PROVE  /\ le.slot \in {1, 2} /\ le.data # NoBuffer /\ le.slot # cv2.building
               /\ cv2.slots[le.slot].data = le.data
               /\ cv2.slots[le.slot].generation = le.generation
    <3>1. /\ le.slot \in {1, 2} /\ le.data # NoBuffer /\ le.slot # cv.building
          /\ cv.slots[le.slot].data = le.data
          /\ cv.slots[le.slot].generation = le.generation
          /\ cv.slots[le.slot].references = 1
      BY <1>5, <2>2 DEF Lent
    <3> QED
      BY <1>1, <1>3, <3>1
  <2> QED
    BY <1>5, <2>1, <2>2 DEF Lent
<1> QED
  BY <1>1, <1>4, <1>5

\* A change of Reader's cover and of what it waits for.
LEMMA ReaderMoves ==
    ASSUME CoversInv, NEW h, NEW cv \in Covers, NEW no \in NovelShape,
           Kept(h, shelf, books.page, cv, no.title), CoverTitled(cv), Lent(lease, shelf, cv),
           NovelFits(no, books, cv),
           heap' = h, cover' = cv, novel' = no, UNCHANGED <<shelf, books, reads, lease>>
    PROVE  CoversInv'
<1>1. PICK sh, b, q, le : sh = shelf /\ b = books /\ q = reads /\ le = lease
  OBVIOUS
<1>2. CoversFit(h, sh, b, q, cv, no, le)
  BY <1>1 DEF CoversInv, CoversFit, CoverShape
<1> QED
  BY <1>1, <1>2 DEF CoversInv

\* Reader asks for the cover of its book;
LEMMA AskCoverKeeps ==
    ASSUME CoversInv, AskCover
    PROVE  CoversInv'
<1>1. /\ cover \in Covers /\ novel \in NovelShape /\ CoverTitled(cover)
      /\ Kept(heap, shelf, books.page, cover, novel.title)
      /\ Lent(lease, shelf, cover) /\ NovelFits(novel, books, cover)
  BY DEF CoversInv, CoversFit, CoverShape
<1>2. PICK no : no = [novel EXCEPT !.waiting = TRUE, !.started = FALSE]
  OBVIOUS
<1>3. /\ no \in NovelShape /\ no.open = novel.open /\ no.title = novel.title
      /\ no.waiting /\ ~ no.started /\ no.generation = novel.generation
  BY <1>1, <1>2 DEF NovelShape
<1>4. /\ novel.open /\ ~ novel.waiting /\ novel.generation = 0 /\ novel' = no
      /\ UNCHANGED <<heap, shelf, books, reads, cover, lease>>
  BY <1>2 DEF AskCover
<1>5. NovelFits(no, books, cover)
  BY <1>1, <1>3, <1>4 DEF NovelFits
<1>6. PICK h : h = heap
  OBVIOUS
<1>7. PICK cv \in Covers : cv = cover
  BY <1>1
<1>8. /\ Kept(h, shelf, books.page, cv, no.title) /\ CoverTitled(cv)
      /\ Lent(lease, shelf, cv) /\ NovelFits(no, books, cv)
  BY <1>1, <1>3, <1>5, <1>6, <1>7
<1> QED
  BY <1>3, <1>4, <1>6, <1>7, <1>8, ReaderMoves

\* Reader finds a slot for a new cover: nothing is shown, and one slot at most drawn.
LEMMA HasSlot ==
    ASSUME NEW cv \in Covers, cv.active = 0, NEW le, NEW sh, Lent(le, sh, cv)
    PROVE  FreeCoverSlots(cv) # {}
<1>1. DOMAIN cv.slots = {1, 2}
  BY CoverParts
<1>2. \A i \in {1, 2} : cv.slots[i].references = 0 => i \in FreeCoverSlots(cv)
  BY <1>1 DEF FreeCoverSlots
<1>3. cv.slots[1].references = 0 \/ cv.slots[2].references = 0
  BY DEF Lent
<1> QED
  BY <1>2, <1>3

\* A block of the book's cover fails.
LEMMA CoverBlockFailsKeeps ==
    ASSUME CoversInv, CoverBlockFails
    PROVE  CoversInv'
<1>1. /\ cover \in Covers /\ novel \in NovelShape /\ CoverTitled(cover)
      /\ Kept(heap, shelf, books.page, cover, novel.title)
      /\ Lent(lease, shelf, cover) /\ NovelFits(novel, books, cover)
  BY DEF CoversInv, CoversFit, CoverShape
<1>2. PICK h, sh, page, title :
        h = heap /\ sh = shelf /\ page = books.page /\ title = novel.title
  OBVIOUS
<1>3. PICK cv \in Covers : cv = cover
  BY <1>1
<1>4. /\ Kept(h, sh, page, cv, title) /\ WholeTitled(cv) /\ Lent(lease, sh, cv)
      /\ CoverMemory = Memory(h, cv)
  BY <1>1, <1>2, <1>3 DEF CoverTitled, CoverMemory, Memory
<1>5. PICK no : no = [novel EXCEPT !.waiting = FALSE]
  OBVIOUS
<1>6. /\ no \in NovelShape /\ no.open = novel.open /\ no.title = novel.title
      /\ ~ no.waiting /\ no.generation = novel.generation
  BY <1>1, <1>5 DEF NovelShape
<1>7. novel.waiting /\ novel' = no /\ UNCHANGED <<shelf, books, reads, lease>>
  BY <1>5 DEF CoverBlockFails
<1>8. ASSUME NEW h2, NEW cv2 \in Covers, heap' = h2, cover' = cv2,
             Kept(h2, sh, page, cv2, title), CoverTitled(cv2), Lent(lease, sh, cv2),
             cv2.active = cv.active, cv2.building = 0
      PROVE  CoversInv'
  <2>1. NovelFits(no, books, cv2)
    BY <1>1, <1>3, <1>6, <1>7, <1>8 DEF NovelFits
  <2>2. Kept(h2, shelf, books.page, cv2, no.title) /\ Lent(lease, shelf, cv2)
    BY <1>2, <1>6, <1>8
  <2> QED
    BY <1>6, <1>7, <1>8, <2>1, <2>2, ReaderMoves
<1>9. CASE SetCover(CancelCover(CoverMemory))
  <2>1. PICK h2, cv2 :
          /\ CancelCover(Memory(h, cv)) = Memory(h2, cv2)
          /\ Kept(h2, sh, page, cv2, title) /\ Dropped(cv2, cv)
    BY <1>4, CancelCoverKeeps
  <2>2. /\ CoverTitled(cv2) /\ cv2 \in Covers /\ cv2.active = cv.active
        /\ cv2.building = 0 /\ Lent(lease, sh, cv2)
    BY <1>4, <2>1, DroppedFits
  <2>3. heap' = h2 /\ cover' = cv2
    BY <1>4, <1>9, <2>1, MemoryParts DEF SetCover
  <2> QED
    BY <1>8, <2>1, <2>2, <2>3
<1>10. CASE ~ novel.started /\ SetCover(EvictCover(CancelCover(CoverMemory)))
  <2>1. cv.building = 0 /\ cv.active = 0
    BY <1>1, <1>3, <1>7, <1>10 DEF NovelFits
  <2>2. CancelCover(Memory(h, cv)) = Memory(h, cv)
    BY <2>1, MemoryParts DEF CancelCover
  <2>3. FreeCoverSlots(cv) # {}
    BY <1>4, <2>1, HasSlot
  <2>4. PICK h2, cv2 :
          /\ EvictCover(Memory(h, cv)) = Memory(h2, cv2)
          /\ Kept(h2, sh, page, cv2, title) /\ Evicted(cv2, cv)
    BY <1>4, <2>1, <2>3, EvictCoverKeeps
  <2>5. /\ CoverTitled(cv2) /\ cv2 \in Covers /\ cv2.active = cv.active
        /\ cv2.building = 0 /\ Lent(lease, sh, cv2)
    BY <1>4, <2>1, <2>4, EvictedFits
  <2>6. heap' = h2 /\ cover' = cv2
    BY <1>4, <1>10, <2>2, <2>4, MemoryParts DEF SetCover
  <2> QED
    BY <1>8, <2>4, <2>5, <2>6
<1> QED
  BY <1>9, <1>10 DEF CoverBlockFails

\* The cover that the block of the book belongs to.
BegunCover == IF novel.started THEN CoverMemory ELSE BeginCover(CoverMemory)
Unfilled(cv, i, n) ==
    /\ cv \in Covers /\ i \in {1, 2} /\ cv.building = i /\ cv.active = 0
    /\ cv.titles = cover.titles
    /\ cv.slots[i].data # NoBuffer /\ cv.slots[i].used = n /\ n \in Nat /\ n < Blocks
    /\ WholeTitled(cv) /\ Lent(lease, shelf, cv)

\* The cover under way has room for a block, if it has just begun or before,
LEMMA CoverBegins ==
    ASSUME CoversInv, novel.waiting,
           novel.started \/ HasRoom(HeapForCover(CancelCover(CoverMemory)))
    PROVE  \E h, cv, i, n :
             /\ BegunCover = Memory(h, cv)
             /\ Kept(h, shelf, books.page, cv, novel.title) /\ Unfilled(cv, i, n)
<1>1. /\ cover \in Covers /\ CoverTitled(cover)
      /\ Kept(heap, shelf, books.page, cover, novel.title)
      /\ Lent(lease, shelf, cover) /\ NovelFits(novel, books, cover)
  BY DEF CoversInv, CoversFit, CoverShape
<1>2. CoverMemory = Memory(heap, cover)
  BY DEF CoverMemory, Memory
<1>3. WholeTitled(cover) /\ cover.active = 0
  BY <1>1 DEF CoverTitled, NovelFits
<1>4. CASE novel.started
  <2>1. cover.building # 0
    BY <1>1, <1>4 DEF NovelFits
  <2>2. PICK i \in {1, 2} : i = cover.building
    BY <1>1, <2>1, CoverParts
  <2>3. PICK n \in Nat : n = cover.slots[i].used
    BY <1>1, CoverParts
  <2>4. Unfilled(cover, i, n)
    BY <1>1, <1>3, <2>1, <2>2, <2>3 DEF Unfilled, CoverTitled
  <2>5. BegunCover = Memory(heap, cover)
    BY <1>2, <1>4 DEF BegunCover
  <2> QED
    BY <1>1, <2>4, <2>5
<1>5. CASE ~ novel.started
  <2>1. cover.building = 0
    BY <1>1, <1>5 DEF NovelFits
  <2>2. PICK h, sh, page, title :
          h = heap /\ sh = shelf /\ page = books.page /\ title = novel.title
    OBVIOUS
  <2>3. PICK cv \in Covers : cv = cover
    BY <1>1
  <2>4. FreeCoverSlots(cv) # {}
    BY <1>1, <1>3, <2>3, HasSlot
  <2>5. HasRoom(HeapForCover(Memory(h, cv)))
    <3>1. CancelCover(Memory(h, cv)) = Memory(h, cv)
      BY <2>1, <2>3, MemoryParts DEF CancelCover
    <3> QED
      BY <1>2, <1>5, <2>2, <2>3, <3>1
  <2>6. PICK h2, cv2, i, b :
          /\ BeginCover(Memory(h, cv)) = Memory(h2, cv2)
          /\ Kept(h2, sh, page, cv2, title)
          /\ i \in FreeCoverSlots(cv) /\ b \in Buffers /\ CoverBegun(cv2, cv, i, b)
    <3>1. Kept(h, sh, page, cv, title) /\ cv.building = 0
      BY <1>1, <2>1, <2>2, <2>3
    <3> QED
      BY <2>4, <2>5, <3>1, BeginCoverKeeps
  <2>7. BegunCover = Memory(h2, cv2)
    BY <1>2, <1>5, <2>2, <2>3, <2>6 DEF BegunCover
  <2>8. Unfilled(cv2, i, 0)
    <3>1. i \in {1, 2} /\ cv.slots[i].references = 0
      BY <2>3, <2>6, CoverParts DEF FreeCoverSlots
    <3>2. /\ cv2 \in Covers /\ cv2.active = 0 /\ cv2.building = i
          /\ cv2.titles = cover.titles
          /\ cv2.slots[i].data # NoBuffer /\ cv2.slots[i].used = 0
          /\ cv2.slots[i].references = 0
          /\ \A j \in {1, 2} \ {i} : cv2.slots[j] = cv.slots[j]
      BY <1>3, <2>3, <2>6, CoverAssumption DEF CoverBegun, Ends, OtherSlots
    <3>3. WholeTitled(cv2)
      BY <1>3, <2>1, <2>3, <3>1, <3>2 DEF WholeTitled
    <3>4. Lent(lease, shelf, cv2)
      <4>1. Lent(lease, shelf, cv)
        BY <1>1, <2>3
      <4>2. ~ (lease.store = "reader" /\ lease.slot = i)
        BY <3>1, <4>1 DEF Lent
      <4>3. \A j \in {1, 2} : cv2.slots[j].references = cv.slots[j].references
        BY <3>1, <3>2
      <4>4. lease.store = "reader" => lease.slot \in {1, 2} \ {i}
        BY <4>1, <4>2 DEF Lent
      <4>5. lease.store = "reader" => cv2.slots[lease.slot] = cv.slots[lease.slot]
        BY <3>2, <4>4
      <4> QED
        BY <3>2, <4>1, <4>2, <4>3, <4>4, <4>5 DEF Lent
    <3>5. 0 < Blocks
      BY CoverAssumption
    <3> QED
      BY <3>1, <3>2, <3>3, <3>4, <3>5 DEF Unfilled
  <2> QED
    BY <2>2, <2>6, <2>7, <2>8
<1> QED
  BY <1>4, <1>5

\* The block is in place: the cover in slot i has n blocks.
Filled(cv, i, n) ==
    /\ cv \in Covers /\ i \in {1, 2} /\ cv.building = i /\ cv.active = 0
    /\ cv.titles = cover.titles
    /\ cv.slots[i].data # NoBuffer /\ cv.slots[i].used = n /\ n \in 1 .. Blocks
    /\ WholeTitled(cv) /\ Lent(lease, shelf, cv)

\* takes it,
LEMMA CoverTakesBlock ==
    ASSUME CoversInv, NEW h, NEW cv, NEW i, NEW n, Unfilled(cv, i, n),
           Kept(h, shelf, books.page, cv, novel.title)
    PROVE  \E h2, cv2 :
             /\ AppendCover(Memory(h, cv), novel.title) = Memory(h2, cv2)
             /\ Kept(h2, shelf, books.page, cv2, novel.title)
             /\ Filled(cv2, i, n + 1)
<1>1. /\ cv \in Covers /\ i \in {1, 2} /\ cv.building = i /\ cv.active = 0
      /\ cv.titles = cover.titles
      /\ cv.slots[i].data # NoBuffer /\ cv.slots[i].used = n /\ n \in Nat /\ n < Blocks
      /\ WholeTitled(cv) /\ Lent(lease, shelf, cv)
  BY DEF Unfilled
<1>2. PICK sh, page, title : sh = shelf /\ page = books.page /\ title = novel.title
  OBVIOUS
<1>3. PICK h2, cv2 :
        /\ AppendCover(Memory(h, cv), title) = Memory(h2, cv2)
        /\ Kept(h2, sh, page, cv2, title) /\ CoverLonger(cv2, cv, i, n + 1)
  <2>1. Kept(h, sh, page, cv, title)
    BY <1>2
  <2> QED
    BY <1>1, <2>1, AppendCoverKeeps
<1>4. /\ cv2 \in Covers /\ cv2.active = 0 /\ cv2.building = i /\ cv2.titles = cover.titles
      /\ cv2.slots[i].data # NoBuffer /\ cv2.slots[i].used = n + 1
      /\ cv2.slots[i].references = cv.slots[i].references
      /\ \A j \in {1, 2} \ {i} : cv2.slots[j] = cv.slots[j]
  BY <1>1, <1>3 DEF CoverLonger, Ends, OtherSlots
<1>5. WholeTitled(cv2)
  BY <1>1, <1>4 DEF WholeTitled
<1>6. Lent(lease, shelf, cv2)
  <2>1. \A j \in {1, 2} : cv2.slots[j].references = cv.slots[j].references
    BY <1>1, <1>4
  <2>2. lease.store = "reader" => lease.slot \in {1, 2} \ {i}
    BY <1>1 DEF Lent
  <2>3. lease.store = "reader" => cv2.slots[lease.slot] = cv.slots[lease.slot]
    BY <1>4, <2>2
  <2> QED
    BY <1>1, <1>4, <2>1, <2>2, <2>3 DEF Lent
<1>7. n + 1 \in 1 .. Blocks
  BY <1>1, CoverAssumption
<1>8. Filled(cv2, i, n + 1)
  BY <1>1, <1>4, <1>5, <1>6, <1>7 DEF Filled
<1> QED
  BY <1>2, <1>3, <1>8

\* and is shown once it is whole.
LEMMA CommittedCoverFits ==
    ASSUME NEW cv, NEW i, Filled(cv, i, Blocks), NEW title \in BookCovers \cup {0},
           NEW cv2, CoverCommitted(cv2, cv, i, title)
    PROVE  /\ cv2 \in Covers /\ CoverTitled(cv2) /\ Lent(lease, shelf, cv2)
           /\ cv2.active = i /\ cv2.building = 0
           /\ cv2.titles # cover.titles /\ Len(cv2.titles) \in Nat \ {0}
<1>1. /\ cv \in Covers /\ i \in {1, 2} /\ cv.building = i /\ cv.titles = cover.titles
      /\ cv.slots[i].data # NoBuffer /\ cv.slots[i].used = Blocks
      /\ WholeTitled(cv) /\ Lent(lease, shelf, cv)
  BY DEF Filled
<1>2. /\ cv2 \in Covers /\ cv2.active = i /\ cv2.building = 0
      /\ cv2.titles = Append(cv.titles, title)
      /\ cv2.slots[i].data = cv.slots[i].data /\ cv2.slots[i].used = cv.slots[i].used
      /\ cv2.slots[i].references = cv.slots[i].references
      /\ cv2.slots[i].generation = Len(cv.titles) + 1
      /\ \A j \in {1, 2} \ {i} : cv2.slots[j] = cv.slots[j]
  BY DEF CoverCommitted, Ends, OtherSlots
<1>3. PICK k \in Nat : k = Len(cv.titles)
  BY <1>1, CoverParts, LenProperties
<1>4. Len(cv2.titles) = k + 1
  <2>1. PICK q \in Seq(BookCovers \cup {0}) : q = cv.titles
    BY <1>1, CoverParts
  <2>2. Len(Append(q, title)) = k + 1
    BY <1>3, <2>1, TitlesLonger
  <2> QED
    BY <1>2, <2>1, <2>2
<1>5. cv2.titles # cover.titles /\ Len(cv2.titles) \in Nat \ {0}
  BY <1>1, <1>3, <1>4
<1>6. CoverTitled(cv2)
  <2>1. ASSUME NEW j \in {1, 2}, cv2.slots[j].data # NoBuffer
        PROVE  cv2.slots[j].used = Blocks /\ cv2.slots[j].generation \in 1 .. k + 1
    <3>1. CASE j = i
      BY <1>1, <1>2, <1>3, <3>1
    <3>2. CASE j # i
      BY <1>1, <1>2, <1>3, <2>1, <3>2 DEF WholeTitled
    <3> QED
      BY <3>1, <3>2
  <2> QED
    BY <1>2, <1>4, <2>1 DEF CoverTitled, WholeTitled
<1>7. Lent(lease, shelf, cv2)
  <2>1. \A j \in {1, 2} : cv2.slots[j].references = cv.slots[j].references
    BY <1>1, <1>2
  <2>2. lease.store = "reader" => lease.slot \in {1, 2} \ {i}
    BY <1>1 DEF Lent
  <2>3. lease.store = "reader" => cv2.slots[lease.slot] = cv.slots[lease.slot]
    BY <1>2, <2>2
  <2> QED
    BY <1>1, <1>2, <2>1, <2>2, <2>3 DEF Lent
<1> QED
  BY <1>2, <1>5, <1>6, <1>7

TakenCover == AppendCover(BegunCover, novel.title)
DoneCover == CommitCover(TakenCover, novel.title)

\* The ways in which a block of the book's cover is taken.
LEMMA TakeCoverBlockIs ==
    ASSUME TakeCoverBlock
    PROVE  /\ novel.waiting /\ UNCHANGED <<shelf, books, reads, lease>>
           /\ novel.started \/ HasRoom(HeapForCover(CancelCover(CoverMemory)))
           /\ \/ /\ TakenCover.store.slots[TakenCover.store.building].used < Blocks
                 /\ SetCover(TakenCover) /\ novel' = [novel EXCEPT !.started = TRUE]
              \/ /\ ~ (TakenCover.store.slots[TakenCover.store.building].used < Blocks)
                 /\ SetCover(DoneCover)
                 /\ novel' = [novel EXCEPT !.started = TRUE, !.waiting = FALSE,
                                 !.generation = IF DoneCover.store.titles = cover.titles
                                                THEN 0 ELSE Len(DoneCover.store.titles)]
BY Zenon DEF TakeCoverBlock, TakenCover, DoneCover, BegunCover

\* The last block: a cover that no decoder would take is dropped.
LEMMA DoneCoverKeeps ==
    ASSUME CoversInv, NEW h2, NEW cv2, NEW i, Filled(cv2, i, Blocks),
           TakenCover = Memory(h2, cv2), Kept(h2, shelf, books.page, cv2, novel.title)
    PROVE  \E h3, cv3, g :
             /\ DoneCover = Memory(h3, cv3)
             /\ Kept(h3, shelf, books.page, cv3, novel.title)
             /\ cv3 \in Covers /\ CoverTitled(cv3) /\ Lent(lease, shelf, cv3)
             /\ cv3.building = 0 /\ g \in Nat /\ (cv3.active # 0 => g # 0)
             /\ g = IF cv3.titles = cover.titles THEN 0 ELSE Len(cv3.titles)
<1>1. /\ cv2 \in Covers /\ i \in {1, 2} /\ cv2.building = i /\ cv2.active = 0
      /\ cv2.titles = cover.titles /\ WholeTitled(cv2) /\ Lent(lease, shelf, cv2)
  BY DEF Filled
<1>2. novel.title \in BookCovers \cup {0}
  BY DEF CoversInv, CoversFit, CoverShape, NovelShape
<1>3. PICK sh, page : sh = shelf /\ page = books.page
  OBVIOUS
<1>4. PICK title \in BookCovers \cup {0} : title = novel.title
  BY <1>2
<1>5. Kept(h2, sh, page, cv2, title)
  BY <1>3, <1>4
<1>6. DoneCover = CommitCover(Memory(h2, cv2), title)
  BY <1>4 DEF DoneCover
<1>7. CASE ImageValid(cv2.slots[i], title)
  <2>1. PICK cv3 :
          /\ CommitCover(Memory(h2, cv2), title) = Memory(h2, cv3)
          /\ Kept(h2, sh, page, cv3, title) /\ CoverCommitted(cv3, cv2, i, title)
    BY <1>1, <1>5, <1>7, CommitCoverKeeps
  <2>2. /\ cv3 \in Covers /\ CoverTitled(cv3) /\ Lent(lease, shelf, cv3)
        /\ cv3.active = i /\ cv3.building = 0
        /\ cv3.titles # cover.titles /\ Len(cv3.titles) \in Nat \ {0}
    BY <2>1, CommittedCoverFits
  <2>3. PICK g \in Nat : g = Len(cv3.titles) /\ g # 0
    BY <2>2
  <2> QED
    BY <1>3, <1>4, <1>6, <2>1, <2>2, <2>3
<1>8. CASE ~ ImageValid(cv2.slots[i], title)
  <2>1. CommitCover(Memory(h2, cv2), title) = CancelCover(Memory(h2, cv2))
    BY <1>1, <1>8, MemoryParts DEF CommitCover
  <2>2. PICK h3, cv3 :
          /\ CancelCover(Memory(h2, cv2)) = Memory(h3, cv3)
          /\ Kept(h3, sh, page, cv3, title) /\ Dropped(cv3, cv2)
    BY <1>1, <1>5, CancelCoverKeeps
  <2>3. /\ CoverTitled(cv3) /\ cv3 \in Covers /\ cv3.active = 0 /\ cv3.building = 0
        /\ cv3.titles = cover.titles /\ Lent(lease, shelf, cv3)
    BY <1>1, <2>2, DroppedFits
  <2> QED
    BY <1>3, <1>4, <1>6, <2>1, <2>2, <2>3
<1> QED
  BY <1>7, <1>8

\* A block of the book's cover is taken.
LEMMA TakeCoverBlockKeeps ==
    ASSUME CoversInv, TakeCoverBlock
    PROVE  CoversInv'
<1>1. /\ novel.waiting /\ UNCHANGED <<shelf, books, reads, lease>>
      /\ novel.started \/ HasRoom(HeapForCover(CancelCover(CoverMemory)))
  BY TakeCoverBlockIs
<1>2. PICK h, cv, i, n :
        /\ BegunCover = Memory(h, cv)
        /\ Kept(h, shelf, books.page, cv, novel.title) /\ Unfilled(cv, i, n)
  BY <1>1, CoverBegins
<1>3. PICK h2, cv2 :
        /\ AppendCover(Memory(h, cv), novel.title) = Memory(h2, cv2)
        /\ Kept(h2, shelf, books.page, cv2, novel.title) /\ Filled(cv2, i, n + 1)
  BY <1>2, CoverTakesBlock
<1>4. TakenCover = Memory(h2, cv2)
  BY <1>2, <1>3 DEF TakenCover
<1>5. /\ cv2 \in Covers /\ i \in {1, 2} /\ cv2.building = i /\ cv2.active = 0
      /\ cv2.slots[i].data # NoBuffer /\ cv2.slots[i].used = n + 1
      /\ n + 1 \in 1 .. Blocks /\ WholeTitled(cv2) /\ Lent(lease, shelf, cv2)
  BY <1>3 DEF Filled
<1>6. /\ novel \in NovelShape /\ NovelFits(novel, books, cover)
  BY DEF CoversInv, CoversFit, CoverShape
<1>7. TakenCover.store.slots[TakenCover.store.building].used = n + 1
  BY <1>4, <1>5, MemoryParts
<1>8. CASE n + 1 < Blocks
  <2>1. PICK no : no = [novel EXCEPT !.started = TRUE]
    OBVIOUS
  <2>2. /\ no \in NovelShape /\ no.open = novel.open /\ no.title = novel.title
        /\ no.waiting = novel.waiting /\ no.started /\ no.generation = novel.generation
    BY <1>6, <2>1 DEF NovelShape
  <2>3. heap' = h2 /\ cover' = cv2 /\ novel' = no
    BY <1>4, <1>7, <1>8, <2>1, TakeCoverBlockIs, MemoryParts DEF SetCover
  <2>4. NovelFits(no, books, cv2)
    BY <1>1, <1>5, <1>6, <2>2 DEF NovelFits
  <2>5. CoverTitled(cv2)
    BY <1>5, <1>8 DEF CoverTitled
  <2>6. Kept(h2, shelf, books.page, cv2, no.title)
    BY <1>3, <2>2
  <2> QED
    BY <1>1, <1>5, <2>2, <2>3, <2>4, <2>5, <2>6, ReaderMoves
<1>9. CASE ~ (n + 1 < Blocks)
  <2>1. Filled(cv2, i, Blocks)
    <3>1. n + 1 = Blocks
      BY <1>5, <1>9, CoverAssumption
    <3> QED
      BY <1>3, <3>1
  <2>2. PICK h3, cv3, g :
          /\ DoneCover = Memory(h3, cv3)
          /\ Kept(h3, shelf, books.page, cv3, novel.title)
          /\ cv3 \in Covers /\ CoverTitled(cv3) /\ Lent(lease, shelf, cv3)
          /\ cv3.building = 0 /\ g \in Nat /\ (cv3.active # 0 => g # 0)
          /\ g = IF cv3.titles = cover.titles THEN 0 ELSE Len(cv3.titles)
    BY <1>3, <1>4, <2>1, DoneCoverKeeps
  <2>3. PICK no : no = [novel EXCEPT !.started = TRUE, !.waiting = FALSE, !.generation = g]
    OBVIOUS
  <2>4. /\ no \in NovelShape /\ no.open = novel.open /\ no.title = novel.title
        /\ ~ no.waiting /\ no.generation = g
    BY <1>6, <2>2, <2>3 DEF NovelShape
  <2>5. heap' = h3 /\ cover' = cv3 /\ novel' = no
    <3>1. /\ SetCover(DoneCover)
          /\ novel' = [novel EXCEPT !.started = TRUE, !.waiting = FALSE,
                          !.generation = IF DoneCover.store.titles = cover.titles
                                         THEN 0 ELSE Len(DoneCover.store.titles)]
      BY <1>7, <1>9, TakeCoverBlockIs
    <3>2. DoneCover.store = cv3 /\ DoneCover.heap = h3
      BY <2>2, MemoryParts
    <3>3. novel' = no
      BY <2>2, <2>3, <3>1, <3>2
    <3> QED
      BY <3>1, <3>2, <3>3 DEF SetCover
  <2>6. NovelFits(no, books, cv3)
    BY <1>6, <2>2, <2>4 DEF NovelFits
  <2>7. Kept(h3, shelf, books.page, cv3, no.title)
    BY <2>2, <2>4
  <2> QED
    BY <1>1, <2>2, <2>4, <2>5, <2>6, <2>7, ReaderMoves
<1> QED
  BY <1>8, <1>9

\* Reader without a cover so far.
Uncovered(open, title, opened) ==
    [open |-> open, title |-> title, waiting |-> FALSE, started |-> FALSE,
     generation |-> 0, opened |-> opened]
\* A book whose cover has not been asked for.
LEMMA UncoveredIs ==
    \A title \in BookCovers \cup {0}, open \in BOOLEAN, opened \in Nat :
        /\ Uncovered(open, title, opened) \in NovelShape
        /\ Uncovered(open, title, opened).open = open
        /\ Uncovered(open, title, opened).title = title
        /\ ~ Uncovered(open, title, opened).waiting
BY DEF NovelShape, Uncovered

\* Reader's store, cleared for another book.
LEMMA ClearedCover ==
    ASSUME CoversInv, NEW h, NEW sh, Kept(h, sh, books.page, cover, novel.title), NEW title
    PROVE  \E h2, cv2 :
             /\ ClearCover(Memory(h, cover)) = Memory(h2, cv2)
             /\ Kept(h2, sh, books.page, cv2, title)
             /\ CoverTitled(cv2) /\ cv2 \in Covers
             /\ cv2.active = 0 /\ cv2.building = 0
             /\ \A le, s : Lent(le, s, cover) => Lent(le, s, cv2)
<1>1. PICK page, old : page = books.page /\ old = novel.title
  OBVIOUS
<1>2. PICK cv \in Covers : cv = cover
  BY DEF CoversInv, CoversFit, CoverShape
<1>3. WholeTitled(cv)
  BY <1>2 DEF CoversInv, CoversFit, CoverTitled
<1>4. PICK h2, cv2 :
        /\ ClearCover(Memory(h, cv)) = Memory(h2, cv2)
        /\ Kept(h2, sh, page, cv2, old) /\ CoversCleared(cv2, cv)
  <2>1. Kept(h, sh, page, cv, old)
    BY <1>1, <1>2
  <2> QED
    BY <2>1, ClearCoverKeeps
<1>5. /\ CoverTitled(cv2) /\ cv2 \in Covers /\ cv2.active = 0 /\ cv2.building = 0
      /\ \A le, s : Lent(le, s, cv) => Lent(le, s, cv2)
  BY <1>3, <1>4, CoversClearedFit
<1>6. Kept(h2, sh, page, cv2, title)
  BY <1>4, <1>5, KeptElsewhere
<1> QED
  BY <1>1, <1>2, <1>4, <1>5, <1>6

\* Books is closed and Reader opened.
LEMMA OpenNovelKeeps ==
    ASSUME CoversInv, OpenNovel
    PROVE  CoversInv'
<1>1. PICK h1, sh1 :
        /\ CancelledRequest(ShelfMemory, books) = Memory(h1, sh1)
        /\ sh1 \in Shelf /\ Kept(h1, sh1, books.page, cover, novel.title)
        /\ SameShown(sh1, shelf) /\ NothingBuilt(sh1)
  BY CancelledKeeps
<1>2. PICK title \in BookCovers :
        /\ ~ novel.open
        /\ LET m == CancelledRequest(ShelfMemory, books)
               c == ClearCover([heap |-> m.heap, store |-> cover])
           IN  /\ heap' = c.heap /\ shelf' = m.store /\ cover' = c.store
               /\ novel' = [NoNovel EXCEPT !.open = TRUE, !.title = title,
                                          !.opened = novel.opened + 1]
        /\ books' = [books EXCEPT !.request = NoCoverRequest]
        /\ UNCHANGED <<reads, lease>>
  BY DEF OpenNovel
<1>3. PICK h2, cv2 :
        /\ ClearCover(Memory(h1, cover)) = Memory(h2, cv2)
        /\ Kept(h2, sh1, books.page, cv2, title)
        /\ CoverTitled(cv2) /\ cv2 \in Covers
        /\ cv2.active = 0 /\ cv2.building = 0
        /\ \A le, s : Lent(le, s, cover) => Lent(le, s, cv2)
  BY <1>1, ClearedCover
<1>4. /\ heap' = h2 /\ shelf' = sh1 /\ cover' = cv2
  <2>1. PICK m : m = CancelledRequest(ShelfMemory, books)
    OBVIOUS
  <2>2. m.heap = h1 /\ m.store = sh1
    BY <1>1, <2>1, MemoryParts
  <2>3. [heap |-> m.heap, store |-> cover] = Memory(h1, cover)
    BY <2>2 DEF Memory
  <2>4. /\ heap' = ClearCover([heap |-> m.heap, store |-> cover]).heap
        /\ shelf' = m.store
        /\ cover' = ClearCover([heap |-> m.heap, store |-> cover]).store
    BY <1>2, <2>1
  <2> QED
    BY <1>3, <2>2, <2>3, <2>4, MemoryParts
<1>5. /\ books \in BooksShape /\ reads \in Seq(CoverBlock) /\ novel \in NovelShape
      /\ lease \in LeaseShape /\ shelf \in Shelf
      /\ ShelfTitled(shelf) /\ Lent(lease, shelf, cover)
      /\ ReadsKnown(reads, books) /\ Counted(shelf, books) /\ Titled(shelf, books)
  BY DEF CoversInv, CoversFit, CoverShape
<1>6. PICK no : no = [NoNovel EXCEPT !.open = TRUE, !.title = title,
                                     !.opened = novel.opened + 1]
  OBVIOUS
<1>7. /\ no \in NovelShape /\ no.open /\ no.title = title /\ ~ no.waiting
  <2>1. PICK opened \in Nat : opened = novel.opened + 1
    BY <1>5 DEF NovelShape
  <2>2. PICK open \in BOOLEAN : open = TRUE
    OBVIOUS
  <2>3. no = Uncovered(open, title, opened)
    BY <1>6, <2>1, <2>2 DEF NoNovel, Uncovered
  <2> QED
    BY <2>1, <2>2, <2>3, UncoveredIs
<1>8. PICK b : b = [books EXCEPT !.request = NoCoverRequest]
  OBVIOUS
<1>9. /\ b \in BooksShape /\ b.page = books.page /\ b.generations = books.generations
      /\ b.lastRead = books.lastRead /\ ~ b.request.busy /\ ~ b.request.started
  <2>1. PICK r \in CoverRequest : r = NoCoverRequest /\ ~ r.busy /\ ~ r.started
    BY NoRequest
  <2>2. b = [books EXCEPT !.request = r]
    BY <1>8, <2>1
  <2>3. /\ b \in BooksShape /\ b.page = books.page /\ b.generations = books.generations
        /\ b.lastRead = books.lastRead /\ b.request = r
    BY <1>5, <2>2 DEF BooksShape
  <2> QED
    BY <2>1, <2>3
<1>10. ShelfTitled(sh1) /\ Lent(lease, sh1, cv2) /\ Counted(sh1, books) /\ Titled(sh1, books)
  BY <1>1, <1>3, <1>5, ShownSame
<1>11. ReadsKnown(reads, b)
  BY <1>5, <1>9, ReadsOfOther
<1>12. Counted(sh1, b)
  <2>1. PICK k \in Nat : k = Len(sh1.titles)
    BY <1>1, ShelfParts, LenProperties
  <2>2. PICK n \in Nat : n = books.lastRead
    BY <1>5, BooksParts
  <2>3. PICK z \in {0, 1} : z = IF books.request.busy THEN 1 ELSE 0
    OBVIOUS
  <2>4. k + z <= n /\ n <= MaxReads
    BY <1>10, <2>1, <2>2, <2>3 DEF Counted
  <2>5. k <= n
    BY <2>4
  <2> QED
    BY <1>9, <2>1, <2>2, <2>4, <2>5 DEF Counted
<1>13. Titled(sh1, b) /\ BuiltForRequest(sh1, b)
  BY <1>1, <1>9, <1>10 DEF Titled, BuiltForRequest, NothingBuilt
<1>14. NovelFits(no, b, cv2)
  BY <1>3, <1>7, <1>9 DEF NovelFits
<1>15. Kept(h2, sh1, b.page, cv2, no.title)
  BY <1>3, <1>7, <1>9
<1>16. PICK q, le : q = reads /\ le = lease
  OBVIOUS
<1>17. CoversFit(h2, sh1, b, q, cv2, no, le)
  BY <1>1, <1>3, <1>5, <1>7, <1>9, <1>10, <1>11, <1>12, <1>13, <1>14, <1>15, <1>16
     DEF CoversFit, CoverShape
<1>18. /\ heap' = h2 /\ shelf' = sh1 /\ books' = b /\ reads' = q /\ cover' = cv2
       /\ novel' = no /\ lease' = le
  BY <1>2, <1>4, <1>6, <1>8, <1>16
<1> QED
  BY <1>17, <1>18 DEF CoversInv

\* Reader is closed and Books opened.
LEMMA CloseNovelKeeps ==
    ASSUME CoversInv, CloseNovel
    PROVE  CoversInv'
<1>1. /\ books \in BooksShape /\ reads \in Seq(CoverBlock) /\ novel \in NovelShape
      /\ lease \in LeaseShape /\ shelf \in Shelf
      /\ Kept(heap, shelf, books.page, cover, novel.title)
      /\ ShelfTitled(shelf) /\ Lent(lease, shelf, cover) /\ BuiltForRequest(shelf, books)
      /\ ReadsKnown(reads, books) /\ Counted(shelf, books) /\ Titled(shelf, books)
      /\ NovelFits(novel, books, cover)
  BY DEF CoversInv, CoversFit, CoverShape
<1>2. /\ novel.open /\ SetCover(ClearCover(CoverMemory))
      /\ novel' = [NoNovel EXCEPT !.opened = novel.opened]
      /\ StartNextCover(books, reads) /\ UNCHANGED <<shelf, lease>>
  BY DEF CloseNovel
<1>3. PICK h2, cv2 :
        /\ ClearCover(Memory(heap, cover)) = Memory(h2, cv2)
        /\ Kept(h2, shelf, books.page, cv2, 0)
        /\ CoverTitled(cv2) /\ cv2 \in Covers
        /\ cv2.active = 0 /\ cv2.building = 0
        /\ \A le, s : Lent(le, s, cover) => Lent(le, s, cv2)
  <2>1. PICK h, sh : h = heap /\ sh = shelf
    OBVIOUS
  <2>2. Kept(h, sh, books.page, cover, novel.title)
    BY <1>1, <2>1
  <2> QED
    BY <2>1, <2>2, ClearedCover
<1>4. heap' = h2 /\ cover' = cv2
  BY <1>2, <1>3, MemoryParts DEF SetCover, CoverMemory, Memory
<1>5. PICK no : no = [NoNovel EXCEPT !.opened = novel.opened]
  OBVIOUS
<1>6. /\ no \in NovelShape /\ ~ no.open /\ no.title = 0 /\ ~ no.waiting
  <2>1. PICK opened \in Nat : opened = novel.opened
    BY <1>1 DEF NovelShape
  <2>2. PICK open \in BOOLEAN, title \in BookCovers \cup {0} : open = FALSE /\ title = 0
    OBVIOUS
  <2>3. no = Uncovered(open, title, opened)
    BY <1>5, <2>1, <2>2 DEF NoNovel, Uncovered
  <2> QED
    BY <2>1, <2>2, <2>3, UncoveredIs
<1>7. ~ books.request.busy /\ ~ books.request.started
  BY <1>1, <1>2 DEF NovelFits
<1>8. PICK b, q : b = books /\ q = reads
  OBVIOUS
<1>9. PICK sh \in Shelf : sh = shelf
  BY <1>1
<1>10. Between(sh, b, q) /\ NothingBuilt(sh) /\ StartNextCover(b, q)
  BY <1>1, <1>2, <1>7, <1>8, <1>9 DEF Between, NothingBuilt, BuiltForRequest
<1>11. PICK b2, q2 :
         /\ books' = b2 /\ reads' = q2 /\ b2 \in BooksShape /\ q2 \in Seq(CoverBlock)
         /\ b2.page = b.page /\ ~ b2.request.started
         /\ ReadsKnown(q2, b2) /\ Counted(sh, b2) /\ Titled(sh, b2)
  BY <1>10, NextCover
<1>12. BuiltForRequest(sh, b2)
  BY <1>10 DEF NothingBuilt, BuiltForRequest
<1>13. NovelFits(no, b2, cv2)
  BY <1>3, <1>6, <1>11 DEF NovelFits
<1>14. Kept(h2, sh, b2.page, cv2, no.title)
  BY <1>3, <1>6, <1>8, <1>9, <1>11
<1>15. PICK le : le = lease
  OBVIOUS
<1>16. ShelfTitled(sh) /\ Lent(le, sh, cv2) /\ le \in LeaseShape
  BY <1>1, <1>3, <1>9, <1>15
<1>17. CoversFit(h2, sh, b2, q2, cv2, no, le)
  BY <1>3, <1>6, <1>11, <1>12, <1>13, <1>14, <1>16 DEF CoversFit, CoverShape
<1> QED
  BY <1>2, <1>4, <1>5, <1>9, <1>11, <1>15, <1>17 DEF CoversInv
-----------------------------------------------------------------------------
(* The steps of the renderer.                                              *)

\* A slot is lent, or handed back; what is shown of A is let go.
SameUnlent(sh2, sh, A) ==
    /\ sh2 \in Shelf /\ sh2.titles = sh.titles
    /\ \A s \in A : sh2.slots[s].active = NoBuffer
    /\ \A s \in ShelfSlots \ A : /\ sh2.slots[s].active = sh.slots[s].active
                                 /\ sh2.slots[s].generation = sh.slots[s].generation
    /\ \A s \in ShelfSlots : /\ sh2.slots[s].building = sh.slots[s].building
                             /\ sh2.slots[s].used = sh.slots[s].used

\* What the renderer does leaves the apps' state: the stores have to fit the lease.
LEMMA RendererMoves ==
    ASSUME CoversInv, NEW h, NEW sh, NEW A, SameUnlent(sh, shelf, A),
           NEW cv \in Covers, NEW le \in LeaseShape,
           Kept(h, sh, books.page, cv, novel.title), CoverTitled(cv), Lent(le, sh, cv),
           cv.active = cover.active, cv.building = cover.building,
           heap' = h, shelf' = sh, cover' = cv, lease' = le, UNCHANGED <<books, reads, novel>>
    PROVE  CoversInv'
<1>1. PICK b, q, no : b = books /\ q = reads /\ no = novel
  OBVIOUS
<1>2. CoverShape(sh, b, q, cv, no, le)
  BY <1>1 DEF CoversInv, CoversFit, CoverShape, SameUnlent
<1>3. ShelfTitled(sh) /\ BuiltForRequest(sh, b)
  <2>1. ShelfTitled(shelf) /\ BuiltForRequest(shelf, b)
    BY <1>1 DEF CoversInv, CoversFit
  <2>2. ShelfTitled(sh)
    BY <2>1 DEF SameUnlent, ShelfTitled
  <2>3. BuiltForRequest(sh, b)
    BY <2>1 DEF SameUnlent, BuiltForRequest
  <2> QED
    BY <2>2, <2>3
<1>4. ReadsKnown(q, b) /\ Counted(sh, b) /\ Titled(sh, b)
  <2>1. ReadsKnown(q, b) /\ Counted(shelf, b) /\ Titled(shelf, b)
    BY <1>1 DEF CoversInv, CoversFit
  <2> QED
    BY <2>1 DEF SameUnlent, Counted, Titled
<1>5. NovelFits(no, b, cv)
  BY <1>1 DEF CoversInv, CoversFit, NovelFits
<1>6. CoversFit(h, sh, b, q, cv, no, le)
  BY <1>1, <1>2, <1>3, <1>4, <1>5 DEF CoversFit
<1> QED
  BY <1>1, <1>6 DEF CoversInv

\* The heap without what the shelf lets go.
LEMMA UnlentKeeps ==
    ASSUME CoversInv, NEW sh, NEW A \in SUBSET ShelfSlots, SameUnlent(sh, shelf, A),
           NEW X, X = {shelf.slots[s].active : s \in A}
    PROVE  Kept(Without(X, heap), sh, books.page, cover, novel.title)
<1>1. PICK h, page, cv, title :
        h = heap /\ page = books.page /\ cv = cover /\ title = novel.title
  OBVIOUS
<1>2. PICK sh0 : sh0 = shelf
  OBVIOUS
<1>3. Kept(h, sh0, page, cv, title)
  BY <1>1, <1>2 DEF CoversInv, CoversFit
<1>4. PICK B \in SUBSET ShelfSlots : B = {}
  OBVIOUS
<1>5. ShelfFreed(sh, sh0, A, B)
  BY <1>2, <1>4 DEF SameUnlent, ShelfFreed
<1>6. X \ {NoBuffer} = ShelfLetGo(sh0, A, B) \ {NoBuffer}
  BY <1>2, <1>4 DEF ShelfLetGo
<1>7. Kept(Without(X, h), sh, page, cv, title)
  BY <1>3, <1>5, <1>6, ShelfLess
<1> QED
  BY <1>1, <1>7

\* Nothing freed leaves the heap as it is.
LEMMA HeapWhole ==
    ASSUME CoversInv
    PROVE  Without({}, heap) = heap
<1>1. PICK h, at, text :
        /\ h = heap /\ at = At(shelf, cover)
        /\ text = Text(shelf, books.page, cover, novel.title)
  OBVIOUS
<1>2. Stored(h, at, text)
  BY <1>1 DEF CoversInv, CoversFit, Kept
<1>3. PICK X : X = {}
  OBVIOUS
<1>4. Without(X, h) = h
  BY <1>2, <1>3, WithoutNone
<1> QED
  BY <1>1, <1>3, <1>4

\* Slot s of the shelf lent to n frames, the rest as it was.
Counts(sh2, sh, s, n) ==
    /\ sh2.slots[s].references = n
    /\ \A t \in ShelfSlots \ {s} : sh2.slots[t].references = sh.slots[t].references

\* The count of one slot of the shelf is set.
LEMMA ReferenceSet ==
    ASSUME NEW sh \in Shelf, NEW s \in ShelfSlots, NEW n \in Nat, NEW u,
           u = [sh.slots[s] EXCEPT !.references = n], NEW f, f = [sh.slots EXCEPT ![s] = u],
           NEW sh2, sh2 = [sh EXCEPT !.slots = f]
    PROVE  SameUnlent(sh2, sh, {}) /\ Counts(sh2, sh, s, n)
<1>1. PICK v : v = sh.slots[s]
  OBVIOUS
<1>2. /\ u \in ShelfSlot /\ u.active = v.active /\ u.generation = v.generation
      /\ u.references = n /\ u.building = v.building /\ u.used = v.used
  <2>1. v \in ShelfSlot
    BY <1>1, ShelfParts
  <2>2. u = [v EXCEPT !.references = n]
    BY <1>1
  <2> QED
    BY <2>1, <2>2 DEF ShelfSlot
<1>3. sh2 = [slots |-> [sh.slots EXCEPT ![s] = u], titles |-> sh.titles]
  BY ShelfParts
<1>4. OneSlotOf(sh2, sh, s, u)
  BY <1>2, <1>3, SlotReplaced
<1>5. /\ sh2 \in Shelf /\ sh2.titles = sh.titles /\ sh2.slots[s] = u
      /\ \A t \in ShelfSlots \ {s} : sh2.slots[t] = sh.slots[t]
  BY <1>4 DEF OneSlotOf
<1>6. \A t \in ShelfSlots : /\ sh2.slots[t].active = sh.slots[t].active
                            /\ sh2.slots[t].generation = sh.slots[t].generation
                            /\ sh2.slots[t].building = sh.slots[t].building
                            /\ sh2.slots[t].used = sh.slots[t].used
  BY <1>1, <1>2, <1>5
<1>7. SameUnlent(sh2, sh, {})
  BY <1>5, <1>6 DEF SameUnlent
<1>8. Counts(sh2, sh, s, n)
  BY <1>2, <1>5 DEF Counts
<1> QED
  BY <1>7, <1>8

\* Without a lease no slot is counted.
LEMMA NothingLent ==
    ASSUME NEW sh, NEW cv, Lent(NoLease, sh, cv)
    PROVE  /\ \A s \in ShelfSlots : sh.slots[s].references = 0
           /\ \A i \in {1, 2} : cv.slots[i].references = 0
BY DEF Lent, NoLease

\* A lease, with its parts.
LeaseOf(store, slot, data, generation) ==
    [store |-> store, slot |-> slot, data |-> data, generation |-> generation]
\* The parts of a lease.
LEMMA LeaseIs ==
    \A store \in {"books", "reader"}, slot \in Nat, data \in Buffers, generation \in Nat :
        /\ LeaseOf(store, slot, data, generation) \in LeaseShape
        /\ LeaseOf(store, slot, data, generation).store = store
        /\ LeaseOf(store, slot, data, generation).slot = slot
        /\ LeaseOf(store, slot, data, generation).data = data
        /\ LeaseOf(store, slot, data, generation).generation = generation
BY DEF LeaseShape, LeaseOf

\* The renderer leases a cover of the shelf,
LEMMA DrawShelfKeeps ==
    ASSUME CoversInv, DrawShelf
    PROVE  CoversInv'
<1>1. /\ shelf \in Shelf /\ cover \in Covers /\ CoverTitled(cover)
      /\ Lent(lease, shelf, cover)
  BY DEF CoversInv, CoversFit, CoverShape
<1>2. PICK g \in DOMAIN shelf.titles :
        /\ lease = NoLease
        /\ ShelfLeased(shelf.slots[shelf.titles[g][2]], g)
        /\ shelf' = [shelf EXCEPT !.slots[shelf.titles[g][2]].references = @ + 1]
        /\ lease' = [store |-> "books", slot |-> shelf.titles[g][2],
                     data |-> shelf.slots[shelf.titles[g][2]].active, generation |-> g]
        /\ UNCHANGED <<heap, books, reads, cover, novel>>
  BY DEF DrawShelf
<1>3. PICK s \in ShelfSlots : s = shelf.titles[g][2]
  <2>1. shelf.titles[g] \in ShelfTitles
    BY <1>1, <1>2, ShelfParts, SequenceOf
  <2> QED
    BY <2>1 DEF ShelfTitles
<1>4. g \in Nat
  BY <1>1, <1>2, ShelfParts, SequenceOf
<1>5. PICK sh0 \in Shelf : sh0 = shelf
  BY <1>1
<1>6. /\ Lent(NoLease, sh0, cover) /\ sh0.slots[s].references = 0
      /\ sh0.slots[s].active # NoBuffer /\ sh0.slots[s].generation = g
  <2>1. Lent(NoLease, sh0, cover)
    BY <1>1, <1>2, <1>5
  <2> QED
    BY <1>2, <1>3, <1>5, <2>1, NothingLent DEF ShelfLeased
<1>7. PICK u, f, sh :
        /\ u = [sh0.slots[s] EXCEPT !.references = 1]
        /\ f = [sh0.slots EXCEPT ![s] = u] /\ sh = [sh0 EXCEPT !.slots = f]
  OBVIOUS
<1>8. shelf' = sh
  <2>1. shelf' = [sh0 EXCEPT !.slots[s].references = @ + 1]
    BY <1>2, <1>3, <1>5
  <2>2. [sh0 EXCEPT !.slots[s].references = @ + 1] = sh
    <3>1. PICK r : r = sh0.slots
      OBVIOUS
    <3>2. PICK v : v = r[s]
      OBVIOUS
    <3>3. sh0 = [slots |-> r, titles |-> sh0.titles] /\ DOMAIN r = ShelfSlots
      BY <3>1, ShelfParts
    <3>4. [sh0 EXCEPT !.slots[s].references = @ + 1] =
            [sh0 EXCEPT !.slots = [r EXCEPT ![s] = [v EXCEPT !.references = 1]]]
      <4>1. v \in ShelfSlot /\ v.references = 0
        BY <1>6, <3>1, <3>2, ShelfParts
      <4> QED
        BY <3>1, <3>2, <3>3, <4>1 DEF ShelfSlot
    <3> QED
      BY <1>7, <3>1, <3>2, <3>4
  <2> QED
    BY <2>1, <2>2
<1>9. SameUnlent(sh, sh0, {}) /\ Counts(sh, sh0, s, 1)
  <2>1. PICK n \in Nat : n = 1
    OBVIOUS
  <2>2. u = [sh0.slots[s] EXCEPT !.references = n]
    BY <1>7, <2>1
  <2>3. SameUnlent(sh, sh0, {}) /\ Counts(sh, sh0, s, n)
    BY <1>7, <2>2, ReferenceSet
  <2> QED
    BY <2>1, <2>3
<1>10. PICK d \in Buffers : d = sh0.slots[s].active
  BY <1>6, ShelfParts
<1>11. PICK le : le = LeaseOf("books", s, d, g)
  OBVIOUS
<1>12. /\ le \in LeaseShape /\ le.store = "books" /\ le.slot = s /\ le.data = d
       /\ le.generation = g
  <2>1. s \in Nat
    BY CoverAssumption
  <2>2. PICK store \in {"books", "reader"} : store = "books"
    OBVIOUS
  <2> QED
    BY <1>4, <1>10, <1>11, <2>1, <2>2, LeaseIs
<1>13. lease' = le
  BY <1>2, <1>3, <1>5, <1>10, <1>11 DEF LeaseOf
<1>14. Lent(le, sh, cover)
  <2>1. \A t \in ShelfSlots : sh0.slots[t].references = 0
    BY <1>6, NothingLent
  <2>2. \A i \in {1, 2} : cover.slots[i].references = 0
    BY <1>6, NothingLent
  <2>3. \A t \in ShelfSlots : sh.slots[t].references = IF t = s THEN 1 ELSE 0
    BY <1>9, <2>1 DEF Counts
  <2>4. sh.slots[s].active = d /\ sh.slots[s].generation = g
    BY <1>6, <1>9, <1>10 DEF SameUnlent
  <2>5. d # NoBuffer
    BY <1>10, CoverAssumption
  <2> QED
    BY <1>12, <2>2, <2>3, <2>4, <2>5 DEF Lent
<1>15. Kept(heap, sh, books.page, cover, novel.title)
  <2>1. PICK A, X : A = {} /\ X = {}
    OBVIOUS
  <2>2. /\ A \in SUBSET ShelfSlots
        /\ SameUnlent(sh, shelf, A) /\ X = {shelf.slots[t].active : t \in A}
    BY <1>5, <1>9, <2>1
  <2>3. Kept(Without(X, heap), sh, books.page, cover, novel.title)
    BY <2>2, UnlentKeeps
  <2> QED
    BY <2>1, <2>3, HeapWhole
<1>16. PICK h, cv : h = heap /\ cv = cover
  OBVIOUS
<1>17. /\ SameUnlent(sh, shelf, {}) /\ cv \in Covers
       /\ Kept(h, sh, books.page, cv, novel.title) /\ CoverTitled(cv) /\ Lent(le, sh, cv)
       /\ cv.active = cover.active /\ cv.building = cover.building
  BY <1>1, <1>5, <1>9, <1>14, <1>15, <1>16
<1>18. heap' = h /\ cover' = cv /\ UNCHANGED <<books, reads, novel>>
  BY <1>2, <1>16
<1> QED
  BY <1>8, <1>12, <1>13, <1>17, <1>18, RendererMoves

\* and releases it: a slot that was cleared meanwhile is emptied now.
LEMMA ReleaseShelfKeeps ==
    ASSUME CoversInv, ReleaseShelf
    PROVE  CoversInv'
<1>1. /\ shelf \in Shelf /\ cover \in Covers /\ CoverTitled(cover)
      /\ Lent(lease, shelf, cover)
  BY DEF CoversInv, CoversFit, CoverShape
<1>2. lease.store = "books" /\ lease' = NoLease /\ UNCHANGED <<books, reads, cover, novel>>
  BY DEF ReleaseShelf
<1>3. PICK s \in ShelfSlots : s = lease.slot
  BY <1>1, <1>2 DEF Lent
<1>4. PICK sh0 \in Shelf : sh0 = shelf
  BY <1>1
<1>5. /\ sh0.slots[s].active = lease.data /\ sh0.slots[s].generation = lease.generation
      /\ sh0.slots[s].references = 1
      /\ \A t \in ShelfSlots \ {s} : sh0.slots[t].references = 0
      /\ \A i \in {1, 2} : cover.slots[i].references = 0
  BY <1>1, <1>2, <1>3, <1>4 DEF Lent
<1>6. PICK le, h, cv : le = NoLease /\ h = heap /\ cv = cover
  OBVIOUS
<1>7. le \in LeaseShape /\ le.store = "none"
  BY <1>6 DEF NoLease, LeaseShape
<1>8. ASSUME NEW sh, sh.slots[s].references = 0,
             \A t \in ShelfSlots \ {s} : sh.slots[t].references = sh0.slots[t].references
      PROVE  Lent(le, sh, cover)
  BY <1>5, <1>6, <1>7, <1>8 DEF Lent
<1>9. CASE sh0.slots[s].retired
  <2>1. PICK v : v = sh0.slots[s]
    OBVIOUS
  <2>2. PICK u : u = [EmptyShelfSlot EXCEPT !.building = v.building, !.used = v.used]
    OBVIOUS
  <2>3. PICK f, sh : f = [sh0.slots EXCEPT ![s] = u] /\ sh = [sh0 EXCEPT !.slots = f]
    OBVIOUS
  <2>4. heap' = Without({v.active}, h) /\ shelf' = sh
    <3>1. /\ heap' = Without({sh0.slots[s].active}, heap)
          /\ shelf' = [shelf EXCEPT !.slots[s] =
                [EmptyShelfSlot EXCEPT !.building = sh0.slots[s].building,
                                       !.used = sh0.slots[s].used]]
      BY <1>3, <1>4, <1>5, <1>9 DEF ReleaseShelf
    <3>2. shelf' = [sh0 EXCEPT !.slots[s] = u]
      BY <1>4, <2>1, <2>2, <3>1
    <3>3. sh0 = [slots |-> sh0.slots, titles |-> sh0.titles]
      BY ShelfParts
    <3>4. [sh0 EXCEPT !.slots[s] = u] = sh
      BY <2>3, <3>3
    <3> QED
      BY <1>6, <2>1, <3>1, <3>2, <3>4
  <2>5. /\ u \in ShelfSlot /\ u.active = NoBuffer /\ u.references = 0
        /\ u.building = v.building /\ u.used = v.used
    <3>1. v.building \in Buffers \cup {NoBuffer} /\ v.used \in Nat
      BY <2>1, ShelfParts
    <3>2. PICK x \in Buffers \cup {NoBuffer}, y \in Nat : x = v.building /\ y = v.used
      BY <3>1
    <3>3. u = [active |-> NoBuffer, generation |-> 0, references |-> 0,
               retired |-> FALSE, building |-> x, used |-> y]
      BY <2>2, <3>2 DEF EmptyShelfSlot
    <3>4. u \in ShelfSlot
      BY <3>3 DEF ShelfSlot
    <3> QED
      BY <3>2, <3>3, <3>4
  <2>6. OneSlotOf(sh, sh0, s, u)
    <3>1. sh = [slots |-> [sh0.slots EXCEPT ![s] = u], titles |-> sh0.titles]
      <4>1. PICK r, t : r = sh0.slots /\ t = sh0.titles
        OBVIOUS
      <4>2. sh0 = [slots |-> r, titles |-> t]
        BY <4>1, ShelfParts
      <4>3. sh = [slots |-> f, titles |-> t]
        BY <2>3, <4>2
      <4> QED
        BY <2>3, <4>1, <4>3
    <3> QED
      BY <2>5, <3>1, SlotReplaced
  <2>7. /\ sh \in Shelf /\ sh.titles = sh0.titles /\ sh.slots[s] = u
        /\ \A t \in ShelfSlots \ {s} : sh.slots[t] = sh0.slots[t]
    BY <2>6 DEF OneSlotOf
  <2>8. PICK A, X : A = {s} /\ X = {v.active}
    OBVIOUS
  <2>9. SameUnlent(sh, shelf, A)
    <3>1. \A t \in ShelfSlots : /\ sh.slots[t].building = sh0.slots[t].building
                                /\ sh.slots[t].used = sh0.slots[t].used
      BY <2>1, <2>5, <2>7
    <3> QED
      BY <1>4, <2>5, <2>7, <2>8, <3>1 DEF SameUnlent
  <2>10. Kept(Without(X, heap), sh, books.page, cover, novel.title)
    <3>1. A \in SUBSET ShelfSlots /\ X = {shelf.slots[t].active : t \in A}
      BY <1>4, <2>1, <2>8
    <3> QED
      BY <2>9, <3>1, UnlentKeeps
  <2>11. PICK h2 : h2 = Without(X, heap)
    OBVIOUS
  <2>12. Lent(le, sh, cover)
    <3>1. /\ sh.slots[s].references = 0
          /\ \A t \in ShelfSlots \ {s} : sh.slots[t].references = sh0.slots[t].references
      BY <2>5, <2>7
    <3> QED
      BY <1>8, <3>1
  <2>13. /\ Kept(h2, sh, books.page, cv, novel.title) /\ CoverTitled(cv) /\ Lent(le, sh, cv)
         /\ cv.active = cover.active /\ cv.building = cover.building /\ cv \in Covers
    BY <1>1, <1>6, <2>10, <2>11, <2>12
  <2>14. /\ heap' = h2 /\ shelf' = sh /\ cover' = cv /\ lease' = le
         /\ UNCHANGED <<books, reads, novel>>
    BY <1>2, <1>6, <2>4, <2>8, <2>11
  <2> QED
    BY <1>7, <2>9, <2>13, <2>14, RendererMoves
<1>10. CASE ~ sh0.slots[s].retired
  <2>1. PICK n \in Nat : n = 0
    OBVIOUS
  <2>2. PICK u, f, sh :
          /\ u = [sh0.slots[s] EXCEPT !.references = n]
          /\ f = [sh0.slots EXCEPT ![s] = u] /\ sh = [sh0 EXCEPT !.slots = f]
    OBVIOUS
  <2>3. SameUnlent(sh, sh0, {}) /\ Counts(sh, sh0, s, n)
    BY <2>2, ReferenceSet
  <2>4. heap' = h /\ shelf' = sh
    <3>1. /\ heap' = heap
          /\ shelf' = [shelf EXCEPT !.slots[s] =
                          [sh0.slots[s] EXCEPT !.references = @ - 1]]
      BY <1>3, <1>4, <1>5, <1>10 DEF ReleaseShelf
    <3>2. [sh0.slots[s] EXCEPT !.references = @ - 1] = u
      BY <1>5, <2>1, <2>2
    <3>3. shelf' = [sh0 EXCEPT !.slots[s] = u]
      BY <1>4, <3>1, <3>2
    <3>4. sh0 = [slots |-> sh0.slots, titles |-> sh0.titles]
      BY ShelfParts
    <3>5. [sh0 EXCEPT !.slots[s] = u] = sh
      BY <2>2, <3>4
    <3> QED
      BY <1>6, <3>1, <3>3, <3>5
  <2>5. PICK A, X : A = {} /\ X = {}
    OBVIOUS
  <2>6. SameUnlent(sh, shelf, A)
    BY <1>4, <2>3, <2>5
  <2>7. Kept(h, sh, books.page, cover, novel.title)
    <3>1. A \in SUBSET ShelfSlots /\ X = {shelf.slots[t].active : t \in A}
      BY <2>5
    <3>2. Kept(Without(X, heap), sh, books.page, cover, novel.title)
      BY <2>6, <3>1, UnlentKeeps
    <3> QED
      BY <1>6, <2>5, <3>2, HeapWhole
  <2>8. Lent(le, sh, cover)
    BY <1>8, <2>1, <2>3 DEF Counts
  <2>9. /\ Kept(h, sh, books.page, cv, novel.title) /\ CoverTitled(cv) /\ Lent(le, sh, cv)
        /\ cv.active = cover.active /\ cv.building = cover.building /\ cv \in Covers
    BY <1>1, <1>6, <2>7, <2>8
  <2>10. cover' = cv /\ lease' = le /\ UNCHANGED <<books, reads, novel>>
    BY <1>2, <1>6
  <2> QED
    BY <1>7, <2>4, <2>6, <2>9, <2>10, RendererMoves
<1> QED
  BY <1>9, <1>10

CoverHeld(cv2, cv, C) ==
    /\ Ends(cv2, cv, cv.active, cv.building, cv.titles)
    /\ \A i \in C : cv2.slots[i].data = NoBuffer
    /\ \A i \in {1, 2} \ C : /\ cv2.slots[i].data = cv.slots[i].data
                             /\ cv2.slots[i].used = cv.slots[i].used
                             /\ cv2.slots[i].generation = cv.slots[i].generation

\* Reader's slots C let go of covers whose lease has ended.
LEMMA HeldKeeps ==
    ASSUME CoversInv, NEW cv, NEW C \in SUBSET {1, 2}, CoverHeld(cv, cover, C),
           cover.building \notin C, NEW X, X = {cover.slots[i].data : i \in C}
    PROVE  /\ Kept(Without(X, heap), shelf, books.page, cv, novel.title)
           /\ CoverTitled(cv)
<1>1. PICK h, sh, page, title :
        h = heap /\ sh = shelf /\ page = books.page /\ title = novel.title
  OBVIOUS
<1>2. PICK cv0 : cv0 = cover
  OBVIOUS
<1>3. Kept(h, sh, page, cv0, title) /\ CoverTitled(cv0)
  BY <1>1, <1>2 DEF CoversInv, CoversFit
<1>4. CoverFreed(cv, cv0, C)
  BY <1>2 DEF CoverHeld, CoverFreed, Ends
<1>5. X \ {NoBuffer} = CoverLetGo(cv0, C) \ {NoBuffer}
  BY <1>2 DEF CoverLetGo
<1>6. Kept(Without(X, h), sh, page, cv, title)
  BY <1>3, <1>4, <1>5, CoverLess
<1>7. CoverTitled(cv)
  <2>1. cv.building = cv0.building /\ cv.active = cv0.active /\ cv.titles = cv0.titles
    BY <1>2 DEF CoverHeld, Ends
  <2>2. WholeTitled(cv)
    BY <1>2, <1>3, <2>1 DEF CoverTitled, WholeTitled, CoverHeld
  <2>3. cv0.building # 0 => cv0.building \in {1, 2}
    <3>1. cv0 \in Covers
      BY <1>2 DEF CoversInv, CoversFit, CoverShape
    <3> QED
      BY <3>1, CoverParts
  <2>4. cv0.building # 0 =>
          /\ cv.slots[cv0.building].data = cv0.slots[cv0.building].data
          /\ cv.slots[cv0.building].used = cv0.slots[cv0.building].used
    BY <1>2, <2>3 DEF CoverHeld
  <2> QED
    BY <1>3, <2>1, <2>2, <2>4 DEF CoverTitled
<1> QED
  BY <1>1, <1>6, <1>7

CoverCounts(cv2, cv, i, n) ==
    /\ cv2.slots[i].references = n
    /\ \A j \in {1, 2} \ {i} : cv2.slots[j].references = cv.slots[j].references

\* One slot of Reader's store is set,
LEMMA CoverSlotSet ==
    ASSUME NEW cv \in Covers, NEW i \in {1, 2}, NEW u \in CoverSlot,
           NEW f, f = [cv.slots EXCEPT ![i] = u], NEW cv2, cv2 = [cv EXCEPT !.slots = f]
    PROVE  /\ SlotIs(cv2, i, u) /\ OtherSlots(cv2, cv, i)
           /\ Ends(cv2, cv, cv.active, cv.building, cv.titles)
<1>1. PICK r : r = cv.slots
  OBVIOUS
<1>2. PICK active \in 0 .. 2, building \in 0 .. 2, titles \in Seq(BookCovers \cup {0}) :
        active = cv.active /\ building = cv.building /\ titles = cv.titles
  BY CoverParts
<1>3. cv = [slots |-> r, active |-> active, building |-> building, titles |-> titles]
  BY <1>1, <1>2, CoverParts
<1>4. cv2 = [slots |-> f, active |-> active, building |-> building, titles |-> titles]
  BY <1>3
<1>5. cv2 = [slots |-> [cv.slots EXCEPT ![i] = u], active |-> active,
             building |-> building, titles |-> titles]
  BY <1>4
<1>6. PICK d : d = [slots |-> [cv.slots EXCEPT ![i] = u], active |-> active,
                    building |-> building, titles |-> titles]
  OBVIOUS
<1>7. SlotIs(d, i, u) /\ OtherSlots(d, cv, i) /\ Ends(d, cv, active, building, titles)
  BY <1>6, CoverReplaced
<1>8. d = cv2
  BY <1>5, <1>6
<1> QED
  BY <1>2, <1>7, <1>8

\* or only its count.
LEMMA CoverReferenceSet ==
    ASSUME NEW cv \in Covers, NEW i \in {1, 2}, NEW n \in Nat,
           NEW u, u = [cv.slots[i] EXCEPT !.references = n],
           NEW f, f = [cv.slots EXCEPT ![i] = u], NEW cv2, cv2 = [cv EXCEPT !.slots = f]
    PROVE  CoverHeld(cv2, cv, {}) /\ CoverCounts(cv2, cv, i, n)
<1>1. PICK v : v = cv.slots[i]
  OBVIOUS
<1>2. /\ u \in CoverSlot /\ u.data = v.data /\ u.used = v.used
      /\ u.generation = v.generation /\ u.references = n
  <2>1. v \in CoverSlot
    BY <1>1, CoverParts
  <2>2. u = [v EXCEPT !.references = n]
    BY <1>1
  <2> QED
    BY <2>1, <2>2 DEF CoverSlot
<1>3. /\ SlotIs(cv2, i, u) /\ OtherSlots(cv2, cv, i)
      /\ Ends(cv2, cv, cv.active, cv.building, cv.titles)
  BY <1>2, CoverSlotSet
<1>4. cv2.slots[i] = u /\ \A j \in {1, 2} \ {i} : cv2.slots[j] = cv.slots[j]
  BY <1>3 DEF SlotIs, OtherSlots
<1>5. \A j \in {1, 2} : /\ cv2.slots[j].data = cv.slots[j].data
                        /\ cv2.slots[j].used = cv.slots[j].used
                        /\ cv2.slots[j].generation = cv.slots[j].generation
  BY <1>1, <1>2, <1>4
<1>6. CoverHeld(cv2, cv, {})
  BY <1>3, <1>5 DEF CoverHeld
<1>7. CoverCounts(cv2, cv, i, n)
  BY <1>2, <1>4 DEF CoverCounts
<1> QED
  BY <1>6, <1>7

\* The renderer leases the cover of the book,
LEMMA DrawCoverKeeps ==
    ASSUME CoversInv, DrawCover
    PROVE  CoversInv'
<1>1. /\ shelf \in Shelf /\ cover \in Covers /\ CoverTitled(cover)
      /\ Lent(lease, shelf, cover)
  BY DEF CoversInv, CoversFit, CoverShape
<1>2. PICK g \in DOMAIN cover.titles :
        /\ lease = NoLease /\ cover.active # 0
        /\ CoverLeased(cover.slots[cover.active], g)
        /\ cover' = [cover EXCEPT !.slots[cover.active].references = @ + 1]
        /\ lease' = [store |-> "reader", slot |-> cover.active,
                     data |-> cover.slots[cover.active].data, generation |-> g]
        /\ UNCHANGED <<heap, shelf, books, reads, novel>>
  BY DEF DrawCover
<1>3. PICK i \in {1, 2} : i = cover.active
  BY <1>1, <1>2, CoverParts
<1>4. i # cover.building
  BY <1>1, <1>2, <1>3 DEF CoverTitled
<1>5. g \in Nat
  BY <1>1, <1>2, CoverParts, SequenceOf
<1>6. PICK cv0 \in Covers : cv0 = cover
  BY <1>1
<1>7. /\ Lent(NoLease, shelf, cv0) /\ cv0.slots[i].references = 0
      /\ cv0.slots[i].data # NoBuffer /\ cv0.slots[i].generation = g
  <2>1. Lent(NoLease, shelf, cv0)
    BY <1>1, <1>2, <1>6
  <2> QED
    BY <1>2, <1>3, <1>6, <2>1, NothingLent DEF CoverLeased
<1>8. PICK n \in Nat : n = 1
  OBVIOUS
<1>9. PICK u, f, cv :
        /\ u = [cv0.slots[i] EXCEPT !.references = n]
        /\ f = [cv0.slots EXCEPT ![i] = u] /\ cv = [cv0 EXCEPT !.slots = f]
  OBVIOUS
<1>10. cover' = cv
  <2>1. PICK r : r = cv0.slots
    OBVIOUS
  <2>2. PICK v : v = r[i]
    OBVIOUS
  <2>3. PICK a, b, t : a = cv0.active /\ b = cv0.building /\ t = cv0.titles
    OBVIOUS
  <2>4. cv0 = [slots |-> r, active |-> a, building |-> b, titles |-> t]
    BY <2>1, <2>3, CoverParts
  <2>5. v \in CoverSlot /\ v.references = 0 /\ DOMAIN r = {1, 2}
    BY <1>7, <2>1, <2>2, CoverParts
  <2>6. cover' = [cv0 EXCEPT !.slots[i].references = @ + 1]
    BY <1>2, <1>3, <1>6
  <2>7. [cv0 EXCEPT !.slots[i].references = @ + 1] =
          [cv0 EXCEPT !.slots = [r EXCEPT ![i] = [v EXCEPT !.references = 1]]]
    BY <2>1, <2>2, <2>4, <2>5 DEF CoverSlot
  <2>8. [v EXCEPT !.references = 1] = u
    BY <1>8, <1>9, <2>1, <2>2
  <2> QED
    BY <1>9, <2>1, <2>6, <2>7, <2>8
<1>11. CoverHeld(cv, cv0, {}) /\ CoverCounts(cv, cv0, i, n)
  BY <1>9, CoverReferenceSet
<1>12. PICK d \in Buffers : d = cv0.slots[i].data
  BY <1>7, CoverParts
<1>13. PICK le : le = LeaseOf("reader", i, d, g)
  OBVIOUS
<1>14. /\ le \in LeaseShape /\ le.store = "reader" /\ le.slot = i /\ le.data = d
       /\ le.generation = g
  <2>1. i \in Nat
    OBVIOUS
  <2>2. PICK store \in {"books", "reader"} : store = "reader"
    OBVIOUS
  <2> QED
    BY <1>5, <1>12, <1>13, <2>1, <2>2, LeaseIs
<1>15. lease' = le
  BY <1>2, <1>3, <1>6, <1>12, <1>13 DEF LeaseOf
<1>16. Lent(le, shelf, cv)
  <2>1. /\ \A t \in ShelfSlots : shelf.slots[t].references = 0
        /\ \A j \in {1, 2} : cv0.slots[j].references = 0
    BY <1>7, NothingLent
  <2>2. \A j \in {1, 2} : cv.slots[j].references = IF j = i THEN 1 ELSE 0
    BY <1>8, <1>11, <2>1 DEF CoverCounts
  <2>3. cv.slots[i].data = d /\ cv.slots[i].generation = g
    BY <1>7, <1>11, <1>12 DEF CoverHeld
  <2>4. d # NoBuffer /\ i # cv.building
    BY <1>4, <1>6, <1>11, <1>12, CoverAssumption DEF CoverHeld, Ends
  <2> QED
    BY <1>14, <2>1, <2>2, <2>3, <2>4 DEF Lent
<1>17. PICK C, X : C = {} /\ X = {}
  OBVIOUS
<1>18. Kept(heap, shelf, books.page, cv, novel.title) /\ CoverTitled(cv)
  <2>1. /\ C \in SUBSET {1, 2} /\ CoverHeld(cv, cover, C) /\ cover.building \notin C
        /\ X = {cover.slots[j].data : j \in C}
    BY <1>6, <1>11, <1>17
  <2>2. Kept(Without(X, heap), shelf, books.page, cv, novel.title) /\ CoverTitled(cv)
    BY <2>1, HeldKeeps
  <2> QED
    BY <1>17, <2>2, HeapWhole
<1>19. PICK h, sh : h = heap /\ sh = shelf
  OBVIOUS
<1>20. /\ Kept(h, sh, books.page, cv, novel.title) /\ CoverTitled(cv) /\ Lent(le, sh, cv)
       /\ cv \in Covers /\ cv.active = cover.active /\ cv.building = cover.building
  BY <1>6, <1>11, <1>16, <1>18, <1>19 DEF CoverHeld, Ends
<1>21. SameUnlent(sh, shelf, {})
  BY <1>1, <1>19 DEF SameUnlent
<1>22. heap' = h /\ shelf' = sh /\ UNCHANGED <<books, reads, novel>>
  BY <1>2, <1>19
<1> QED
  BY <1>10, <1>14, <1>15, <1>20, <1>21, <1>22, RendererMoves

\* and releases it.
LEMMA ReleaseCoverKeeps ==
    ASSUME CoversInv, ReleaseCover
    PROVE  CoversInv'
<1>1. /\ shelf \in Shelf /\ cover \in Covers /\ CoverTitled(cover)
      /\ Lent(lease, shelf, cover)
  BY DEF CoversInv, CoversFit, CoverShape
<1>2. lease.store = "reader" /\ lease' = NoLease /\ UNCHANGED <<shelf, books, reads, novel>>
  BY DEF ReleaseCover
<1>3. PICK i \in {1, 2} : i = lease.slot /\ i # cover.building
  BY <1>1, <1>2 DEF Lent
<1>4. PICK cv0 \in Covers : cv0 = cover
  BY <1>1
<1>5. /\ cv0.slots[i].data = lease.data /\ cv0.slots[i].generation = lease.generation
      /\ cv0.slots[i].references = 1
      /\ \A j \in {1, 2} \ {i} : cv0.slots[j].references = 0
      /\ \A s \in ShelfSlots : shelf.slots[s].references = 0
  BY <1>1, <1>2, <1>3, <1>4 DEF Lent
<1>6. PICK le, h, sh : le = NoLease /\ h = heap /\ sh = shelf
  OBVIOUS
<1>7. le \in LeaseShape /\ le.store = "none"
  BY <1>6 DEF NoLease, LeaseShape
<1>8. ASSUME NEW cv, CoverCounts(cv, cv0, i, 0)
      PROVE  Lent(le, sh, cv)
  BY <1>5, <1>6, <1>7, <1>8 DEF Lent, CoverCounts
<1>9. SameUnlent(sh, shelf, {})
  BY <1>1, <1>6 DEF SameUnlent
<1>10. ASSUME NEW cv, NEW C \in SUBSET {1, 2}, i \notin C => C = {}, C \subseteq {i},
              CoverHeld(cv, cv0, C), CoverCounts(cv, cv0, i, 0),
              heap' = Without({cover.slots[j].data : j \in C}, heap), cover' = cv
       PROVE  CoversInv'
  <2>1. PICK X, h2 : X = {cover.slots[j].data : j \in C} /\ h2 = Without(X, heap)
    OBVIOUS
  <2>2. CoverHeld(cv, cover, C) /\ cover.building \notin C
    BY <1>3, <1>4, <1>10
  <2>3. Kept(Without(X, heap), shelf, books.page, cv, novel.title) /\ CoverTitled(cv)
    BY <2>1, <2>2, HeldKeeps
  <2>4. /\ cv \in Covers /\ cv.active = cover.active /\ cv.building = cover.building
    BY <2>2 DEF CoverHeld, Ends
  <2>5. Lent(le, sh, cv)
    BY <1>8, <1>10
  <2>6. Kept(h2, sh, books.page, cv, novel.title)
    BY <1>6, <2>1, <2>3
  <2>7. /\ heap' = h2 /\ shelf' = sh /\ cover' = cv /\ lease' = le
        /\ UNCHANGED <<books, reads, novel>>
    BY <1>2, <1>6, <1>10, <2>1
  <2> QED
    BY <1>7, <1>9, <2>3, <2>4, <2>5, <2>6, <2>7, RendererMoves
<1>11. CASE cv0.slots[i].retired
  <2>1. PICK u \in CoverSlot : u = EmptyCoverSlot /\ u.data = NoBuffer /\ u.references = 0
    BY EmptyCover
  <2>2. PICK f, cv : f = [cv0.slots EXCEPT ![i] = u] /\ cv = [cv0 EXCEPT !.slots = f]
    OBVIOUS
  <2>3. /\ SlotIs(cv, i, u) /\ OtherSlots(cv, cv0, i)
        /\ Ends(cv, cv0, cv0.active, cv0.building, cv0.titles)
    BY <2>2, CoverSlotSet
  <2>4. PICK C \in SUBSET {1, 2} : C = {i}
    OBVIOUS
  <2>5. CoverHeld(cv, cv0, C) /\ CoverCounts(cv, cv0, i, 0)
    BY <2>1, <2>3, <2>4 DEF CoverHeld, CoverCounts, SlotIs, OtherSlots
  <2>6. /\ heap' = Without({cv0.slots[i].data}, heap)
        /\ cover' = [cover EXCEPT !.slots[i] = EmptyCoverSlot]
    BY <1>3, <1>4, <1>5, <1>11 DEF ReleaseCover
  <2>7. cover' = cv
    <3>1. PICK r, a, b, t :
            r = cv0.slots /\ a = cv0.active /\ b = cv0.building /\ t = cv0.titles
      OBVIOUS
    <3>2. cv0 = [slots |-> r, active |-> a, building |-> b, titles |-> t]
      BY <3>1, CoverParts
    <3>3. cover' = [cv0 EXCEPT !.slots[i] = u]
      BY <1>4, <2>1, <2>6
    <3>4. [cv0 EXCEPT !.slots[i] = u] = cv
      BY <2>2, <3>1, <3>2
    <3> QED
      BY <3>3, <3>4
  <2>8. {cover.slots[j].data : j \in C} = {cv0.slots[i].data}
    BY <1>4, <2>4
  <2> QED
    BY <1>10, <2>4, <2>5, <2>6, <2>7, <2>8
<1>12. CASE ~ cv0.slots[i].retired
  <2>1. PICK n \in Nat : n = 0
    OBVIOUS
  <2>2. PICK u, f, cv :
          /\ u = [cv0.slots[i] EXCEPT !.references = n]
          /\ f = [cv0.slots EXCEPT ![i] = u] /\ cv = [cv0 EXCEPT !.slots = f]
    OBVIOUS
  <2>3. CoverHeld(cv, cv0, {}) /\ CoverCounts(cv, cv0, i, n)
    BY <2>2, CoverReferenceSet
  <2>4. /\ heap' = heap
        /\ cover' = [cover EXCEPT !.slots[i] = [cv0.slots[i] EXCEPT !.references = @ - 1]]
    BY <1>3, <1>4, <1>5, <1>12 DEF ReleaseCover
  <2>5. cover' = cv
    <3>1. PICK r, a, b, t :
            r = cv0.slots /\ a = cv0.active /\ b = cv0.building /\ t = cv0.titles
      OBVIOUS
    <3>2. cv0 = [slots |-> r, active |-> a, building |-> b, titles |-> t]
      BY <3>1, CoverParts
    <3>3. [cv0.slots[i] EXCEPT !.references = @ - 1] = u
      BY <1>5, <2>1, <2>2
    <3>4. cover' = [cv0 EXCEPT !.slots[i] = u]
      BY <1>4, <2>4, <3>3
    <3>5. [cv0 EXCEPT !.slots[i] = u] = cv
      BY <2>2, <3>1, <3>2
    <3> QED
      BY <3>4, <3>5
  <2>6. PICK C \in SUBSET {1, 2} : C = {}
    OBVIOUS
  <2>7. {cover.slots[j].data : j \in C} = {}
    BY <2>6
  <2>8. heap' = Without({cover.slots[j].data : j \in C}, heap)
    BY <2>4, <2>7, HeapWhole
  <2>9. CoverHeld(cv, cv0, C) /\ CoverCounts(cv, cv0, i, 0)
    BY <2>1, <2>3, <2>6
  <2> QED
    BY <1>10, <2>5, <2>6, <2>8, <2>9
<1> QED
  BY <1>11, <1>12
-----------------------------------------------------------------------------
\* Nothing is given out in the beginning.
LEMMA CoversInitFit == CoversInit => CoversInv
<1> SUFFICES ASSUME CoversInit
             PROVE  CoversInv
  OBVIOUS
<1>1. PICK u \in ShelfSlot : u = EmptyShelfSlot /\ u.active = NoBuffer
        /\ u.building = NoBuffer /\ u.references = 0
  <2>1. EmptyShelfSlot \in ShelfSlot
    BY DEF EmptyShelfSlot, ShelfSlot
  <2>2. /\ EmptyShelfSlot.active = NoBuffer /\ EmptyShelfSlot.building = NoBuffer
        /\ EmptyShelfSlot.references = 0
    BY DEF EmptyShelfSlot
  <2> QED
    BY <2>1, <2>2
<1>2. PICK w \in CoverSlot : w = EmptyCoverSlot /\ w.data = NoBuffer /\ w.references = 0
  BY EmptyCover
<1>3. PICK sh, b, q, cv, no, le :
        sh = shelf /\ b = books /\ q = reads /\ cv = cover /\ no = novel /\ le = lease
  OBVIOUS
<1>4. /\ sh \in Shelf /\ Len(sh.titles) = 0
      /\ \A s \in ShelfSlots : sh.slots[s] = u
  <2>1. PICK f : f = [s \in ShelfSlots |-> u]
    OBVIOUS
  <2>2. sh = [slots |-> f, titles |-> <<>>]
    BY <1>1, <1>3, <2>1 DEF CoversInit
  <2>3. f \in [ShelfSlots -> ShelfSlot] /\ \A s \in ShelfSlots : f[s] = u
    BY <2>1
  <2>4. <<>> \in Seq(ShelfTitles) /\ Len(<<>>) = 0
    BY EmptySeq
  <2> QED
    BY <2>2, <2>3, <2>4 DEF Shelf
<1>5. /\ cv \in Covers /\ cv.active = 0 /\ cv.building = 0
      /\ \A i \in {1, 2} : cv.slots[i] = w
  <2>1. PICK f : f = [i \in {1, 2} |-> w]
    OBVIOUS
  <2>2. cv = [slots |-> f, active |-> 0, building |-> 0, titles |-> <<>>]
    BY <1>2, <1>3, <2>1 DEF CoversInit
  <2>3. f \in [{1, 2} -> CoverSlot] /\ \A i \in {1, 2} : f[i] = w
    BY <2>1
  <2>4. <<>> \in Seq(BookCovers \cup {0})
    BY EmptySeq
  <2> QED
    BY <2>2, <2>3, <2>4 DEF Covers
<1>6. /\ b \in BooksShape /\ b.lastRead = 0 /\ ~ b.request.busy /\ ~ b.request.started
      /\ \A s \in ShelfSlots : b.generations[s] = 0
  <2>1. PICK f, r : f = [s \in ShelfSlots |-> 0] /\ r = NoCoverRequest
    OBVIOUS
  <2>2. b = [page |-> 0, generations |-> f, request |-> r, lastRead |-> 0]
    BY <1>3, <2>1 DEF CoversInit
  <2>3. f \in [ShelfSlots -> Nat] /\ r \in CoverRequest /\ ~ r.busy /\ ~ r.started
    BY <2>1, NoRequest
  <2> QED
    BY <2>1, <2>2, <2>3 DEF BooksShape
<1>7. /\ no \in NovelShape /\ ~ no.open /\ ~ no.waiting /\ no.generation = 0
  BY <1>3 DEF CoversInit, NoNovel, NovelShape
<1>8. le \in LeaseShape /\ le = NoLease /\ le.store = "none"
  BY <1>3 DEF CoversInit, NoLease, LeaseShape
<1>9. q \in Seq(CoverBlock) /\ Len(q) = 0
  BY <1>3, EmptySeq DEF CoversInit
<1>10. Kept(heap, sh, b.page, cv, no.title)
  <2>1. PICK at, text : at = At(sh, cv) /\ text = Text(sh, b.page, cv, no.title)
    OBVIOUS
  <2>2. PICK h : h = heap
    OBVIOUS
  <2>3. DOMAIN h = {} /\ h = [a \in DOMAIN h |-> h[a]]
    BY <2>2 DEF CoversInit
  <2>4. \A p \in Places : at[p] = NoBuffer
    BY <1>1, <1>2, <1>4, <1>5, <2>1, PlaceKinds, AtPlaces
  <2>5. Stored(h, at, text)
    BY <2>3, <2>4 DEF Stored
  <2> QED
    BY <2>1, <2>2, <2>5 DEF Kept
<1>11. ShelfTitled(sh) /\ CoverTitled(cv) /\ Lent(le, sh, cv) /\ BuiltForRequest(sh, b)
  <2>1. ShelfTitled(sh) /\ BuiltForRequest(sh, b)
    BY <1>1, <1>4 DEF ShelfTitled, BuiltForRequest
  <2>2. CoverTitled(cv)
    BY <1>2, <1>5 DEF CoverTitled, WholeTitled
  <2>3. Lent(le, sh, cv)
    BY <1>1, <1>2, <1>4, <1>5, <1>8 DEF Lent
  <2> QED
    BY <2>1, <2>2, <2>3
<1>12. ReadsKnown(q, b) /\ Counted(sh, b) /\ Titled(sh, b)
  <2>1. ReadsKnown(q, b)
    <3>1. PICK n : n = Len(q)
      OBVIOUS
    <3>2. ASSUME NEW k \in 1 .. n
          PROVE  FALSE
      BY <1>9, <3>1
    <3> QED
      BY <3>1, <3>2 DEF ReadsKnown
  <2>2. Counted(sh, b)
    <3>1. Len(sh.titles) = 0 /\ ~ b.request.busy /\ b.lastRead = 0 /\ MaxReads \in Nat
      BY <1>4, <1>6, CoverAssumption
    <3> QED
      BY <3>1 DEF Counted
  <2>3. Titled(sh, b)
    <3>1. Len(sh.titles) = 0 /\ \A s \in ShelfSlots : b.generations[s] = 0
      BY <1>4, <1>6
    <3> QED
      BY <3>1 DEF Titled
  <2> QED
    BY <2>1, <2>2, <2>3
<1>13. NovelFits(no, b, cv)
  BY <1>5, <1>6, <1>7 DEF NovelFits
<1>14. PICK h : h = heap
  OBVIOUS
<1>15. CoversFit(h, sh, b, q, cv, no, le)
  BY <1>4, <1>5, <1>6, <1>7, <1>8, <1>9, <1>10, <1>11, <1>12, <1>13, <1>14
     DEF CoversFit, CoverShape
<1> QED
  BY <1>3, <1>14, <1>15 DEF CoversInv

\* Every step of apps and renderer keeps the invariant.
LEMMA CoversStep == CoversInv /\ [CoversNext]_coverVars => CoversInv'
<1> SUFFICES ASSUME CoversInv, [CoversNext]_coverVars
             PROVE  CoversInv'
  OBVIOUS
<1>1. CASE LoadPage
  BY <1>1, LoadPageKeeps
<1>2. CASE LoseCard
  BY <1>2, LoseCardKeeps
<1>3. CASE LookForCover
  BY <1>3, LookForCoverKeeps
<1>4. CASE DropBlock
  BY <1>4, DropBlockKeeps
<1>5. CASE BlockFails
  BY <1>5, BlockFailsKeeps
<1>6. CASE TakeBlock
  BY <1>6, TakeBlockKeeps
<1>7. CASE OpenNovel
  BY <1>7, OpenNovelKeeps
<1>8. CASE AskCover
  BY <1>8, AskCoverKeeps
<1>9. CASE CoverBlockFails
  BY <1>9, CoverBlockFailsKeeps
<1>10. CASE TakeCoverBlock
  BY <1>10, TakeCoverBlockKeeps
<1>11. CASE CloseNovel
  BY <1>11, CloseNovelKeeps
<1>12. CASE DrawShelf
  BY <1>12, DrawShelfKeeps
<1>13. CASE DrawCover
  BY <1>13, DrawCoverKeeps
<1>14. CASE ReleaseShelf
  BY <1>14, ReleaseShelfKeeps
<1>15. CASE ReleaseCover
  BY <1>15, ReleaseCoverKeeps
<1>16. CASE UNCHANGED coverVars
  BY <1>16 DEF CoversInv, coverVars
<1> QED
  BY <1>1, <1>2, <1>3, <1>4, <1>5, <1>6, <1>7, <1>8, <1>9, <1>10, <1>11, <1>12, <1>13,
     <1>14, <1>15, <1>16, Zenon DEF CoversNext, AppActs, RendererDraws

\* What has been shown to be kept is what the runs check.
LEMMA CoversSafe == CoversInv => CoversKept
<1> SUFFICES ASSUME CoversInv
             PROVE  CoversKept
  OBVIOUS
<1>1. PICK h, sh, cv : h = heap /\ sh = shelf /\ cv = cover
  OBVIOUS
<1>2. PICK b, no, le : b = books /\ no = novel /\ le = lease
  OBVIOUS
<1>3. PICK queue : queue = reads
  OBVIOUS
<1>4. CoversFit(h, sh, b, queue, cv, no, le)
  BY <1>1, <1>2, <1>3 DEF CoversInv
<1>5. CoverShape(sh, b, queue, cv, no, le) /\ Kept(h, sh, b.page, cv, no.title)
  BY <1>4 DEF CoversFit
<1>6. ShelfTitled(sh) /\ CoverTitled(cv) /\ Lent(le, sh, cv) /\ Titled(sh, b)
  BY <1>4 DEF CoversFit
<1>7. NovelFits(no, b, cv)
  BY <1>4 DEF CoversFit
<1>8. sh \in Shelf /\ cv \in Covers /\ le \in LeaseShape /\ b \in BooksShape
  BY <1>5 DEF CoverShape
<1>9. PICK at, text : at = At(sh, cv) /\ text = Text(sh, b.page, cv, no.title)
  OBVIOUS
<1>10. Stored(h, at, text)
  BY <1>5, <1>9 DEF Kept
<1>11. \A title : Part(title, Blocks) = Whole(title)
  BY DEF Part, Whole
<1>12. LeaseKept
  <2>1. CASE le.store = "none"
    BY <1>2, <1>6, <2>1 DEF Lent, LeaseKept
  <2>2. CASE le.store = "books"
    <3>1. PICK s \in ShelfSlots : s = le.slot
      BY <1>6, <2>2 DEF Lent
    <3>2. /\ le.data # NoBuffer /\ sh.slots[s].active = le.data
          /\ sh.slots[s].generation = le.generation
      BY <1>6, <2>2, <3>1 DEF Lent
    <3>3. at[Shown(s)] = le.data /\ Shown(s) \in Places
      BY <1>9, <3>2, AtPlaces, PlacesAre
    <3>4. text[Shown(s)] = Part(sh.titles[le.generation], Blocks)
      BY <1>9, <3>2, TextPlaces
    <3>5. le.data \in DOMAIN h /\ h[le.data] = text[Shown(s)]
      BY <1>10, <3>2, <3>3 DEF Stored
    <3>6. h[le.data] = Whole(sh.titles[le.generation])
      BY <1>11, <3>4, <3>5
    <3> QED
      BY <1>1, <1>2, <2>2, <3>5, <3>6 DEF LeaseKept
  <2>3. CASE le.store = "reader"
    <3>1. PICK i \in {1, 2} : i = le.slot
      BY <1>6, <2>3 DEF Lent
    <3>2. /\ le.data # NoBuffer /\ cv.slots[i].data = le.data /\ i # cv.building
          /\ cv.slots[i].generation = le.generation
      BY <1>6, <2>3, <3>1 DEF Lent
    <3>3. at[OfBook(i)] = le.data /\ OfBook(i) \in Places
      BY <1>9, <3>2, AtPlaces, PlacesAre
    <3>4. cv.slots[i].used = Blocks
      BY <1>6, <3>2 DEF CoverTitled, WholeTitled
    <3>5. text[OfBook(i)] = Part(cv.titles[le.generation], Blocks)
      BY <1>9, <3>2, <3>4, TextPlaces
    <3>6. le.data \in DOMAIN h /\ h[le.data] = text[OfBook(i)]
      BY <1>10, <3>2, <3>3 DEF Stored
    <3>7. h[le.data] = Whole(cv.titles[le.generation])
      BY <1>11, <3>5, <3>6
    <3> QED
      BY <1>1, <1>2, <2>3, <3>6, <3>7 DEF LeaseKept
  <2> QED
    BY <1>8, <2>1, <2>2, <2>3 DEF LeaseShape
<1>13. NoneLost
  <2>1. DOMAIN h = {at[p] : p \in Places} \ {NoBuffer}
    BY <1>10 DEF Stored
  <2>2. {at[p] : p \in Places} =
          {sh.slots[s].active : s \in ShelfSlots}
          \cup {sh.slots[s].building : s \in ShelfSlots}
          \cup {cv.slots[i].data : i \in {1, 2}}
    <3>1. ASSUME NEW p \in Places
          PROVE  \/ \E s \in ShelfSlots : at[p] = sh.slots[s].active
                 \/ \E s \in ShelfSlots : at[p] = sh.slots[s].building
                 \/ \E i \in {1, 2} : at[p] = cv.slots[i].data
      BY <1>9, AtPlaces, PlaceKinds
    <3>2. \A s \in ShelfSlots : /\ sh.slots[s].active \in {at[p] : p \in Places}
                               /\ sh.slots[s].building \in {at[p] : p \in Places}
      BY <1>9, AtPlaces, PlacesAre
    <3>3. \A i \in {1, 2} : cv.slots[i].data \in {at[p] : p \in Places}
      BY <1>9, AtPlaces, PlacesAre
    <3> QED
      BY <3>1, <3>2, <3>3
  <2>3. ReaderBuffers = {cv.slots[i].data : i \in {1, 2}} \ {NoBuffer}
    BY <1>1 DEF ReaderBuffers
  <2>4. ShelfBuffers("active") = {sh.slots[s].active : s \in ShelfSlots} \ {NoBuffer}
    <3>1. \A s \in ShelfSlots : sh.slots[s].active = sh.slots[s]["active"]
      OBVIOUS
    <3> QED
      BY <1>1, <3>1 DEF ShelfBuffers
  <2>5. ShelfBuffers("building") =
          {sh.slots[s].building : s \in ShelfSlots} \ {NoBuffer}
    <3>1. \A s \in ShelfSlots : sh.slots[s].building = sh.slots[s]["building"]
      OBVIOUS
    <3> QED
      BY <1>1, <3>1 DEF ShelfBuffers
  <2> QED
    BY <1>1, <2>1, <2>2, <2>3, <2>4, <2>5 DEF NoneLost
<1>14. CoverOfItem
  <2>1. ASSUME NEW s \in ShelfSlots, b.generations[s] \in 1 .. Len(sh.titles), b.page # 0
        PROVE  sh.titles[b.generations[s]] = <<b.page, s>>
    BY <1>6, <2>1 DEF Titled, OnPage
  <2>2. DOMAIN sh.titles = 1 .. Len(sh.titles)
    BY <1>8 DEF Shelf
  <2> QED
    BY <1>1, <1>2, <2>1, <2>2 DEF CoverOfItem
<1>15. CoverHasSlot
  <2>1. ASSUME no.waiting, ~ no.started
        PROVE  FreeCoverSlots(cv) # {}
    <3>1. cv.active = 0
      <4>1. no.generation = 0 /\ (cv.active # 0 => no.generation # 0)
        BY <1>7, <2>1 DEF NovelFits
      <4> QED
        BY <4>1
    <3> QED
      BY <1>6, <1>8, <3>1, HasSlot
  <2> QED
    BY <1>1, <1>2, <2>1 DEF CoverHasSlot
<1> QED
  BY <1>12, <1>13, <1>14, <1>15 DEF CoversKept

\* A renderer that draws a frame of the past reads the cover it was drawn for until it
\* lets go of it, no buffer of a cover is lost, the shelf shows each item its own
\* cover and Reader finds a slot for a new one (CoversKept): with any number of
\* pages, slots, blocks and buffers.
THEOREM CoversAlwaysKept == CoversSpec => []CoversKept
<1>1. CoversInit => CoversInv
  BY CoversInitFit
<1>2. CoversInv /\ [CoversNext]_coverVars => CoversInv'
  BY CoversStep
<1>3. CoversInv => CoversKept
  BY CoversSafe
<1> QED
  BY <1>1, <1>2, <1>3, PTL DEF CoversSpec
=============================================================================
