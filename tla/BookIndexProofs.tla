---------------------------- MODULE BookIndexProofs ----------------------------
(***************************************************************************)
(* WritesOwnCard, ReadyIndexSound, SavedProgressTrue and KeepsPlace, for   *)
(* any cards, texts, paginations and card changes.                         *)
(*                                                                         *)
(* OwnInv: the engine's generation is compared before every write; it      *)
(* stands for the card whose text was opened because every change of the   *)
(* card raises the generation, texts are edited outside the slot only, and *)
(* the gate keeps a change out of the gap between a removal and its        *)
(* renaming.                                                               *)
(*                                                                         *)
(* IndexInv: what the metadata, the index under construction, the          *)
(* replacement under way, the last event and the queued commands say of    *)
(* the text they belong to.  That a page is found by its offset rests on   *)
(* page starts that grow and on the least element of a set of naturals.    *)
(***************************************************************************)
EXTENDS BookIndex, SequenceTheorems, WellFoundedInduction, TLAPS

\* The fields of a card's directory and of the engine.
CardShape(d) ==
    d = [text |-> d.text, metadata |-> d.metadata, index |-> d.index,
         temporary |-> d.temporary]
EngineShape(e) ==
    e = [session |-> e.session, generation |-> e.generation, file |-> e.file,
         resume |-> e.resume, position |-> e.position, byPage |-> e.byPage,
         dirty |-> e.dirty, header |-> e.header, buffered |-> e.buffered,
         checked |-> e.checked]

DiskShape == disk = [c \in Cards |-> disk[c]] /\ \A c \in Cards : CardShape(disk[c])

\* The engine has a book open.
Active == phase \notin {"idle", "failed"}
Replacing == {"remove_index", "rename_index", "remove_metadata", "rename_metadata"}

OwnInv ==
    /\ DiskShape /\ EngineShape(engine)
    /\ card \in Cards \cup {None} /\ generation \in Nat
    /\ engine.generation \in Nat /\ engine.generation <= generation
    /\ Active /\ Reachable => engine.file = disk[card].text
    /\ pc \in Replacing => Active
    /\ pc \in {"rename_index", "rename_metadata"} => Reachable

\* A step of the worker that stays with its book and writes to its card only.
StaysWithBook ==
    /\ DiskShape' /\ \A c \in Cards : disk'[c].text = disk[c].text
    /\ EngineShape(engine') /\ engine'.file = engine.file
    /\ engine'.generation = engine.generation /\ engine'.session = engine.session
    /\ UNCHANGED <<card, generation>>

\* What the writes to a directory leave alone.
LEMMA WriteFacts ==
    ASSUME DiskShape, card \in Cards, NEW v, NEW w,
           \/ disk' = disk
           \/ disk' = [disk EXCEPT ![card].temporary = v]
           \/ disk' = [disk EXCEPT ![card].temporary.offsets = v]
           \/ disk' = [disk EXCEPT ![card].index = v]
           \/ disk' = [disk EXCEPT ![card].index = v, ![card].temporary = w]
           \/ disk' = [disk EXCEPT ![card].metadata = v]
    PROVE  /\ DiskShape' /\ \A c \in Cards : disk'[c].text = disk[c].text
           /\ \A c \in Cards : c # card => disk'[c] = disk[c]
<1>1. PICK o : o = disk[card] /\ CardShape(o)
  BY DEF DiskShape
<1>2. /\ disk' = [c \in Cards |-> disk'[c]]
      /\ \A c \in Cards : c # card => disk'[c] = disk[c]
  BY DEF DiskShape
<1>3. \/ disk'[card] = o
      \/ disk'[card] = [o EXCEPT !.temporary = v]
      \/ disk'[card] = [o EXCEPT !.temporary.offsets = v]
      \/ disk'[card] = [o EXCEPT !.index = v]
      \/ disk'[card] = [o EXCEPT !.index = v, !.temporary = w]
      \/ disk'[card] = [o EXCEPT !.metadata = v]
  BY <1>1 DEF DiskShape
<1>4. CardShape(disk'[card]) /\ disk'[card].text = o.text
  BY <1>1, <1>3 DEF CardShape
<1> QED
  BY <1>1, <1>2, <1>4 DEF DiskShape

\* A step that stays with its book keeps the invariant, if it leaves open what was,
\* and writes only where the engine's text lies.
LEMMA StayingKeeps ==
    ASSUME OwnInv, StaysWithBook,
           Active' => Active, pc' \in Replacing => Active',
           pc' \in {"rename_index", "rename_metadata"} => Reachable
    PROVE  OwnInv'
<1>1. Reachable' <=> Reachable
  BY DEF StaysWithBook, Reachable, MediaValid
<1>2. Active' /\ Reachable' => engine'.file = disk'[card'].text
  <2>1. Active /\ Reachable => engine.file = disk[card].text /\ card \in Cards
    BY DEF OwnInv, Reachable, MediaValid
  <2> QED
    BY <1>1, <2>1 DEF StaysWithBook
<1> QED
  BY <1>1, <1>2 DEF OwnInv, StaysWithBook

\* Writing only while the card is the one whose text was opened.
WritesOwn == \A c \in Cards : disk'[c] # disk[c] => engine'.file = disk[c].text

\* A step of the worker without a command.
LEMMA StepKeeps ==
    ASSUME OwnInv, WorkerTask, ~ Dequeue
    PROVE  OwnInv' /\ WritesOwn /\ StaysWithBook
<1> USE DEF Active, Replacing, Working
<1>1. UNCHANGED <<card, generation>>
  BY DEF WorkerTask, NoCommand, NothingToDo, StepFails, ScanPage, ScanEnd, ValidateBlock,
         CacheDamaged, NewIndexValid, CacheValid, RemoveIndex, RenameIndex, RemoveMetadata,
         RenameMetadata, ReplaceFails, engineFrame
<1>2. DiskShape /\ EngineShape(engine)
  BY DEF OwnInv
<1>3. CASE NoCommand \/ NothingToDo
  <2>1. UNCHANGED <<disk, engine, phase>> /\ pc' \in {"step", "loop"}
    BY <1>3 DEF NoCommand, NothingToDo
  <2>2. StaysWithBook
    BY <1>1, <1>2, <2>1 DEF StaysWithBook, DiskShape
  <2> QED
    BY <2>1, <2>2, StayingKeeps DEF WritesOwn
<1>4. CASE StepFails \/ ReplaceFails
  <2>1. UNCHANGED <<disk, engine>> /\ phase' = "failed" /\ pc' \in {"step", "loop"}
    BY <1>4 DEF StepFails, ReplaceFails, Fail
  <2>2. StaysWithBook
    BY <1>1, <1>2, <2>1 DEF StaysWithBook, DiskShape
  <2> QED
    BY <2>1, <2>2, StayingKeeps DEF WritesOwn
<1> DEFINE Others == ScanPage \/ ScanEnd \/ ValidateBlock \/ CacheDamaged
                     \/ NewIndexValid \/ CacheValid \/ RemoveIndex \/ RenameIndex
                     \/ RemoveMetadata \/ RenameMetadata
<1>5. CASE Others
  <2>1. Reachable /\ Active
    BY <1>5 DEF ScanPage, ScanEnd, ValidateBlock, CacheDamaged, NewIndexValid, CacheValid,
               RemoveIndex, RenameIndex, RemoveMetadata, RenameMetadata, OwnInv
  <2>2. card \in Cards /\ engine.file = disk[card].text
    BY <2>1 DEF OwnInv, Reachable, MediaValid
  <2>3. \E v, w : \/ disk' = disk
                 \/ disk' = [disk EXCEPT ![card].temporary = v]
                 \/ disk' = [disk EXCEPT ![card].temporary.offsets = v]
                 \/ disk' = [disk EXCEPT ![card].index = v]
                 \/ disk' = [disk EXCEPT ![card].index = v, ![card].temporary = w]
                 \/ disk' = [disk EXCEPT ![card].metadata = v]
    BY <1>5, Zenon DEF ScanPage, ScanEnd, ValidateBlock, CacheDamaged, NewIndexValid,
                      CacheValid, RemoveIndex, RenameIndex, RemoveMetadata, RenameMetadata
  <2>4. /\ DiskShape' /\ \A c \in Cards : disk'[c].text = disk[c].text
        /\ \A c \in Cards : c # card => disk'[c] = disk[c]
    BY <1>2, <2>2, <2>3, WriteFacts, Zenon
  <2>5. /\ EngineShape(engine') /\ engine'.file = engine.file
        /\ engine'.generation = engine.generation /\ engine'.session = engine.session
    <3> USE <1>2 DEF EngineShape
    <3>1. CASE ScanPage
      BY <3>1 DEF ScanPage
    <3>2. CASE ScanEnd \/ ValidateBlock \/ NewIndexValid
      BY <3>2 DEF ScanEnd, ValidateBlock, NewIndexValid
    <3>3. CASE CacheDamaged
      BY <3>3 DEF CacheDamaged, Rebuilding
    <3>4. CASE CacheValid \/ RenameIndex
      BY <3>4 DEF CacheValid, RenameIndex, Ready
    <3>5. CASE RemoveIndex \/ RemoveMetadata \/ RenameMetadata
      BY <3>5 DEF RemoveIndex, RemoveMetadata, RenameMetadata
    <3> QED
      BY <1>5, <3>1, <3>2, <3>3, <3>4, <3>5
  <2>6. StaysWithBook
    BY <1>1, <2>4, <2>5 DEF StaysWithBook
  <2>7. Active'
    BY <1>5, <2>1 DEF ScanPage, ScanEnd, ValidateBlock, CacheDamaged, NewIndexValid,
                      CacheValid, RemoveIndex, RenameIndex, RemoveMetadata, RenameMetadata,
                      Ready
  <2>8. OwnInv'
    BY <2>1, <2>6, <2>7, StayingKeeps
  <2> QED
    BY <2>2, <2>4, <2>5, <2>6, <2>8 DEF WritesOwn
<1> QED
  BY <1>3, <1>4, <1>5 DEF WorkerTask

\* open_book: the engine takes the text of the card in the slot, under its generation.
LEMMA OpenKeeps ==
    ASSUME OwnInv, NEW command, MediaValid(command.generation), OpenBook(command),
           pc' = "step", UNCHANGED <<card, generation>>
    PROVE  OwnInv' /\ WritesOwn /\ \A c \in Cards : disk'[c].text = disk[c].text
<1> DEFINE file == disk[card].text
<1>0. PICK o : o = Opening(command)
  OBVIOUS
<1>1. /\ EngineShape(o) /\ o.generation = generation
      /\ card \in Cards /\ DiskShape /\ generation \in Nat
  <2>1. EngineShape(o) /\ o.generation = command.generation
    BY <1>0 DEF Opening, NoEngine, EngineShape
  <2> QED
    BY <2>1 DEF MediaValid, OwnInv
<1>2. PICK m \in {disk[card].metadata, None}, index \in {disk[card].index, None} :
        LET resume == Resume(m, file)
            e == [o EXCEPT !.file = file, !.resume = resume, !.position = resume]
        IN \/ engine' = o /\ UNCHANGED disk /\ phase' = "failed"
           \/ /\ \/ engine' = [e EXCEPT !.header = index.header, !.byPage = TRUE,
                                        !.dirty = ~ SameStat(m, file)]
                 \/ engine' = Rebuilding(e)
              /\ \/ UNCHANGED disk
                 \/ disk' = [disk EXCEPT ![card].temporary = EmptyIndex]
  BY <1>0 DEF OpenBook, Fail
<1>3. /\ DiskShape' /\ \A c \in Cards : disk'[c].text = disk[c].text
      /\ \A c \in Cards : c # card => disk'[c] = disk[c]
  <2>1. \/ disk' = disk \/ disk' = [disk EXCEPT ![card].temporary = EmptyIndex]
    BY <1>2
  <2> QED
    BY <1>1, <2>1, WriteFacts, Zenon
<1>4. CASE engine' = o /\ UNCHANGED disk /\ phase' = "failed"
  BY <1>1, <1>3, <1>4 DEF OwnInv, Active, Replacing, WritesOwn
<1>5. CASE ~ (engine' = o /\ UNCHANGED disk /\ phase' = "failed")
  <2> DEFINE resume == Resume(m, file)
  <2>0. PICK e : e = [o EXCEPT !.file = file, !.resume = resume, !.position = resume]
    OBVIOUS
  <2>1. \/ engine' = [e EXCEPT !.header = index.header, !.byPage = TRUE,
                              !.dirty = ~ SameStat(m, file)]
        \/ engine' = Rebuilding(e)
    BY <1>2, <1>5, <2>0
  <2>2. EngineShape(e) /\ e.file = file /\ e.generation = generation
    BY <1>1, <2>0 DEF EngineShape
  <2>3. EngineShape(engine') /\ engine'.file = file /\ engine'.generation = generation
    BY <2>1, <2>2 DEF EngineShape, Rebuilding
  <2> QED
    BY <1>1, <1>3, <2>3 DEF OwnInv, Active, Replacing, WritesOwn
<1> QED
  BY <1>4, <1>5

\* A command: it opens a book, or stays with the one that is open.
LEMMA CommandKeeps ==
    ASSUME OwnInv, Dequeue
    PROVE  OwnInv' /\ WritesOwn /\ \A c \in Cards : disk'[c].text = disk[c].text
<1> DEFINE command == Head(commands)
<1>1. UNCHANGED <<card, generation>> /\ EngineShape(engine) /\ DiskShape
  BY DEF Dequeue, engineFrame, OwnInv
<1>2. CASE MediaValid(command.generation) /\ OpenBook(command) /\ pc' = "step"
  BY <1>1, <1>2, OpenKeeps
<1>3. CASE UNCHANGED <<disk, phase, engine>> /\ pc' = "step"
  <2>1. StaysWithBook
    BY <1>1, <1>3 DEF StaysWithBook, DiskShape
  <2> QED
    BY <1>3, <2>1, StayingKeeps DEF Active, Replacing, WritesOwn, StaysWithBook
<1>4. CASE Answer(command) /\ pc' = "step"
  <2>1. UNCHANGED disk /\ phase' \in {phase, "failed"}
    BY <1>4 DEF Answer, Fail
  <2>2. /\ EngineShape(engine') /\ engine'.file = engine.file
        /\ engine'.generation = engine.generation /\ engine'.session = engine.session
    BY <1>1, <1>4 DEF Answer, EngineShape
  <2>3. StaysWithBook
    BY <1>1, <2>1, <2>2 DEF StaysWithBook, DiskShape
  <2> QED
    BY <1>4, <2>1, <2>3, StayingKeeps DEF Active, Replacing, WritesOwn, StaysWithBook
<1>5. CASE Save(command)
  <2>1. /\ UNCHANGED disk /\ phase' \in {phase, "failed"}
        /\ pc' = "step" \/ (pc' = "remove_metadata" /\ Active')
    BY <1>5 DEF Save, Savable, Fail, Active
  <2>2. /\ EngineShape(engine') /\ engine'.file = engine.file
        /\ engine'.generation = engine.generation /\ engine'.session = engine.session
    BY <1>1, <1>5 DEF Save, EngineShape
  <2>3. StaysWithBook
    BY <1>1, <2>1, <2>2 DEF StaysWithBook, DiskShape
  <2> QED
    BY <2>1, <2>3, StayingKeeps DEF Active, Replacing, WritesOwn, StaysWithBook
<1> QED
  BY <1>2, <1>3, <1>4, <1>5 DEF Dequeue

\* What happens to the card, the text and the power, and what the reader submits.
LEMMA WorldKeeps ==
    ASSUME OwnInv,
           \/ ChangeCard \/ EditText \/ DamageIndex \/ PowerLoss
           \/ OpenSession \/ Query \/ CloseSession
    PROVE  OwnInv'
<1> USE DEF Active, Replacing, Reachable, MediaValid
<1>1. CASE ChangeCard
  <2>1. UNCHANGED <<disk, engine, phase, pc>> /\ generation' = generation + 1
        /\ card' \in Cards \cup {None} /\ pc \notin {"rename_index", "rename_metadata"}
    BY <1>1 DEF ChangeCard
  <2>2. engine.generation # generation'
    BY <2>1 DEF OwnInv
  <2> QED
    BY <2>1, <2>2 DEF OwnInv, DiskShape
<1>2. CASE EditText \/ DamageIndex
  <2>1. /\ card = None /\ UNCHANGED <<card, generation, engine, phase, pc>>
        /\ DiskShape
    BY <1>2 DEF EditText, DamageIndex, OwnInv
  <2>2. PICK c \in Cards :
            \/ \E f : disk' = [disk EXCEPT ![c].text = f]
            \/ \E f : disk' = [disk EXCEPT ![c].index.offsets = f]
    BY <1>2, Zenon DEF EditText, DamageIndex
  <2>3. PICK o : o = disk[c] /\ CardShape(o)
    BY <2>1 DEF DiskShape
  <2>4. CardShape(disk'[c])
    BY <2>1, <2>2, <2>3 DEF DiskShape, CardShape
  <2>5. DiskShape'
    BY <2>1, <2>2, <2>4 DEF DiskShape
  <2> QED
    BY <2>1, <2>5 DEF OwnInv
<1>3. CASE PowerLoss
  <2>1. /\ card' = None /\ UNCHANGED <<disk, generation>> /\ engine' = NoEngine
        /\ phase' = "idle" /\ pc' = "loop"
    BY <1>3 DEF PowerLoss
  <2>2. EngineShape(NoEngine) /\ NoEngine.generation = 0
    BY DEF EngineShape, NoEngine
  <2> QED
    BY <2>1, <2>2 DEF OwnInv, DiskShape
<1>4. CASE UNCHANGED clientFrame
  BY <1>4 DEF clientFrame, OwnInv, DiskShape
<1> QED
  BY <1>1, <1>2, <1>3, <1>4 DEF OpenSession, Query, CloseSession

\* The books start with the cards out of the slot.
LEMMA OwnInit == Init => OwnInv
<1> SUFFICES ASSUME Init PROVE OwnInv
  OBVIOUS
<1>1. DiskShape
  <2>1. disk = [c \in Cards |-> disk[c]]
    BY DEF Init
  <2>2. ASSUME NEW c \in Cards PROVE CardShape(disk[c])
    <3>1. \/ \E t \in Contents : disk[c] = EmptyCard(t)
          \/ \E t, v, i : disk[c] = IndexedCard(t, v, i)
      <4>1. disk[c] \in FirstCards(version)
        BY DEF Init
      <4>2. \A d : d \in FirstCards(version) =>
                \/ \E t \in Contents : d = EmptyCard(t)
                \/ \E v : d \in IndexedCards(v)
        BY DEF FirstCards
      <4>3. \A d, v : d \in IndexedCards(v) => \E t, i : d = IndexedCard(t, v, i)
        BY DEF IndexedCards
      <4> QED
        BY <4>1, <4>2, <4>3, Zenon
    <3>2. PICK d : d = disk[c]
      OBVIOUS
    <3>3. \A t : d = EmptyCard(t) => CardShape(d)
      BY DEF EmptyCard, CardShape
    <3>4. \A t, v, i : d = IndexedCard(t, v, i) => CardShape(d)
      BY DEF IndexedCard, CardShape
    <3> QED
      BY <3>1, <3>2, <3>3, <3>4, Zenon
  <2> QED
    BY <2>1, <2>2 DEF DiskShape
<1>2. EngineShape(NoEngine) /\ NoEngine.generation = 0
  BY DEF EngineShape, NoEngine
<1> QED
  BY <1>1, <1>2 DEF Init, OwnInv, Active, Replacing

\* Every step of the worker keeps the invariant and to its card.
LEMMA WorkerKeeps ==
    OwnInv /\ WorkerTask =>
        OwnInv' /\ WritesOwn /\ \A c \in Cards : disk'[c].text = disk[c].text
  BY StepKeeps, CommandKeeps DEF StaysWithBook

\* The invariant is inductive.
LEMMA OwnStep == OwnInv /\ [Next]_vars => OwnInv'
<1> SUFFICES ASSUME OwnInv, [Next]_vars PROVE OwnInv'
  OBVIOUS
<1>1. CASE UNCHANGED vars
  BY <1>1 DEF vars, OwnInv, DiskShape, Active, Replacing, Reachable, MediaValid
<1> QED
  BY <1>1, WorkerKeeps, WorldKeeps DEF Next

\* The worker writes to no card but the one whose text the engine has read, for any
\* cards and texts, though cards come and go between any two of its calls.
THEOREM IndexWritesOwnCard == Spec => WritesOwnCard
<1>1. OwnInv /\ [Next]_vars =>
          [WorkerTask => \A c \in Cards :
               disk'[c] # disk[c] => engine'.file = disk[c].text]_vars
  BY WorkerKeeps DEF WritesOwn
<1> QED
  BY <1>1, OwnInit, OwnStep, PTL DEF Spec, WritesOwnCard

-----------------------------------------------------------------------------
(* The index and the saved positions.                                      *)

\* What the engine and the cards say of a text whose pages start at s.
IsStart(s, offset) == \E i \in 1 .. Len(s) : s[i] = offset
OnPage(s, p) == p.page \in 0 .. Len(s) - 1 /\ p.offset = s[p.page + 1]
First(s, n) == [i \in 1 .. n |-> s[i]]

\* A place in the text c: where a page starts under the pagination v, if the fingerprint
\* tells the text from all others.
PlaceOf(c, v, offset) ==
    /\ offset \in Nat /\ (offset = 0 \/ offset < Size[c])
    /\ Told(c) => IsStart(Pages[v][c], offset)

\* The page starts of the text c, or of one with its fingerprint.
StartsOf(s, c, v) == \E t \in Contents : Alike(t, c) /\ s = Pages[v][t]

\* Metadata are true of the text and the pagination they name.
RecordTrue(m) ==
    /\ m.content \in Contents /\ m.version \in Versions /\ {m.modified, m.page} \subseteq Nat
    /\ PlaceOf(m.content, m.version, m.offset)
    /\ m.complete =>
          /\ StartsOf(m.crc, m.content, m.version) /\ m.count = Len(m.crc)
          /\ m.crc[m.page + 1] = m.offset

\* They are of the text t of their card or of an earlier one.
Dated(m, t) == m.modified <= t.modified /\ (m.modified = t.modified => m.content = t.content)

CardsTrue ==
    \A c \in Cards :
        /\ disk[c].text.content \in Contents /\ disk[c].text.modified \in Nat
        /\ disk[c].metadata # None =>
              RecordTrue(disk[c].metadata) /\ Dated(disk[c].metadata, disk[c].text)

PlaceShape(p) == p = [page |-> p.page, offset |-> p.offset]
HeaderShape(h) == h = [count |-> h.count, size |-> h.size, crc |-> h.crc, version |-> h.version]

\* The book an engine e has open, and the places it knows in it.
Opened(e, v) ==
    /\ e.file.content \in Contents
    /\ {e.file.modified, e.resume.page, e.position.page} \subseteq Nat
    /\ PlaceShape(e.resume) /\ PlaceShape(e.position)
    /\ PlaceOf(e.file.content, v, e.resume.offset)
    /\ PlaceOf(e.file.content, v, e.position.offset)

\* An engine e with a book open, in phase p, whose index has the page starts s.
EngineTrue(e, p, s, v) ==
    /\ Opened(e, v) /\ e.checked \in Nat /\ StartsOf(s, e.file.content, v)
    /\ e.header.count \in 1 .. Len(s) /\ e.header.crc = First(s, e.header.count)
    /\ p # "scanning" => e.header.count = Len(s)
    /\ p = "scanning" => /\ e.checked = 0 /\ HeaderShape(e.header)
                         /\ s = Pages[v][e.file.content]
    /\ p = "ready" => OnPage(s, e.resume) /\ OnPage(s, e.position)
    /\ p # "ready" /\ e.byPage => s[e.resume.page + 1] = e.resume.offset

\* The directory d of the card it works on.
DirectoryTrue(d, e, p, s) ==
    /\ p = "scanning" =>
          /\ d.temporary = [header |-> d.temporary.header, offsets |-> d.temporary.offsets]
          /\ d.temporary.offsets \in Seq(Nat) /\ e.buffered \in Seq(Nat)
          /\ d.temporary.offsets \o e.buffered = First(s, e.header.count)
    /\ p = "validating_cache" => d.index # None
    /\ p = "validating_new" => /\ d.temporary.offsets = s
                               /\ e.checked > 0 => d.temporary # None
    /\ p = "ready" => d.index # None /\ d.index.offsets = s

\* The replacement under way.
ReplacementTrue ==
    /\ pc \in {"remove_index", "rename_index"} =>
          /\ phase = "validating_new"
          /\ Reachable => disk[card].temporary # None
    /\ pc \in {"remove_metadata", "rename_metadata"} =>
          /\ RecordTrue(pending.record)
          /\ pending.record.content = engine.file.content
          /\ pending.record.modified = engine.file.modified
          /\ pending.then = "ready" => phase = "ready"

\* The build under way or done is of an index with the page starts s.
BuildOf(s) ==
    /\ EngineTrue(engine, phase, s, version)
    /\ Reachable => DirectoryTrue(disk[card], engine, phase, s)

Book == CHOOSE s : BuildOf(s)

BuildTrue == Active => \E s : BuildOf(s)

EventTrue ==
    event.count > 0 =>
        /\ phase = "ready" /\ event.count = Len(engine.header.crc)
        /\ OnPage(engine.header.crc, event.progress)

\* Sessions are numbered upwards, and each is of one generation of the media.
Known ==
    {<<commands[i].session, commands[i].generation>> : i \in DOMAIN commands}
    \cup {<<engine.session, engine.generation>>}
    \cup (IF reader.open THEN {<<reader.session, reader.generation>>} ELSE {})

ReaderShape ==
    reader = [session |-> reader.session, generation |-> reader.generation,
              open |-> reader.open, accepted |-> reader.accepted, file |-> reader.file,
              indexed |-> reader.indexed]

SessionsTrue ==
    /\ ReaderShape /\ reader.session \in Nat
    /\ \A x \in Known : x[1] \in 0 .. reader.session /\ x[2] \in 0 .. generation
    /\ \A x, y \in Known : x[1] = y[1] => x[2] = y[2]

\* What a session asks for is a place in the text that is in the slot.
AsksTrue(c) ==
    MediaValid(c.generation) /\ c.type # "open" =>
        /\ PlaceOf(disk[card].text.content, version, c.offset)
        /\ c.type = "query" => c.page \in Nat

CommandsTrue ==
    /\ commands = [i \in 1 .. Len(commands) |-> commands[i]] /\ Len(commands) \in Nat
    /\ \A i \in 1 .. Len(commands) : AsksTrue(commands[i])
    /\ reader.open /\ MediaValid(reader.generation) => reader.file = disk[card].text

IndexInv ==
    /\ version \in Versions
    /\ CardsTrue /\ BuildTrue /\ ReplacementTrue /\ EventTrue /\ SessionsTrue /\ CommandsTrue

-----------------------------------------------------------------------------
(* Least numbers, page starts and the pages they begin.                    *)

\* Every nonempty set of naturals has a least element.
LEMMA LeastNatural ==
    ASSUME NEW T, T \subseteq Nat, T # {}
    PROVE  \E x \in T : \A y \in T : x <= y
<1> DEFINE R == {ss \in Nat \X Nat : ss[1] < ss[2]}
<1>1. IsWellFoundedOn(R, Nat)
  BY NatLessThanWellFounded DEF OpToRel
<1>2. PICK x \in T : \A y \in T : ~ (<<y, x>> \in R)
  <2> HIDE DEF R
  <2> QED
    BY <1>1, WFMin
<1>3. ASSUME NEW y \in T PROVE x <= y
  <2>1. x \in Nat /\ y \in Nat
    OBVIOUS
  <2>2. ~ (y < x)
    BY <1>2, <2>1
  <2> QED
    BY <2>1, <2>2
<1> QED
  BY <1>3

\* A bounded one has a greatest.
LEMMA GreatestNatural ==
    ASSUME NEW n \in Nat, NEW T, T \subseteq 0 .. n, T # {}
    PROVE  \E x \in T : \A y \in T : y <= x
<1> DEFINE D == {n - t : t \in T}
<1>1. D \subseteq Nat /\ D # {}
  OBVIOUS
<1>2. PICK d \in D : \A y \in D : d <= y
  <2> HIDE DEF D
  <2> QED
    BY <1>1, LeastNatural
<1>3. PICK x \in T : d = n - x
  BY <1>2
<1>4. ASSUME NEW y \in T PROVE y <= x
  <2>1. d <= n - y
    BY <1>2
  <2>2. x \in 0 .. n /\ y \in 0 .. n
    OBVIOUS
  <2> QED
    BY <1>3, <2>1, <2>2
<1> QED
  BY <1>4

Paged(s, size) ==
    /\ size \in Nat /\ s \in Seq(Nat) /\ Len(s) \in Nat \ {0} /\ s[1] = 0
    /\ \A i \in 2 .. Len(s) : s[i - 1] < s[i] /\ s[i] < size

\* The page starts of every text are as assumed.
LEMMA TextsPaged ==
    ASSUME NEW v \in Versions, NEW c \in Contents
    PROVE  Paged(Pages[v][c], Size[c])
<1>1. PICK s : s = Pages[v][c]
  OBVIOUS
<1>2. /\ s \in Seq(Nat) /\ s # <<>> /\ s[1] = 0 /\ Size[c] \in Nat
      /\ \A i \in 2 .. Len(s) : s[i - 1] < s[i] /\ s[i] < Size[c]
  BY <1>1, TextAssumption DEF Versions
<1>3. Len(s) \in Nat \ {0}
  BY <1>2
<1> QED
  BY <1>1, <1>2, <1>3 DEF Paged

\* Page starts grow.
LEMMA PagesGrow ==
    ASSUME NEW s, NEW size, Paged(s, size), NEW i \in 1 .. Len(s)
    PROVE  \A j \in i + 1 .. Len(s) : s[i] < s[j]
<1> DEFINE T == {j \in i + 1 .. Len(s) : ~ (s[i] < s[j])}
<1>1. PICK n \in Nat : n = Len(s)
  BY DEF Paged
<1>2. \A k \in 1 .. n : s[k] \in Nat
  BY <1>1 DEF Paged
<1>3. ASSUME T # {} PROVE FALSE
  <2>1. T \subseteq Nat
    BY <1>1
  <2>2. PICK j \in T : \A k \in T : j <= k
    <3> HIDE DEF T
    <3> QED
      BY <1>3, <2>1, LeastNatural
  <2>3. j \in i + 1 .. n /\ ~ (s[i] < s[j])
    BY <1>1, <2>2
  <2>4. s[j - 1] < s[j]
    BY <1>1, <2>3 DEF Paged
  <2>5. CASE j = i + 1
    BY <2>3, <2>4, <2>5
  <2>6. CASE j # i + 1
    <3>1. j - 1 \in i + 1 .. n /\ ~ (j <= j - 1)
      BY <1>1, <2>3, <2>6
    <3>2. s[i] < s[j - 1]
      BY <1>1, <2>2, <3>1
    <3>3. s[i] \in Nat /\ s[j - 1] \in Nat /\ s[j] \in Nat
      BY <1>1, <1>2, <2>3, <3>1
    <3> QED
      BY <2>3, <2>4, <3>2, <3>3
  <2> QED
    BY <2>5, <2>6
<1> QED
  BY <1>3

\* The page of an offset is the last one that does not begin behind it.
LEMMA PageAtIs ==
    ASSUME NEW s, NEW size, Paged(s, size), NEW target \in Nat
    PROVE  /\ PageAt(s, target) \in 0 .. Len(s) - 1
           /\ s[PageAt(s, target) + 1] <= target
           /\ \A j \in 1 .. Len(s) : s[j] <= target => j <= PageAt(s, target) + 1
<1> DEFINE T == {i \in 1 .. Len(s) : s[i] <= target}
<1>1. PICK n \in Nat : n = Len(s)
  BY DEF Paged
<1>2. DOMAIN s = 1 .. n
  BY <1>1 DEF Paged
<1>3. T \subseteq 0 .. n /\ 1 \in T
  BY <1>1 DEF Paged
<1>4. PICK greatest \in T : \A y \in T : y <= greatest
  <2> HIDE DEF T
  <2> QED
    BY <1>3, GreatestNatural
<1> DEFINE Last(i) == s[i] <= target /\ \A j \in DOMAIN s : s[j] <= target => j <= i
<1>5. \E i \in DOMAIN s : Last(i)
  BY <1>1, <1>2, <1>4
<1>6. PICK i : i = CHOOSE k \in DOMAIN s : Last(k)
  OBVIOUS
<1>7. i \in DOMAIN s /\ Last(i)
  <2> HIDE DEF Last
  <2> QED
    BY <1>5, <1>6
<1>8. PageAt(s, target) = i - 1
  BY <1>6 DEF PageAt
<1>9. i \in 1 .. n /\ (i - 1) + 1 = i
  BY <1>2, <1>7
<1> QED
  BY <1>1, <1>2, <1>7, <1>8, <1>9

\* What locate finds is a page with its start ...
LEMMA LocatedOnPage ==
    ASSUME NEW s, NEW size, Paged(s, size), NEW progress, NEW preferPage,
           progress.page \in Nat, progress.offset \in Nat
    PROVE  /\ OnPage(s, Located(s, size, progress, preferPage))
           /\ PlaceShape(Located(s, size, progress, preferPage))
<1> DEFINE target == IF size = 0 THEN 0
                     ELSE IF progress.offset < size THEN progress.offset ELSE size - 1
           page == IF preferPage /\ progress.page < Len(s) THEN progress.page
                   ELSE PageAt(s, target)
<1>1. target \in Nat
  BY DEF Paged
<1>2. page \in 0 .. Len(s) - 1
  <2> HIDE DEF target
  <2>1. PageAt(s, target) \in 0 .. Len(s) - 1
    BY <1>1, PageAtIs
  <2>2. Len(s) \in Nat
    BY DEF Paged
  <2> QED
    BY <2>1, <2>2
<1>3. Located(s, size, progress, preferPage) = [page |-> page, offset |-> s[page + 1]]
  BY DEF Located
<1> HIDE DEF page
<1> QED
  BY <1>2, <1>3 DEF OnPage, PlaceShape

\* The offset new is where the page begins on which old lies.
PageBegins(s, new, old) ==
    new <= old /\ \A i \in 1 .. Len(s) : s[i] <= old => s[i] <= new

\* ... and this page is the one on which the place lies.
LEMMA LocatedBegins ==
    ASSUME NEW s, NEW size, Paged(s, size), NEW progress, NEW preferPage,
           progress.page \in Nat, progress.offset \in Nat,
           progress.offset = 0 \/ progress.offset < size,
           preferPage => s[progress.page + 1] = progress.offset
    PROVE  PageBegins(s, Located(s, size, progress, preferPage).offset, progress.offset)
<1> DEFINE target == IF size = 0 THEN 0
                     ELSE IF progress.offset < size THEN progress.offset ELSE size - 1
           page == IF preferPage /\ progress.page < Len(s) THEN progress.page
                   ELSE PageAt(s, target)
<1>1. PICK old \in Nat : old = progress.offset
  OBVIOUS
<1>2. target = old
  BY <1>1 DEF Paged
<1>3. PageBegins(s, s[page + 1], old)
  <2>1. CASE preferPage /\ progress.page < Len(s)
    BY <1>1, <2>1 DEF PageBegins
  <2>2. CASE ~ (preferPage /\ progress.page < Len(s))
    <3>1. PICK k : k = PageAt(s, old) + 1
      OBVIOUS
    <3>2. PICK n \in Nat : n = Len(s)
      BY DEF Paged
    <3>3. k \in 1 .. n /\ s[k] <= old /\ \A j \in 1 .. n : s[j] <= old => j <= k
      <4>1. /\ PageAt(s, old) \in 0 .. Len(s) - 1 /\ s[PageAt(s, old) + 1] <= old
            /\ \A j \in 1 .. Len(s) : s[j] <= old => j <= PageAt(s, old) + 1
        BY PageAtIs
      <4> QED
        BY <3>1, <3>2, <4>1
    <3>4. ASSUME NEW j \in 1 .. n, s[j] <= old PROVE s[j] <= s[k]
      <4>1. j <= k
        BY <3>3, <3>4
      <4>2. CASE j = k
        <5>1. s[k] \in Nat
          BY <3>2, <3>3 DEF Paged
        <5> QED
          BY <4>2, <5>1
      <4>3. CASE j # k
        <5>1. k \in j + 1 .. Len(s) /\ j \in 1 .. Len(s)
          BY <3>2, <3>3, <4>1, <4>3
        <5>2. s[j] < s[k]
          BY <5>1, PagesGrow
        <5>3. s[j] \in Nat /\ s[k] \in Nat
          BY <3>2, <3>3 DEF Paged
        <5> QED
          BY <5>2, <5>3
      <4> QED
        BY <4>2, <4>3
    <3>5. page + 1 = k
      BY <1>2, <2>2, <3>1
    <3> HIDE DEF page
    <3> QED
      BY <3>2, <3>3, <3>4, <3>5 DEF PageBegins
  <2> QED
    BY <2>1, <2>2
<1>4. Located(s, size, progress, preferPage) = [page |-> page, offset |-> s[page + 1]]
  BY DEF Located
<1> HIDE DEF page
<1> QED
  BY <1>1, <1>3, <1>4

\* Starts are positions in the text.
LEMMA StartsInText ==
    ASSUME NEW s, NEW size, Paged(s, size), NEW offset, IsStart(s, offset)
    PROVE  offset \in Nat /\ (offset = 0 \/ offset < size)
<1>1. PICK n \in Nat : n = Len(s)
  BY DEF Paged
<1>2. PICK k \in 1 .. n : s[k] = offset
  BY <1>1 DEF IsStart
<1>3. s[k] \in Nat /\ (k = 1 \/ k \in 2 .. Len(s))
  BY <1>1, <1>2 DEF Paged
<1> QED
  BY <1>2, <1>3 DEF Paged

\* What the fingerprint tells from all others is itself only.
LEMMA AlikeFacts ==
    ASSUME NEW c \in Contents
    PROVE  /\ Alike(c, c)
           /\ \A d \in Contents : Alike(d, c) =>
                 /\ Size[d] = Size[c] /\ (Told(c) \/ Told(d) => d = c)
                 /\ \A e \in Contents : Alike(e, d) => Alike(e, c)
<1>1. ASSUME NEW d \in Contents, Alike(d, c), Told(c) \/ Told(d) PROVE d = c
  <2>1. Alike(c, d)
    BY <1>1 DEF Alike
  <2> QED
    BY <1>1, <2>1 DEF Told
<1> QED
  BY <1>1 DEF Alike

\* The starts of a text are its own;
LEMMA OwnStarts ==
    ASSUME NEW v, NEW c \in Contents, NEW s, s = Pages[v][c]
    PROVE  StartsOf(s, c, v)
  BY AlikeFacts DEF StartsOf

\* they are places in it, and those of a text taken for it are too,
LEMMA StartsArePlaces ==
    ASSUME NEW v \in Versions, NEW c \in Contents, NEW s, StartsOf(s, c, v),
           NEW offset, IsStart(s, offset)
    PROVE  PlaceOf(c, v, offset)
<1>1. PICK t \in Contents : Alike(t, c) /\ s = Pages[v][t]
  BY DEF StartsOf
<1>2. Size[t] = Size[c] /\ (Told(c) => t = c)
  BY <1>1, AlikeFacts
<1>3. offset \in Nat /\ (offset = 0 \/ offset < Size[t])
  BY <1>1, TextsPaged, StartsInText
<1> QED
  BY <1>1, <1>2, <1>3 DEF PlaceOf

\* as any place in such a text is.
LEMMA PlacesOfAlike ==
    ASSUME NEW v, NEW c \in Contents, NEW d \in Contents, Alike(d, c), NEW offset,
           PlaceOf(d, v, offset)
    PROVE  PlaceOf(c, v, offset)
<1>1. Size[d] = Size[c] /\ (Told(c) => d = c)
  BY AlikeFacts
<1> QED
  BY <1>1 DEF PlaceOf

\* A place on a page of the index is one in the text.
LEMMA PagesArePlaces ==
    ASSUME NEW v \in Versions, NEW c \in Contents, NEW s, StartsOf(s, c, v),
           NEW p, OnPage(s, p)
    PROVE  p.page \in Nat /\ PlaceOf(c, v, p.offset)
<1>1. PICK t \in Contents : s = Pages[v][t]
  BY DEF StartsOf
<1>2. Paged(s, Size[t])
  BY <1>1, TextsPaged
<1>3. p.page \in Nat /\ IsStart(s, p.offset)
  BY <1>2 DEF Paged, IsStart, OnPage
<1> QED
  BY <1>3, StartsArePlaces

\* The first page starts, one after the other.
LEMMA FirstGrows ==
    ASSUME NEW s, NEW size, Paged(s, size), NEW n \in 1 .. Len(s) - 1
    PROVE  First(s, n + 1) = Append(First(s, n), s[n + 1])
  BY DEF First, Paged

\* All starts are the first ones up to the last,
LEMMA FirstAll ==
    ASSUME NEW s, NEW size, Paged(s, size)
    PROVE  First(s, Len(s)) = s
  BY DEF First, Paged

\* and the text's beginning is the first.
LEMMA FirstOne ==
    ASSUME NEW s, NEW size, Paged(s, size)
    PROVE  First(s, 1) = <<0>>
  BY DEF First, Paged

-----------------------------------------------------------------------------
(* The cards, the power and the reader.                                    *)

\* Sessions stay true when the reader keeps its session and generations only grow.
LEMMA SessionsKeep ==
    ASSUME SessionsTrue, ReaderShape', Known' \subseteq Known,
           reader'.session = reader.session,
           generation \in Nat, generation' \in Nat, generation <= generation'
    PROVE  SessionsTrue'
<1>1. ASSUME NEW x \in Known' PROVE x[1] \in 0 .. reader'.session /\ x[2] \in 0 .. generation'
  <2>1. x[1] \in 0 .. reader.session /\ x[2] \in 0 .. generation
    BY DEF SessionsTrue
  <2> QED
    BY <2>1
<1>2. \A x, y \in Known' : x[1] = y[1] => x[2] = y[2]
  BY DEF SessionsTrue
<1> QED
  BY <1>1, <1>2 DEF SessionsTrue

\* What is known of a session in the queue, in the engine or with the reader.
LEMMA KnownGenerations ==
    ASSUME SessionsTrue
    PROVE  /\ \A i \in DOMAIN commands :
                 /\ commands[i].session \in 0 .. reader.session
                 /\ commands[i].generation \in 0 .. generation
                 /\ commands[i].session = engine.session =>
                       commands[i].generation = engine.generation
           /\ engine.session \in 0 .. reader.session /\ engine.generation \in 0 .. generation
           /\ reader.open => reader.generation \in 0 .. generation
<1>1. ASSUME NEW i \in DOMAIN commands
      PROVE  <<commands[i].session, commands[i].generation>> \in Known
  BY DEF Known
<1>2. <<engine.session, engine.generation>> \in Known
  BY DEF Known
<1>3. reader.open => <<reader.session, reader.generation>> \in Known
  BY DEF Known
<1>4. \A s, g : <<s, g>> \in Known => s \in 0 .. reader.session /\ g \in 0 .. generation
  BY DEF SessionsTrue
<1>5. \A s, g, t, h : <<s, g>> \in Known /\ <<t, h>> \in Known /\ s = t => g = h
  BY DEF SessionsTrue
<1> QED
  BY <1>1, <1>2, <1>3, <1>4, <1>5

\* The media are exchanged: no open book and no session is of them any more.
LEMMA ChangeKeeps ==
    ASSUME OwnInv, IndexInv, ChangeCard
    PROVE  IndexInv'
<1>1. /\ UNCHANGED <<disk, version, commands, reader, pc, phase, engine, pending, event>>
      /\ generation' = generation + 1 /\ generation \in Nat
      /\ engine.generation \in Nat /\ engine.generation <= generation
  BY DEF ChangeCard, OwnInv
<1>2. ~ Reachable' /\ \A g \in 0 .. generation : ~ MediaValid(g)'
  BY <1>1 DEF Reachable, MediaValid
<1>3. CardsTrue' /\ EventTrue'
  BY <1>1 DEF IndexInv, CardsTrue, EventTrue, Starts
<1>4. BuildTrue' /\ ReplacementTrue'
  BY <1>1, <1>2 DEF IndexInv, BuildTrue, BuildOf, ReplacementTrue, Starts, Active
<1>5. SessionsTrue'
  <2>1. Known' = Known /\ (ReaderShape' <=> ReaderShape)
    BY <1>1 DEF Known, ReaderShape
  <2> QED
    BY <1>1, <2>1, SessionsKeep DEF IndexInv, SessionsTrue
<1>6. CommandsTrue'
  <2>1. ASSUME NEW i \in 1 .. Len(commands') PROVE AsksTrue(commands[i])'
    <3>1. PICK command : command = commands[i]
      OBVIOUS
    <3>2. i \in DOMAIN commands
      BY <1>1, <2>1 DEF IndexInv, CommandsTrue
    <3>3. command.generation \in 0 .. generation
      BY <3>1, <3>2, KnownGenerations DEF IndexInv
    <3>4. AsksTrue(command)'
      BY <1>2, <3>3 DEF AsksTrue
    <3> QED
      BY <1>1, <3>1, <3>4
  <2>2. reader.open => ~ MediaValid(reader.generation)'
    <3>1. PICK g : g = reader.generation
      OBVIOUS
    <3>2. reader.open => g \in 0 .. generation
      BY <3>1, KnownGenerations DEF IndexInv
    <3> QED
      BY <1>1, <1>2, <3>1, <3>2
  <2> QED
    BY <1>1, <2>1, <2>2 DEF IndexInv, CommandsTrue
<1> QED
  BY <1>1, <1>3, <1>4, <1>5, <1>6 DEF IndexInv

\* A text is edited or an index damaged while the card is out.
LEMMA EditKeeps ==
    ASSUME OwnInv, IndexInv, EditText \/ DamageIndex
    PROVE  IndexInv'
<1>1. /\ UNCHANGED <<card, generation, version, commands, reader, pc, phase, engine,
                    pending, event>>
      /\ card = None /\ generation \in Nat /\ DiskShape
  BY DEF EditText, DamageIndex, OwnInv
<1>2. ~ Reachable' /\ ~ Reachable /\ \A g : ~ MediaValid(g)'
  BY <1>1 DEF Reachable, MediaValid
<1>3. CardsTrue'
  <2>1. CASE EditText
    <3>1. PICK k \in Cards, new \in Contents :
             disk' = [disk EXCEPT ![k].text = [content |-> new, modified |-> @.modified + 1]]
      BY <2>1 DEF EditText
    <3>2. ASSUME NEW c \in Cards
          PROVE  /\ disk'[c].text.content \in Contents /\ disk'[c].text.modified \in Nat
                 /\ disk'[c].metadata # None =>
                      RecordTrue(disk'[c].metadata) /\ Dated(disk'[c].metadata, disk'[c].text)
      <4>1. PICK d : d = disk[c] /\ CardShape(d)
        BY <1>1 DEF DiskShape
      <4>2. /\ d.text.content \in Contents /\ d.text.modified \in Nat
            /\ d.metadata # None => RecordTrue(d.metadata) /\ Dated(d.metadata, d.text)
        BY <4>1 DEF IndexInv, CardsTrue
      <4>3. CASE c # k
        <5>1. disk'[c] = d
          BY <1>1, <3>1, <4>1, <4>3 DEF DiskShape
        <5> QED
          BY <4>2, <5>1
      <4>4. CASE c = k
        <5>1. PICK n : n = disk'[c]
          OBVIOUS
        <5>2. n = [d EXCEPT !.text = [content |-> new, modified |-> d.text.modified + 1]]
          BY <1>1, <3>1, <4>1, <4>4, <5>1 DEF DiskShape
        <5>3. /\ n.text = [content |-> new, modified |-> d.text.modified + 1]
              /\ n.metadata = d.metadata
          BY <4>1, <5>2 DEF CardShape
        <5>4. d.metadata # None => d.metadata.modified \in Nat
          BY <4>2 DEF RecordTrue
        <5>5. d.metadata # None => Dated(d.metadata, n.text)
          BY <4>2, <5>3, <5>4 DEF Dated
        <5> QED
          BY <4>2, <5>1, <5>3, <5>5
      <4> QED
        BY <4>3, <4>4
    <3> QED
      BY <3>2 DEF CardsTrue
  <2>2. CASE DamageIndex
    <3>1. PICK k \in Cards : \E f : disk' = [disk EXCEPT ![k].index.offsets = f]
      BY <2>2, Zenon DEF DamageIndex
    <3>2. ASSUME NEW c \in Cards
          PROVE  disk'[c].text = disk[c].text /\ disk'[c].metadata = disk[c].metadata
      <4>1. PICK d : d = disk[c] /\ CardShape(d)
        BY <1>1 DEF DiskShape
      <4>2. disk'[c] = d \/ \E f : disk'[c] = [d EXCEPT !.index.offsets = f]
        BY <1>1, <3>1, <4>1 DEF DiskShape
      <4> QED
        BY <4>1, <4>2 DEF CardShape
    <3> QED
      BY <3>2 DEF IndexInv, CardsTrue
  <2> QED
    BY <2>1, <2>2
<1>4. EventTrue'
  BY <1>1 DEF IndexInv, EventTrue, Starts
<1>5. BuildTrue' /\ ReplacementTrue'
  BY <1>1, <1>2 DEF IndexInv, BuildTrue, BuildOf, ReplacementTrue, Starts, Active
<1>6. SessionsTrue'
  BY <1>1 DEF IndexInv, SessionsTrue, Known, ReaderShape
<1>7. CommandsTrue'
  BY <1>1, <1>2 DEF IndexInv, CommandsTrue, AsksTrue
<1> QED
  BY <1>1, <1>3, <1>4, <1>5, <1>6, <1>7 DEF IndexInv

\* Nothing is left in memory.
LEMMA PowerKeeps ==
    ASSUME OwnInv, IndexInv, PowerLoss
    PROVE  IndexInv'
<1>1. /\ version' \in Versions /\ card' = None /\ commands' = <<>>
      /\ reader' = [NoReader EXCEPT !.session = reader.session]
      /\ pc' = "loop" /\ phase' = "idle" /\ engine' = NoEngine /\ event' = NoEvent
      /\ UNCHANGED <<disk, generation>> /\ generation \in Nat /\ reader.session \in Nat
  BY DEF PowerLoss, OwnInv, IndexInv, SessionsTrue
<1>2. /\ reader' = [NoReader EXCEPT !.session = reader'.session] /\ ~ reader'.open
      /\ reader'.session = reader.session /\ ReaderShape'
  BY <1>1 DEF NoReader, ReaderShape
<1>3. CardsTrue'
  BY <1>1 DEF IndexInv, CardsTrue
<1>4. BuildTrue' /\ ReplacementTrue' /\ EventTrue'
  BY <1>1 DEF BuildTrue, BuildOf, ReplacementTrue, EventTrue, Active, NoEvent
<1>5. SessionsTrue'
  <2>1. Known' = {<<0, 0>>}
    BY <1>1, <1>2 DEF Known, NoEngine
  <2>2. \A x \in {<<0, 0>>} : x[1] \in 0 .. reader.session /\ x[2] \in 0 .. generation
    BY <1>1
  <2> QED
    BY <1>1, <1>2, <2>1, <2>2 DEF SessionsTrue
<1>6. CommandsTrue'
  BY <1>1, <1>2 DEF CommandsTrue
<1> QED
  BY <1>1, <1>3, <1>4, <1>5, <1>6 DEF IndexInv

Listed(q) == Len(q) \in Nat /\ q = [i \in 1 .. Len(q) |-> q[i]]

\* A list is a sequence over what it holds.
LEMMA ListedIs == ASSUME NEW q, Listed(q) PROVE \E S : q \in Seq(S)
<1>1. PICK n \in Nat : n = Len(q)
  BY DEF Listed
<1>2. PICK S : S = {q[i] : i \in 1 .. n}
  OBVIOUS
<1>3. q = [i \in 1 .. n |-> q[i]]
  BY <1>1 DEF Listed
<1>4. \A i \in 1 .. n : q[i] \in S
  BY <1>2
<1>5. q \in [1 .. n -> S]
  BY <1>3, <1>4
<1>6. q \in UNION {[1 .. k -> S] : k \in Nat}
  BY <1>5
<1> QED
  BY <1>6, SeqDef

\* Sequences are lists.
LEMMA SeqListed == ASSUME NEW S, NEW q \in Seq(S) PROVE Listed(q)
  BY DEF Listed

\* A list with an element more.
LEMMA AppendListed ==
    ASSUME NEW q, Listed(q), NEW x
    PROVE  /\ Listed(Append(q, x)) /\ Len(Append(q, x)) = Len(q) + 1
           /\ Append(q, x)[Len(q) + 1] = x
           /\ \A i \in 1 .. Len(q) : Append(q, x)[i] = q[i]
<1>1. PICK S : q \in Seq(S)
  BY ListedIs
<1>2. PICK T : T = S \cup {x}
  OBVIOUS
<1>3. q \in Seq(T) /\ x \in T
  BY <1>1, <1>2
<1>4. /\ Append(q, x) \in Seq(T) /\ Len(Append(q, x)) = Len(q) + 1
      /\ Append(q, x)[Len(q) + 1] = x
      /\ \A i \in 1 .. Len(q) : Append(q, x)[i] = q[i]
  BY <1>3
<1> QED
  BY <1>4, SeqListed

\* A list without its first element.
LEMMA TailListed ==
    ASSUME NEW q, Listed(q), q # <<>>
    PROVE  /\ Listed(Tail(q)) /\ Len(q) \in Nat \ {0} /\ Len(Tail(q)) = Len(q) - 1
           /\ Head(q) = q[1] /\ \A i \in 1 .. Len(Tail(q)) : Tail(q)[i] = q[i + 1]
<1>1. PICK S : q \in Seq(S)
  BY ListedIs
<1>2. /\ Tail(q) \in Seq(S) /\ Len(q) \in Nat \ {0} /\ Len(Tail(q)) = Len(q) - 1
      /\ Head(q) = q[1] /\ \A i \in 1 .. Len(Tail(q)) : Tail(q)[i] = q[i + 1]
  BY <1>1
<1> QED
  BY <1>2, SeqListed

\* A step of the reader's side leaves worker and card alone.
LEMMA ClientKeeps ==
    ASSUME IndexInv, UNCHANGED clientFrame, SessionsTrue', CommandsTrue'
    PROVE  IndexInv'
<1>1. UNCHANGED <<disk, card, generation, version, pc, phase, engine, pending, event>>
  BY DEF clientFrame
<1>2. CardsTrue' /\ EventTrue'
  BY <1>1 DEF IndexInv, CardsTrue, EventTrue, Starts
<1>3. Reachable' <=> Reachable
  BY <1>1 DEF Reachable, MediaValid
<1>4. ReplacementTrue'
  BY <1>1, <1>3 DEF IndexInv, ReplacementTrue
<1>5. BuildTrue'
  BY <1>1, <1>3 DEF IndexInv, BuildTrue, BuildOf, Starts, Active
<1> QED
  BY <1>1, <1>2, <1>4, <1>5 DEF IndexInv

\* A command is submitted, or not.
LEMMA SubmitKeeps ==
    ASSUME IndexInv, UNCHANGED clientFrame, NEW c,
           commands' = commands \/ (commands' = Append(commands, c) /\ AsksTrue(c)),
           reader'.open /\ MediaValid(reader'.generation) => reader'.file = disk[card].text
    PROVE  CommandsTrue'
<1>1. UNCHANGED <<disk, card, generation, version>>
  BY DEF clientFrame
<1>2. Listed(commands) /\ \A i \in 1 .. Len(commands) : AsksTrue(commands[i])
  BY DEF IndexInv, CommandsTrue, Listed
<1>3. \A x : AsksTrue(x)' <=> AsksTrue(x)
  BY <1>1 DEF AsksTrue, MediaValid, Starts
<1>4. PICK q : q = commands'
  OBVIOUS
<1>5. Listed(q) /\ \A i \in 1 .. Len(q) : AsksTrue(q[i])
  <2>1. CASE commands' = commands
    BY <1>2, <1>4, <2>1
  <2>2. CASE commands' = Append(commands, c) /\ AsksTrue(c)
    <3>1. /\ Listed(q) /\ Len(q) = Len(commands) + 1 /\ q[Len(commands) + 1] = c
          /\ \A i \in 1 .. Len(commands) : q[i] = commands[i]
      <4>1. Listed(commands) /\ q = Append(commands, c)
        BY <1>2, <1>4, <2>2
      <4> QED
        BY <4>1, AppendListed
    <3>2. PICK n \in Nat : n = Len(commands)
      BY <1>2 DEF Listed
    <3>3. \A i \in 1 .. n + 1 : i \in 1 .. n \/ i = n + 1
      BY <3>2
    <3> QED
      BY <1>2, <2>2, <3>1, <3>2, <3>3
  <2> QED
    BY <2>1, <2>2
<1>6. \A i \in 1 .. Len(q) : AsksTrue(q[i])'
  BY <1>3, <1>5
<1>7. reader'.open /\ MediaValid(reader.generation)' => reader'.file = disk'[card'].text
  BY <1>1 DEF MediaValid
<1> QED
  BY <1>4, <1>5, <1>6, <1>7 DEF CommandsTrue, Listed

\* A command that is submitted names the reader's session or the one it closes.
LEMMA KnownSubmitted ==
    ASSUME IndexInv, UNCHANGED clientFrame, NEW c,
           commands' = commands \/ commands' = Append(commands, c)
    PROVE  Known' \subseteq Known \cup {<<c.session, c.generation>>}
                \cup (IF reader'.open THEN {<<reader'.session, reader'.generation>>} ELSE {})
<1>1. UNCHANGED engine
  BY DEF clientFrame
<1>2. Listed(commands)
  BY DEF IndexInv, CommandsTrue, Listed
<1>3. PICK q : q = commands'
  OBVIOUS
<1>4. PICK n \in Nat : n = Len(commands) /\ DOMAIN commands = 1 .. n
  BY <1>2 DEF Listed
<1>5. ASSUME NEW i \in DOMAIN q
      PROVE  q[i] = c \/ \E j \in DOMAIN commands : q[i] = commands[j]
  <2>1. CASE q = commands
    BY <2>1
  <2>2. CASE q = Append(commands, c)
    <3>1. /\ Listed(q) /\ Len(q) = n + 1 /\ q[n + 1] = c
          /\ \A j \in 1 .. n : q[j] = commands[j]
      <4>1. /\ Listed(q) /\ Len(q) = Len(commands) + 1 /\ q[Len(commands) + 1] = c
            /\ \A j \in 1 .. Len(commands) : q[j] = commands[j]
        BY <1>2, <2>2, AppendListed
      <4> QED
        BY <1>4, <4>1
    <3>2. DOMAIN q = 1 .. n + 1
      BY <3>1 DEF Listed
    <3>3. i = n + 1 \/ i \in 1 .. n
      BY <1>5, <3>2
    <3> QED
      BY <1>4, <3>1, <3>3
  <2> QED
    BY <1>3, <2>1, <2>2
<1> QED
  BY <1>1, <1>3, <1>5 DEF Known

\* A session opens under the next number, with the text of the card.
LEMMA OpenSessionKeeps ==
    ASSUME OwnInv, IndexInv, OpenSession
    PROVE  IndexInv'
<1> DEFINE s == reader.session + 1
           c == [type |-> "open", session |-> s, generation |-> generation]
<1>1. /\ commands' = commands \/ commands' = Append(commands, c)
      /\ reader' = [session |-> s, generation |-> generation, open |-> TRUE,
                    accepted |-> Submittable(FALSE), file |-> disk[card].text,
                    indexed |-> FALSE]
      /\ UNCHANGED clientFrame /\ UNCHANGED <<engine, generation>>
      /\ generation \in Nat /\ reader.session \in Nat
  BY DEF OpenSession, clientFrame, OwnInv, IndexInv, SessionsTrue
<1>2. /\ reader'.session = s /\ reader'.generation = generation /\ reader'.open
      /\ reader'.file = disk[card].text /\ ReaderShape'
  BY <1>1 DEF ReaderShape
<1>3. CommandsTrue'
  <2>1. AsksTrue(c)
    BY DEF AsksTrue
  <2> HIDE DEF c
  <2> QED
    BY <1>1, <1>2, <2>1, SubmitKeeps
<1>4. SessionsTrue'
  <2>1. Known' \subseteq Known \cup {<<s, generation>>}
    <3>1. c.session = s /\ c.generation = generation
      OBVIOUS
    <3> HIDE DEF c
    <3>2. Known' \subseteq Known \cup {<<c.session, c.generation>>}
                \cup (IF reader'.open THEN {<<reader'.session, reader'.generation>>} ELSE {})
      BY <1>1, KnownSubmitted
    <3> QED
      BY <1>2, <3>1, <3>2
  <2>2. ASSUME NEW x \in Known
        PROVE  x[1] \in 0 .. s /\ x[1] # s /\ x[2] \in 0 .. generation
    <3>1. x[1] \in 0 .. reader.session /\ x[2] \in 0 .. generation
      BY DEF IndexInv, SessionsTrue
    <3> QED
      BY <1>1, <3>1
  <2>3. PICK new, g : new = <<s, g>> /\ g = generation
    OBVIOUS
  <2>4. new[1] = s /\ new[2] = g
    <3> HIDE DEF s
    <3> QED
      BY <2>3
  <2>5. \A x \in Known' : x \in Known \/ x = new
    BY <2>1, <2>3
  <2>6. \A x \in Known' : x[1] \in 0 .. s /\ x[2] \in 0 .. generation
    BY <1>1, <2>2, <2>3, <2>4, <2>5
  <2>7. \A x, y \in Known' : x[1] = y[1] => x[2] = y[2]
    <3>1. \A x, y \in Known : x[1] = y[1] => x[2] = y[2]
      BY DEF IndexInv, SessionsTrue
    <3> HIDE DEF s
    <3> QED
      BY <2>2, <2>3, <2>4, <2>5, <3>1
  <2> QED
    BY <1>1, <1>2, <2>6, <2>7 DEF SessionsTrue
<1> QED
  BY <1>1, <1>3, <1>4, ClientKeeps

\* What a reader shows of a text are places in it.
LEMMA ShownArePlaces ==
    ASSUME version \in Versions, NEW c \in Contents, NEW offset \in Shown(c)
    PROVE  PlaceOf(c, version, offset)
<1>1. PICK s : s = Pages[version][c]
  OBVIOUS
<1>2. Paged(s, Size[c]) /\ StartsOf(s, c, version)
  BY <1>1, TextsPaged, OwnStarts
<1>3. CASE Told(c)
  <2>1. IsStart(s, offset)
    BY <1>1, <1>2, <1>3 DEF Shown, IsStart, Paged
  <2> QED
    BY <1>2, <2>1, StartsArePlaces
<1>4. CASE ~ Told(c)
  <2>1. offset \in Offsets /\ (offset = 0 \/ offset < Size[c])
    BY <1>4 DEF Shown
  <2>2. offset \in Nat
    BY <2>1, TextAssumption DEF Offsets
  <2> QED
    BY <1>4, <2>1, <2>2 DEF PlaceOf
<1> QED
  BY <1>3, <1>4

\* What a session asks for is of the text it was opened with.
LEMMA AskKeeps ==
    ASSUME OwnInv, IndexInv, Query \/ CloseSession
    PROVE  IndexInv'
<1>1. /\ UNCHANGED clientFrame /\ UNCHANGED <<engine, generation>> /\ generation \in Nat
      /\ ReaderShape /\ reader.open
  BY DEF Query, CloseSession, clientFrame, OwnInv, IndexInv, SessionsTrue
<1>2. /\ ReaderShape' /\ reader'.session = reader.session /\ reader'.file = reader.file
      /\ reader'.generation = reader.generation
  <2>1. CASE Query
    BY <1>1, <2>1 DEF Query, ReaderShape
  <2>2. CASE CloseSession
    BY <1>1, <2>2 DEF CloseSession, ReaderShape
  <2> QED
    BY <2>1, <2>2
<1>3. PICK c : /\ commands' = commands \/ (commands' = Append(commands, c) /\ AsksTrue(c))
               /\ c.session = reader.session /\ c.generation = reader.generation
  <2>1. CASE commands' = commands
    <3>1. PICK c : c = [type |-> "open", session |-> reader.session,
                        generation |-> reader.generation]
      OBVIOUS
    <3> QED
      BY <2>1, <3>1
  <2>2. CASE commands' # commands
    <3>1. MediaValid(reader.generation) /\ reader.open
      BY <1>1, <2>2 DEF Query, CloseSession
    <3>2. PICK shown, starts :
             shown = Shown(reader.file.content) /\ starts = Starts(reader.file)
      OBVIOUS
    <3>3. /\ reader.file = disk[card].text /\ card \in Cards
          /\ reader.file.content \in Contents /\ version \in Versions
      BY <3>1 DEF IndexInv, CommandsTrue, CardsTrue, MediaValid, OwnInv
    <3>4. Paged(starts, Size[reader.file.content])
      BY <3>2, <3>3, TextsPaged DEF Starts
    <3>5. /\ DOMAIN starts = 1 .. Len(starts)
          /\ \A offset \in shown : PlaceOf(disk[card].text.content, version, offset)
      BY <3>2, <3>3, <3>4, ShownArePlaces DEF Paged
    <3>6. CASE Query
      <4>1. PICK offset \in shown, j \in DOMAIN starts, byPage \in {FALSE, reader.indexed} :
               commands' = Append(commands,
                  [type |-> "query", session |-> reader.session,
                   generation |-> reader.generation, byPage |-> byPage, page |-> j - 1,
                   offset |-> offset])
        BY <3>2, <3>6 DEF Query
      <4>2. PICK c : c = [type |-> "query", session |-> reader.session,
                   generation |-> reader.generation, byPage |-> byPage, page |-> j - 1,
                   offset |-> offset]
        OBVIOUS
      <4>3. j - 1 \in Nat
        BY <3>4, <3>5 DEF Paged
      <4>4. /\ c.session = reader.session /\ c.generation = reader.generation
            /\ c.page \in Nat /\ c.offset = offset
        BY <4>2, <4>3
      <4>5. AsksTrue(c)
        BY <3>5, <4>4 DEF AsksTrue
      <4> QED
        BY <4>1, <4>2, <4>4, <4>5
    <3>7. CASE CloseSession
      <4>1. PICK offset \in shown :
               commands' = Append(commands,
                  [type |-> "close", session |-> reader.session,
                   generation |-> reader.generation, offset |-> offset])
        BY <2>2, <3>2, <3>7 DEF CloseSession
      <4>2. PICK c : c = [type |-> "close", session |-> reader.session,
                   generation |-> reader.generation, offset |-> offset]
        OBVIOUS
      <4>3. /\ c.session = reader.session /\ c.generation = reader.generation
            /\ c.type = "close" /\ c.offset = offset
        BY <4>2
      <4>4. AsksTrue(c)
        BY <3>5, <4>3 DEF AsksTrue
      <4> QED
        BY <4>1, <4>2, <4>3, <4>4
    <3> QED
      BY <3>6, <3>7
  <2> QED
    BY <2>1, <2>2
<1>4. CommandsTrue'
  <2>1. reader.open /\ MediaValid(reader.generation) => reader.file = disk[card].text
    BY DEF IndexInv, CommandsTrue
  <2> QED
    BY <1>1, <1>2, <1>3, <2>1, SubmitKeeps
<1>5. SessionsTrue'
  <2>1. <<reader.session, reader.generation>> \in Known
    BY <1>1 DEF Known
  <2>2. Known' \subseteq Known \cup {<<c.session, c.generation>>}
                \cup (IF reader'.open THEN {<<reader'.session, reader'.generation>>} ELSE {})
    BY <1>1, <1>3, KnownSubmitted
  <2>3. Known' \subseteq Known
    BY <1>2, <1>3, <2>1, <2>2
  <2> QED
    BY <1>1, <1>2, <2>3, SessionsKeep DEF IndexInv
<1> QED
  BY <1>1, <1>4, <1>5, ClientKeeps

-----------------------------------------------------------------------------
(* What every step of the worker leaves alone.                             *)

SameReader ==
    /\ ReaderShape' /\ reader'.session = reader.session /\ reader'.open = reader.open
    /\ reader'.generation = reader.generation /\ reader'.file = reader.file

Around ==
    /\ UNCHANGED <<card, generation, version>> /\ SameReader
    /\ \A c \in Cards : disk'[c].text = disk[c].text
    /\ commands' = commands \/ (commands # <<>> /\ commands' = Tail(commands))

\* What the worker tells about the index leaves the place in the reader alone.
LEMMA SameReaderIf ==
    ASSUME ReaderShape, UNCHANGED reader \/ NoteIndex
    PROVE  SameReader
<1>1. CASE UNCHANGED reader
  BY <1>1 DEF SameReader, ReaderShape
<1>2. CASE NoteIndex
  BY <1>2 DEF SameReader, ReaderShape, NoteIndex
<1> QED
  BY <1>1, <1>2

\* A step of the worker leaves the reader, its generation and the queue as they are, but
\* for the command it takes.
LEMMA WorkerAround ==
    ASSUME OwnInv, IndexInv, WorkerTask
    PROVE  Around
<1>1. UNCHANGED <<card, generation, version>> /\ (UNCHANGED reader \/ NoteIndex)
  BY DEF WorkerTask, Dequeue, NoCommand, NothingToDo, StepFails, ScanPage, ScanEnd,
         ValidateBlock, CacheDamaged, NewIndexValid, CacheValid, RemoveIndex, RenameIndex,
         RemoveMetadata, RenameMetadata, ReplaceFails, engineFrame
<1>2. commands' = commands \/ (commands # <<>> /\ commands' = Tail(commands))
  BY DEF WorkerTask, Dequeue, NoCommand, NothingToDo, StepFails, ScanPage, ScanEnd,
         ValidateBlock, CacheDamaged, NewIndexValid, CacheValid, RemoveIndex, RenameIndex,
         RemoveMetadata, RenameMetadata, ReplaceFails, engineFrame
<1>3. SameReader
  BY <1>1, SameReaderIf DEF IndexInv, SessionsTrue
<1>4. \A c \in Cards : disk'[c].text = disk[c].text
  BY WorkerKeeps
<1> QED
  BY <1>1, <1>2, <1>3, <1>4 DEF Around

\* So the commands stay true,
LEMMA CommandsStay ==
    ASSUME OwnInv, IndexInv, Around
    PROVE  CommandsTrue'
<1>1. UNCHANGED <<card, generation, version>> /\ card \in Cards \cup {None}
  BY DEF Around, OwnInv
<1>2. Listed(commands) /\ \A i \in 1 .. Len(commands) : AsksTrue(commands[i])
  BY DEF IndexInv, CommandsTrue, Listed
<1>3. \A x : AsksTrue(x) => AsksTrue(x)'
  <2>1. \A g : MediaValid(g)' <=> MediaValid(g)
    BY <1>1 DEF MediaValid
  <2>2. \A g : MediaValid(g) => disk'[card'].text = disk[card].text
    BY <1>1 DEF Around, MediaValid
  <2> QED
    BY <1>1, <2>1, <2>2 DEF AsksTrue
<1>4. PICK q : q = commands'
  OBVIOUS
<1>5. Listed(q) /\ \A i \in 1 .. Len(q) : AsksTrue(q[i])
  <2>1. CASE commands' = commands
    BY <1>2, <1>4, <2>1
  <2>2. CASE commands # <<>> /\ commands' = Tail(commands)
    <3>1. /\ Listed(q) /\ Len(commands) \in Nat /\ Len(q) = Len(commands) - 1
          /\ \A i \in 1 .. Len(q) : q[i] = commands[i + 1]
      BY <1>2, <1>4, <2>2, TailListed
    <3>2. \A i \in 1 .. Len(q) : i + 1 \in 1 .. Len(commands)
      BY <3>1
    <3> QED
      BY <1>2, <3>1, <3>2
  <2> QED
    BY <2>1, <2>2 DEF Around
<1>6. \A i \in 1 .. Len(q) : AsksTrue(q[i])'
  BY <1>3, <1>5
<1>7. reader'.open /\ MediaValid(reader.generation)' => reader'.file = disk'[card'].text
  BY <1>1 DEF MediaValid, Around, SameReader, IndexInv, CommandsTrue
<1> QED
  BY <1>4, <1>5, <1>6, <1>7 DEF CommandsTrue, Listed, Around, SameReader, MediaValid

\* and the sessions.
LEMMA SessionsStay ==
    ASSUME OwnInv, IndexInv, Around, <<engine'.session, engine'.generation>> \in Known
    PROVE  SessionsTrue'
<1>1. Listed(commands)
  BY DEF IndexInv, CommandsTrue, Listed
<1>2. PICK q : q = commands'
  OBVIOUS
<1>3. ASSUME NEW i \in DOMAIN q PROVE \E j \in DOMAIN commands : q[i] = commands[j]
  <2>1. CASE commands' = commands
    BY <1>2, <2>1
  <2>2. CASE commands # <<>> /\ commands' = Tail(commands)
    <3>1. /\ Listed(q) /\ Len(commands) \in Nat /\ Len(q) = Len(commands) - 1
          /\ \A k \in 1 .. Len(q) : q[k] = commands[k + 1]
      BY <1>1, <1>2, <2>2, TailListed
    <3>2. DOMAIN q = 1 .. Len(q) /\ DOMAIN commands = 1 .. Len(commands)
      BY <1>1, <3>1 DEF Listed
    <3>3. i + 1 \in DOMAIN commands
      BY <3>1, <3>2
    <3> QED
      BY <3>1, <3>2, <3>3
  <2> QED
    BY <2>1, <2>2 DEF Around
<1>4. reader'.open => <<reader'.session, reader'.generation>> \in Known
  BY DEF Around, SameReader, Known
<1>5. Known' \subseteq Known
  <2>1. \A i \in DOMAIN q : <<q[i].session, q[i].generation>> \in Known
    BY <1>3 DEF Known
  <2> QED
    BY <1>2, <1>4, <2>1 DEF Known
<1> QED
  BY <1>5, SessionsKeep DEF IndexInv, Around, SameReader, OwnInv

\* What is left to show of a step that stays with its book.
LEMMA BookStep ==
    ASSUME OwnInv, IndexInv, Around, StaysWithBook,
           CardsTrue', BuildTrue', ReplacementTrue', EventTrue'
    PROVE  IndexInv'
<1>1. <<engine'.session, engine'.generation>> \in Known
  BY DEF StaysWithBook, Known
<1>2. SessionsTrue' /\ CommandsTrue'
  BY <1>1, SessionsStay, CommandsStay
<1> QED
  BY <1>2 DEF IndexInv, Around

\* Metadata that are not replaced.
LEMMA CardsStay ==
    ASSUME IndexInv, \A c \in Cards : disk'[c].text = disk[c].text,
           \A c \in Cards : disk'[c].metadata = disk[c].metadata \/ disk'[c].metadata = None
    PROVE  CardsTrue'
  BY DEF IndexInv, CardsTrue

\* The page starts of a text, or of one with its fingerprint, are as assumed.
LEMMA StartsPaged ==
    ASSUME NEW v \in Versions, NEW c \in Contents, NEW s, StartsOf(s, c, v)
    PROVE  Paged(s, Size[c])
<1>1. PICK t \in Contents : Alike(t, c) /\ s = Pages[v][t]
  BY DEF StartsOf
<1>2. Size[t] = Size[c]
  BY <1>1 DEF Alike
<1> QED
  BY <1>1, <1>2, TextsPaged

\* A header that counts all pages has all their starts.
LEMMA FullHeader ==
    ASSUME NEW s, NEW size, Paged(s, size), NEW e, NEW p, NEW v, EngineTrue(e, p, s, v),
           p # "scanning"
    PROVE  e.header.crc = s /\ e.header.count = Len(s)
<1>1. e.header.crc = First(s, Len(s)) /\ e.header.count = Len(s)
  BY DEF EngineTrue
<1> QED
  BY <1>1, FirstAll

\* The engine's book: its text and where the pages of its index start.
LEMMA BookOpen ==
    ASSUME IndexInv, Active
    PROVE  /\ Paged(Book, Size[engine.file.content])
           /\ EngineTrue(engine, phase, Book, version)
           /\ Reachable => DirectoryTrue(disk[card], engine, phase, Book)
           /\ version \in Versions /\ engine.file.content \in Contents
           /\ phase = "scanning" => Book = Starts(engine.file)
<1>1. BuildOf(Book) /\ version \in Versions
  <2>1. \E s : BuildOf(s)
    BY DEF IndexInv, BuildTrue
  <2> QED
    BY <2>1, Zenon DEF Book, IndexInv
<1>2. PICK s : s = Book
  OBVIOUS
<1>3. /\ EngineTrue(engine, phase, s, version)
      /\ Reachable => DirectoryTrue(disk[card], engine, phase, s)
  BY <1>1, <1>2 DEF BuildOf
<1>4. /\ engine.file.content \in Contents /\ StartsOf(s, engine.file.content, version)
      /\ phase = "scanning" => s = Starts(engine.file)
  BY <1>3 DEF EngineTrue, Opened, Starts
<1> QED
  BY <1>1, <1>2, <1>3, <1>4, StartsPaged

\* What is to be shown of a step of the engine on its own book.
LEMMA BuildStep ==
    ASSUME Around, StaysWithBook, NEW s,
           EngineTrue(engine', phase', s, version),
           Reachable => DirectoryTrue(disk'[card], engine', phase', s)
    PROVE  BuildTrue'
<1>1. (Reachable' <=> Reachable) /\ card' = card /\ version' = version
  BY DEF Around, StaysWithBook, Reachable, MediaValid
<1> QED
  BY <1>1 DEF BuildTrue, BuildOf

\* The directory the engine writes to.
LEMMA DirectoryWritten ==
    ASSUME DiskShape, card \in Cards, NEW d, d = disk[card], NEW v, NEW w
    PROVE  /\ CardShape(d)
           /\ disk' = [disk EXCEPT ![card].temporary = v] =>
                 disk'[card] = [d EXCEPT !.temporary = v]
           /\ disk' = [disk EXCEPT ![card].temporary.offsets = v] =>
                 disk'[card] = [d EXCEPT !.temporary.offsets = v]
           /\ disk' = [disk EXCEPT ![card].index = v] =>
                 disk'[card] = [d EXCEPT !.index = v]
           /\ disk' = [disk EXCEPT ![card].index = v, ![card].temporary = w] =>
                 disk'[card] = [d EXCEPT !.index = v, !.temporary = w]
           /\ disk' = [disk EXCEPT ![card].metadata = v] =>
                 disk'[card] = [d EXCEPT !.metadata = v]
  BY DEF DiskShape

\* What the engine writes to a directory but its metadata.
LEMMA MetadataStay ==
    ASSUME DiskShape, card \in Cards, NEW v, NEW w,
           \/ disk' = disk
           \/ disk' = [disk EXCEPT ![card].temporary = v]
           \/ disk' = [disk EXCEPT ![card].temporary.offsets = v]
           \/ disk' = [disk EXCEPT ![card].index = v]
           \/ disk' = [disk EXCEPT ![card].index = v, ![card].temporary = w]
    PROVE  \A c \in Cards : disk'[c].metadata = disk[c].metadata
<1>1. PICK d : d = disk[card] /\ CardShape(d)
  BY DEF DiskShape
<1>2. \A c \in Cards : c # card => disk'[c] = disk[c]
  BY DEF DiskShape
<1>3. \/ disk'[card] = d
      \/ disk'[card] = [d EXCEPT !.temporary = v]
      \/ disk'[card] = [d EXCEPT !.temporary.offsets = v]
      \/ disk'[card] = [d EXCEPT !.index = v]
      \/ disk'[card] = [d EXCEPT !.index = v, !.temporary = w]
  BY <1>1 DEF DiskShape
<1>4. disk'[card].metadata = d.metadata
  BY <1>1, <1>3 DEF CardShape
<1> QED
  BY <1>1, <1>2, <1>4

-----------------------------------------------------------------------------
(* The steps of a build.                                                   *)

\* A step that shows no place: the last event stays, or is of none.
LEMMA EventStays ==
    ASSUME IndexInv, UNCHANGED event \/ event'.count = 0, phase # "ready"
    PROVE  EventTrue'
<1>1. ~ (event.count > 0)
  BY DEF IndexInv, EventTrue
<1>2. ~ (0 > 0)
  OBVIOUS
<1> QED
  BY <1>1, <1>2 DEF EventTrue

\* Nothing to do.
LEMMA IdleIndex ==
    ASSUME OwnInv, IndexInv, NoCommand \/ NothingToDo
    PROVE  IndexInv'
<1>1. /\ UNCHANGED <<disk, phase, engine, pending, event>> /\ pc' \in {"step", "loop"}
      /\ WorkerTask /\ ~ Dequeue
  BY DEF NoCommand, NothingToDo, WorkerTask, Dequeue
<1>2. Around /\ StaysWithBook
  BY <1>1, WorkerAround, StepKeeps
<1>3. CardsTrue'
  BY <1>1 DEF IndexInv, CardsTrue
<1>4. UNCHANGED version /\ (Reachable' <=> Reachable) /\ UNCHANGED card
  BY <1>1, <1>2 DEF Around, Reachable, MediaValid
<1>5. BuildTrue' /\ ReplacementTrue' /\ EventTrue'
  BY <1>1, <1>4 DEF IndexInv, BuildTrue, BuildOf, ReplacementTrue, EventTrue, Starts, Active
<1> QED
  BY <1>2, <1>3, <1>5, BookStep

\* What is said to have failed is not looked at any more.
LEMMA FailureTrue ==
    ASSUME Fail, pc' \in {"step", "loop"}
    PROVE  BuildTrue' /\ ReplacementTrue' /\ EventTrue'
<1>1. phase' = "failed" /\ event'.count = 0
  BY DEF Fail, Emit
<1> QED
  BY <1>1 DEF BuildTrue, BuildOf, ReplacementTrue, EventTrue, Active

\* A step that fails leaves what is on the card as it was.
LEMMA FailIndex ==
    ASSUME OwnInv, IndexInv, StepFails \/ ReplaceFails
    PROVE  IndexInv'
<1>1. /\ UNCHANGED disk /\ Fail /\ pc' \in {"step", "loop"} /\ WorkerTask
  BY DEF StepFails, ReplaceFails, WorkerTask
<1>2. ~ Dequeue
  BY DEF StepFails, ReplaceFails, Dequeue
<1>3. Around /\ StaysWithBook
  BY <1>1, <1>2, WorkerAround, StepKeeps
<1>4. CardsTrue'
  BY <1>1 DEF IndexInv, CardsTrue
<1> QED
  BY <1>1, <1>3, <1>4, FailureTrue, BookStep

\* A build begins with the first page and an empty file.
LEMMA RebuildingTrue ==
    ASSUME NEW s, NEW size, Paged(s, size), NEW e, EngineShape(e), Opened(e, version),
           s = Starts(e.file), NEW n, n = Rebuilding(e), NEW d, CardShape(d),
           NEW x, x = [d EXCEPT !.temporary = EmptyIndex]
    PROVE  /\ EngineTrue(n, "scanning", s, version) /\ DirectoryTrue(x, n, "scanning", s)
           /\ n.session = e.session /\ n.generation = e.generation /\ n.file = e.file
<1>1. PICK r, q : r = e.resume /\ q = e.position
  OBVIOUS
<1>2. /\ n.file = e.file /\ n.session = e.session /\ n.generation = e.generation
      /\ n.checked = 0 /\ n.buffered = <<0>> /\ n.byPage = FALSE
      /\ n.resume = [r EXCEPT !.page = 0] /\ n.position = [q EXCEPT !.page = 0]
      /\ n.header = [count |-> 1, size |-> Size[e.file.content], crc |-> <<0>>,
                     version |-> version]
  BY <1>1 DEF Rebuilding, EngineShape
<1>3. /\ PlaceShape(r) /\ PlaceShape(q) /\ PlaceOf(e.file.content, version, r.offset)
      /\ PlaceOf(e.file.content, version, q.offset)
      /\ e.file.content \in Contents /\ e.file.modified \in Nat
  BY <1>1 DEF Opened
<1>4. /\ PlaceShape(n.resume) /\ n.resume.page = 0 /\ n.resume.offset = r.offset
      /\ PlaceShape(n.position) /\ n.position.page = 0 /\ n.position.offset = q.offset
  <2>1. \A p : PlaceShape(p) => LET z == [p EXCEPT !.page = 0]
                               IN PlaceShape(z) /\ z.page = 0 /\ z.offset = p.offset
    BY DEF PlaceShape
  <2> QED
    BY <1>2, <1>3, <2>1
<1>5. Opened(n, version)
  BY <1>2, <1>3, <1>4 DEF Opened
<1>6. /\ HeaderShape(n.header) /\ n.header.count = 1 /\ n.header.crc = <<0>>
  BY <1>2 DEF HeaderShape
<1>7. First(s, 1) = <<0>> /\ 1 \in 1 .. Len(s)
  BY FirstOne DEF Paged
<1>8. EngineTrue(n, "scanning", s, version)
  <2>1. s = Pages[version][n.file.content] /\ StartsOf(s, n.file.content, version)
    BY <1>2, <1>3, OwnStarts DEF Starts
  <2> QED
    BY <1>2, <1>5, <1>6, <1>7, <2>1 DEF EngineTrue
<1>9. x.temporary = EmptyIndex
  BY DEF CardShape
<1>10. <<>> \o <<0>> = <<0>> /\ <<0>> \in Seq(Nat) /\ <<>> \in Seq(Nat)
  OBVIOUS
<1>11. DirectoryTrue(x, n, "scanning", s)
  <2>1. PICK t : t = x.temporary
    OBVIOUS
  <2>2. t.offsets = <<>> /\ t = [header |-> t.header, offsets |-> t.offsets]
    BY <1>9, <2>1 DEF EmptyIndex
  <2>3. /\ t.offsets \in Seq(Nat) /\ n.buffered \in Seq(Nat)
        /\ t.offsets \o n.buffered = First(s, n.header.count)
    BY <1>2, <1>6, <1>7, <1>10, <2>2
  <2> QED
    BY <2>1, <2>2, <2>3 DEF DirectoryTrue
<1> QED
  BY <1>2, <1>8, <1>11

\* A cached index that is damaged is built anew.
LEMMA CacheDamagedIndex ==
    ASSUME OwnInv, IndexInv, CacheDamaged
    PROVE  IndexInv'
<1>1. /\ phase = "validating_cache" /\ phase' = "scanning" /\ Reachable
      /\ engine' = Rebuilding(engine) /\ pc' = "loop" /\ UNCHANGED event
      /\ disk' = [disk EXCEPT ![card].temporary = EmptyIndex] /\ WorkerTask /\ ~ Dequeue
  BY DEF CacheDamaged, WorkerTask, Dequeue
<1>2. Around /\ StaysWithBook
  BY <1>1, WorkerAround, StepKeeps
<1>3. card \in Cards /\ DiskShape /\ EngineShape(engine) /\ Active
  BY <1>1 DEF OwnInv, Reachable, MediaValid, Active
<1>4. PICK s : s = Starts(engine.file)
  OBVIOUS
<1>5. Paged(s, Size[engine.file.content]) /\ Opened(engine, version)
  BY <1>3, <1>4, BookOpen, TextsPaged DEF EngineTrue, Starts
<1>6. PICK d : d = disk[card]
  OBVIOUS
<1>7. CardShape(d) /\ disk'[card] = [d EXCEPT !.temporary = EmptyIndex]
  BY <1>1, <1>3, <1>6, DirectoryWritten
<1>8. /\ EngineTrue(engine', "scanning", s, version)
      /\ DirectoryTrue(disk'[card], engine', "scanning", s)
  BY <1>1, <1>3, <1>4, <1>5, <1>7, RebuildingTrue
<1>9. BuildTrue'
  BY <1>1, <1>2, <1>4, <1>8, BuildStep
<1>10. CardsTrue'
  BY <1>1, <1>2, <1>3, MetadataStay, CardsStay DEF Around
<1>11. ReplacementTrue' /\ EventTrue'
  BY <1>1, EventStays DEF ReplacementTrue
<1> QED
  BY <1>2, <1>9, <1>10, <1>11, BookStep

\* An element added to the second of two sequences is added to the whole.
LEMMA AppendConcat ==
    ASSUME NEW S, NEW left \in Seq(S), NEW right \in Seq(S), NEW x \in S
    PROVE  left \o Append(right, x) = Append(left \o right, x) /\ Append(right, x) \in Seq(S)
<1>1. Append(right, x) = right \o <<x>> /\ Append(right, x) \in Seq(S) /\ <<x>> \in Seq(S)
  BY AppendIsConcat, AppendProperties
<1>2. left \o right \in Seq(S)
  BY ConcatProperties
<1>3. Append(left \o right, x) = (left \o right) \o <<x>>
  BY <1>2, AppendIsConcat
<1>4. (left \o right) \o <<x>> = left \o (right \o <<x>>)
  BY <1>1, ConcatAssociative
<1> QED
  BY <1>1, <1>3, <1>4

\* One page more is in memory, or in the file if memory was full.
LEMMA ScanTrue ==
    ASSUME NEW s, NEW size, Paged(s, size), NEW e, EngineShape(e),
           EngineTrue(e, "scanning", s, version), e.header.count # Len(s),
           NEW d, CardShape(d), DirectoryTrue(d, e, "scanning", s),
           NEW next, next = s[e.header.count + 1], NEW full \in BOOLEAN,
           NEW n, n = [e EXCEPT !.header.count = @ + 1, !.header.crc = Append(@, next),
                                !.buffered = Append(IF full THEN <<>> ELSE @, next)],
           NEW x, x = IF full THEN [d EXCEPT !.temporary.offsets =
                                        d.temporary.offsets \o e.buffered]
                      ELSE d
    PROVE  EngineTrue(n, "scanning", s, version) /\ DirectoryTrue(x, n, "scanning", s)
<1>1. PICK h, b, t : h = e.header /\ b = e.buffered /\ t = d.temporary
  OBVIOUS
<1>2. /\ HeaderShape(h) /\ h.count \in 1 .. Len(s) - 1 /\ h.crc = First(s, h.count)
      /\ t = [header |-> t.header, offsets |-> t.offsets]
      /\ t.offsets \in Seq(Nat) /\ b \in Seq(Nat) /\ t.offsets \o b = First(s, h.count)
  <2>1. PICK m \in Nat : m = Len(s)
    BY DEF Paged
  <2>2. h.count \in 1 .. m /\ h.count # m /\ HeaderShape(h) /\ h.crc = First(s, h.count)
    BY <1>1, <2>1 DEF EngineTrue
  <2>3. h.count \in 1 .. m - 1
    BY <2>2
  <2>4. /\ t = [header |-> t.header, offsets |-> t.offsets]
        /\ t.offsets \in Seq(Nat) /\ b \in Seq(Nat) /\ t.offsets \o b = First(s, h.count)
    BY <1>1 DEF DirectoryTrue
  <2> QED
    BY <2>1, <2>2, <2>3, <2>4
<1>3. next \in Nat
  <2>1. h.count + 1 \in 1 .. Len(s)
    BY <1>2 DEF Paged
  <2> QED
    BY <1>1, <2>1 DEF Paged
<1>4. PICK g : g = [h EXCEPT !.count = @ + 1, !.crc = Append(@, next)]
  OBVIOUS
<1>5. PICK c : c = Append(IF full THEN <<>> ELSE b, next)
  OBVIOUS
<1>6. n = [e EXCEPT !.header = g, !.buffered = c]
  BY <1>1, <1>4, <1>5 DEF EngineShape
<1>7. /\ n.header = g /\ n.buffered = c /\ n.file = e.file /\ n.resume = e.resume
      /\ n.position = e.position /\ n.checked = e.checked /\ n.byPage = e.byPage
  BY <1>6 DEF EngineShape
<1>8. HeaderShape(g) /\ g.count = h.count + 1 /\ g.crc = Append(h.crc, next)
  BY <1>2, <1>4 DEF HeaderShape
<1>9. g.count \in 1 .. Len(s) /\ g.crc = First(s, g.count)
  <2>1. g.count \in 1 .. Len(s)
    <3>1. PICK m \in Nat : m = Len(s)
      BY DEF Paged
    <3>2. PICK k \in 1 .. m - 1 : k = h.count
      BY <1>2, <3>1
    <3>3. g.count = k + 1
      BY <1>8, <3>2
    <3> QED
      BY <3>1, <3>2, <3>3
  <2>2. First(s, h.count + 1) = Append(First(s, h.count), s[h.count + 1])
    BY <1>2, FirstGrows
  <2> QED
    BY <1>1, <1>2, <1>8, <2>1, <2>2
<1>10. EngineTrue(n, "scanning", s, version)
  BY <1>7, <1>8, <1>9 DEF EngineTrue, Opened
<1>11. PICK u : u = x.temporary
  OBVIOUS
<1>12. /\ u = [header |-> u.header, offsets |-> u.offsets]
       /\ u.offsets = IF full THEN t.offsets \o b ELSE t.offsets
  <2>1. CASE full
    <3>1. u = [t EXCEPT !.offsets = t.offsets \o b]
      BY <1>1, <1>11, <2>1 DEF CardShape
    <3> QED
      BY <1>2, <2>1, <3>1
  <2>2. CASE ~ full
    BY <1>1, <1>2, <1>11, <2>2
  <2> QED
    BY <2>1, <2>2
<1>13. u.offsets \in Seq(Nat) /\ c \in Seq(Nat) /\ u.offsets \o c = First(s, g.count)
  <2>1. PICK o, f : o = t.offsets /\ f = First(s, h.count)
    OBVIOUS
  <2>2. o \in Seq(Nat) /\ b \in Seq(Nat) /\ o \o b = f /\ First(s, g.count) = Append(f, next)
    BY <1>2, <1>8, <1>9, <2>1
  <2>3. CASE full
    <3>1. o \o b \in Seq(Nat) /\ c = <<next>> /\ u.offsets = f
      <4>1. o \o b \in Seq(Nat)
        BY <2>2, ConcatProperties
      <4>2. c = Append(<<>>, next)
        BY <1>5, <2>3
      <4>3. Append(<<>>, next) = <<next>>
        OBVIOUS
      <4>4. u.offsets = f
        BY <1>12, <2>1, <2>2, <2>3
      <4> QED
        BY <4>1, <4>2, <4>3, <4>4
    <3>2. f \in Seq(Nat) /\ f \o <<next>> = Append(f, next)
      BY <1>3, <2>2, <3>1
    <3> QED
      BY <1>3, <2>2, <3>1, <3>2
  <2>4. CASE ~ full
    <3>1. u.offsets = o /\ c = Append(b, next)
      BY <1>5, <1>12, <2>1, <2>4
    <3>2. o \o Append(b, next) = Append(o \o b, next) /\ Append(b, next) \in Seq(Nat)
      BY <1>3, <2>2, AppendConcat
    <3> QED
      BY <2>2, <3>1, <3>2
  <2> QED
    BY <2>3, <2>4
<1>14. DirectoryTrue(x, n, "scanning", s)
  BY <1>7, <1>11, <1>12, <1>13 DEF DirectoryTrue
<1> QED
  BY <1>10, <1>14

\* The scan has found the start of one page more.
LEMMA ScanPageIndex ==
    ASSUME OwnInv, IndexInv, ScanPage
    PROVE  IndexInv'
<1>1. PICK s, e, d : s = Starts(engine.file) /\ e = engine /\ d = disk[card]
  OBVIOUS
<1>2. PICK full \in BOOLEAN : full = (Len(e.buffered) = BufferedOffsets)
  <2>1. (Len(e.buffered) = BufferedOffsets) \in BOOLEAN
    OBVIOUS
  <2> QED
    BY <2>1
<1>3. PICK next : next = s[e.header.count + 1]
  OBVIOUS
<1>4. /\ phase = "scanning" /\ UNCHANGED <<phase, event>> /\ Reachable /\ pc' = "loop"
      /\ e.header.count # Len(s) /\ WorkerTask /\ ~ Dequeue
      /\ engine' = [e EXCEPT !.header.count = @ + 1, !.header.crc = Append(@, next),
                             !.buffered = Append(IF full THEN <<>> ELSE @, next)]
      /\ disk' = IF full THEN [disk EXCEPT ![card].temporary.offsets =
                                   d.temporary.offsets \o e.buffered]
                 ELSE disk
  BY <1>1, <1>2, <1>3 DEF ScanPage, AtLastPage, Flushed, WorkerTask, Dequeue
<1>5. Around /\ StaysWithBook
  BY <1>4, WorkerAround, StepKeeps
<1>6. card \in Cards /\ DiskShape /\ EngineShape(e) /\ Active
  BY <1>1, <1>4 DEF OwnInv, Reachable, MediaValid, Active
<1>7. /\ Paged(s, Size[engine.file.content]) /\ EngineTrue(e, "scanning", s, version)
      /\ DirectoryTrue(d, e, "scanning", s)
  BY <1>1, <1>4, <1>6, BookOpen
<1>8. PICK x, n : x = disk'[card] /\ n = engine'
  OBVIOUS
<1>9. PICK f : f = d.temporary.offsets \o e.buffered
  OBVIOUS
<1>10. CardShape(d) /\ x = IF full THEN [d EXCEPT !.temporary.offsets = f] ELSE d
  BY <1>1, <1>4, <1>6, <1>8, <1>9, DirectoryWritten
<1>11. EngineTrue(n, "scanning", s, version) /\ DirectoryTrue(x, n, "scanning", s)
  <2>1. n = [e EXCEPT !.header.count = @ + 1, !.header.crc = Append(@, next),
                      !.buffered = Append(IF full THEN <<>> ELSE @, next)]
    BY <1>4, <1>8
  <2> QED
    BY <1>3, <1>4, <1>6, <1>7, <1>9, <1>10, <2>1, ScanTrue
<1>12. BuildTrue'
  BY <1>1, <1>4, <1>5, <1>8, <1>11, BuildStep
<1>13. CardsTrue'
  BY <1>4, <1>5, <1>6, MetadataStay, CardsStay DEF Around
<1>14. ReplacementTrue' /\ EventTrue'
  BY <1>4, EventStays DEF ReplacementTrue
<1> QED
  BY <1>5, <1>12, <1>13, <1>14, BookStep

\* The scan has come to the end of the text: all its starts are there.
LEMMA ScanEndIndex ==
    ASSUME OwnInv, IndexInv, ScanEnd
    PROVE  IndexInv'
<1>1. PICK s, e, d : s = Starts(engine.file) /\ e = engine /\ d = disk[card]
  OBVIOUS
<1>2. PICK f : f = d.temporary.offsets \o e.buffered
  OBVIOUS
<1>3. PICK t : t = [header |-> e.header, offsets |-> f]
  OBVIOUS
<1>4. /\ phase = "scanning" /\ phase' = "validating_new" /\ UNCHANGED event /\ Reachable
      /\ pc' = "loop" /\ e.header.count = Len(s) /\ WorkerTask /\ ~ Dequeue
      /\ engine' = [e EXCEPT !.buffered = <<>>]
      /\ disk' = [disk EXCEPT ![card].temporary = t]
  BY <1>1, <1>2, <1>3 DEF ScanEnd, AtLastPage, Flushed, WorkerTask, Dequeue
<1>5. Around /\ StaysWithBook
  BY <1>4, WorkerAround, StepKeeps
<1>6. card \in Cards /\ DiskShape /\ EngineShape(e) /\ Active
  BY <1>1, <1>4 DEF OwnInv, Reachable, MediaValid, Active
<1>7. /\ Paged(s, Size[engine.file.content]) /\ EngineTrue(e, "scanning", s, version)
      /\ DirectoryTrue(d, e, "scanning", s)
  BY <1>1, <1>4, <1>6, BookOpen
<1>8. PICK x, n : x = disk'[card] /\ n = engine'
  OBVIOUS
<1>9. CardShape(d) /\ x = [d EXCEPT !.temporary = t]
  <2>1. disk' = [disk EXCEPT ![card].temporary = t]
    BY <1>4
  <2> QED
    BY <1>1, <1>6, <1>8, <2>1, DirectoryWritten
<1>10. f = s
  BY <1>2, <1>4, <1>7, FirstAll DEF DirectoryTrue
<1>11. /\ n.file = e.file /\ n.resume = e.resume /\ n.position = e.position
       /\ n.checked = e.checked /\ n.byPage = e.byPage /\ n.header = e.header
  BY <1>4, <1>6, <1>8 DEF EngineShape
<1>12. EngineTrue(n, "validating_new", s, version)
  BY <1>4, <1>7, <1>11 DEF EngineTrue, Opened
<1>13. DirectoryTrue(x, n, "validating_new", s)
  <2>1. x.temporary.offsets = s
    BY <1>3, <1>9, <1>10 DEF CardShape
  <2>2. n.checked = 0 /\ ~ (0 > 0)
    BY <1>7, <1>11 DEF EngineTrue
  <2> QED
    BY <2>1, <2>2 DEF DirectoryTrue
<1>14. BuildTrue'
  BY <1>1, <1>4, <1>5, <1>8, <1>12, <1>13, BuildStep
<1>15. CardsTrue'
  BY <1>4, <1>5, <1>6, MetadataStay, CardsStay DEF Around
<1>16. ReplacementTrue' /\ EventTrue'
  BY <1>4, EventStays DEF ReplacementTrue
<1> QED
  BY <1>5, <1>14, <1>15, <1>16, BookStep

\* A new index of which a block has been validated is there.
LEMMA ValidatedThere ==
    ASSUME phase = "validating_new", BlockValid, engine.checked \in Nat, NEW s,
           DirectoryTrue(disk[card], engine, phase, s)
    PROVE  disk[card].temporary # None
<1>1. CASE engine.checked = 0
  BY <1>1 DEF BlockValid, DecodesFor, Validated
<1>2. CASE engine.checked > 0
  BY <1>2 DEF DirectoryTrue
<1> QED
  BY <1>1, <1>2

\* A block of the index is checked.
LEMMA BlockIndex ==
    ASSUME OwnInv, IndexInv, ValidateBlock \/ NewIndexValid
    PROVE  IndexInv'
<1>1. PICK s, e, n : s = Book /\ e = engine /\ n = engine'
  OBVIOUS
<1>2. /\ phase \in {"validating_cache", "validating_new"} /\ UNCHANGED <<disk, phase, event>>
      /\ Reachable /\ BlockValid /\ n = [e EXCEPT !.checked = BlockEnd]
      /\ pc' = "loop" \/ (pc' = "remove_index" /\ phase = "validating_new")
      /\ WorkerTask /\ ~ Dequeue
  BY <1>1 DEF ValidateBlock, NewIndexValid, Valid, WorkerTask, Dequeue
<1>3. Around /\ StaysWithBook
  BY <1>2, WorkerAround, StepKeeps
<1>4. EngineShape(e) /\ Active
  BY <1>1, <1>2 DEF OwnInv, Active
<1>5. EngineTrue(e, phase, s, version) /\ DirectoryTrue(disk[card], e, phase, s)
  BY <1>1, <1>2, <1>4, BookOpen
<1>6. /\ n.file = e.file /\ n.resume = e.resume /\ n.position = e.position
      /\ n.checked = BlockEnd /\ n.byPage = e.byPage /\ n.header = e.header
      /\ n.buffered = e.buffered
  BY <1>2, <1>4 DEF EngineShape
<1>7. BlockEnd \in Nat
  <2>1. e.checked \in Nat /\ e.header.count \in Nat /\ BlockOffsets \in Nat
    BY <1>5, BoundsAssumption DEF EngineTrue
  <2> QED
    BY <1>1, <2>1 DEF BlockEnd, Minimum
<1>8. phase = "validating_new" => disk[card].temporary # None
  BY <1>1, <1>2, <1>5, ValidatedThere DEF EngineTrue
<1>9. EngineTrue(n, phase, s, version)
  BY <1>2, <1>5, <1>6, <1>7 DEF EngineTrue, Opened
<1>10. DirectoryTrue(disk[card], n, phase, s)
  BY <1>2, <1>5, <1>6, <1>8 DEF DirectoryTrue
<1>11. BuildTrue'
  BY <1>1, <1>2, <1>3, <1>9, <1>10, BuildStep
<1>12. CardsTrue'
  BY <1>2 DEF IndexInv, CardsTrue
<1>13. ReplacementTrue' /\ EventTrue'
  <2>1. UNCHANGED card
    BY <1>3 DEF Around
  <2> QED
    BY <1>2, <1>8, <2>1, EventStays DEF ReplacementTrue
<1> QED
  BY <1>3, <1>11, <1>12, <1>13, BookStep

-----------------------------------------------------------------------------
(* A ready index, and the replacement of the files.                        *)

\* The engine after Ready, whose offsets are the starts of the text.
ReadyEngine(e, s, size, write) ==
    [e EXCEPT !.checked = e.header.count, !.dirty = write,
              !.resume = Located(s, size, @, e.byPage),
              !.position = Located(s, size, @, FALSE)]

\* Each place stays, if the fingerprint tells the text from all others, and goes back to
\* the start of its page at most.
PlacesSettle(e, n, s) ==
    /\ Told(e.file.content) =>
          n.resume.offset = e.resume.offset /\ n.position.offset = e.position.offset
    /\ PageBegins(s, n.resume.offset, e.resume.offset)
    /\ PageBegins(s, n.position.offset, e.position.offset)

\* An engine that has all the starts is ready: its place is on the page that it says.
LEMMA ReadyTrue ==
    ASSUME version \in Versions, NEW s, NEW e, NEW size, size = Size[e.file.content],
           EngineShape(e), NEW p,
           EngineTrue(e, p, s, version), p \notin {"ready", "scanning"}, NEW write,
           NEW n, n = ReadyEngine(e, s, size, write)
    PROVE  /\ EngineTrue(n, "ready", s, version) /\ n.file = e.file
           /\ PlacesSettle(e, n, s)
<1>1. PICK r, q, r2, q2 :
         /\ r = e.resume /\ q = e.position
         /\ r2 = Located(s, size, r, e.byPage) /\ q2 = Located(s, size, q, FALSE)
  OBVIOUS
<1>2. /\ n.resume = r2 /\ n.position = q2 /\ n.file = e.file /\ n.header = e.header
      /\ n.checked = e.header.count
  BY <1>1 DEF EngineShape, ReadyEngine
<1>3. /\ r.page \in Nat /\ q.page \in Nat
      /\ PlaceOf(e.file.content, version, r.offset)
      /\ PlaceOf(e.file.content, version, q.offset)
      /\ e.byPage => s[r.page + 1] = r.offset
      /\ e.file.content \in Contents /\ e.file.modified \in Nat
      /\ StartsOf(s, e.file.content, version)
      /\ e.header.count \in 1 .. Len(s) /\ e.header.crc = First(s, e.header.count)
      /\ e.header.count = Len(s)
  BY <1>1 DEF EngineTrue, Opened
<1>4. /\ Paged(s, size)
      /\ r.offset \in Nat /\ (r.offset = 0 \/ r.offset < size)
      /\ q.offset \in Nat /\ (q.offset = 0 \/ q.offset < size)
  BY <1>3, StartsPaged DEF PlaceOf
<1>5. OnPage(s, r2) /\ PlaceShape(r2) /\ OnPage(s, q2) /\ PlaceShape(q2)
  BY <1>1, <1>3, <1>4, LocatedOnPage
<1>6. PlacesSettle(e, n, s)
  <2>1. PageBegins(s, r2.offset, r.offset)
    BY <1>1, <1>3, <1>4, LocatedBegins
  <2>2. PICK preferPage : preferPage = FALSE
    OBVIOUS
  <2>3. PageBegins(s, Located(s, size, q, preferPage).offset, q.offset)
    BY <1>3, <1>4, <2>2, LocatedBegins
  <2>4. PageBegins(s, q2.offset, q.offset)
    BY <1>1, <2>2, <2>3
  <2>5. ASSUME NEW old, NEW new, PageBegins(s, new, old), Told(e.file.content),
               PlaceOf(e.file.content, version, old), IsStart(s, new)
        PROVE  new = old
    <3>1. s = Pages[version][e.file.content]
      BY <1>3, <2>5, AlikeFacts DEF StartsOf
    <3>2. PICK i \in 1 .. Len(s) : s[i] = old
      BY <2>5, <3>1 DEF PlaceOf, IsStart
    <3>3. old \in Nat /\ new \in Nat
      BY <1>4, <2>5, <3>1, StartsInText DEF PlaceOf
    <3>4. s[i] <= old
      BY <3>2, <3>3
    <3>5. old <= new /\ new <= old
      BY <2>5, <3>2, <3>4 DEF PageBegins
    <3> QED
      BY <3>3, <3>5
  <2>6. IsStart(s, r2.offset) /\ IsStart(s, q2.offset)
    <3>1. \A at : OnPage(s, at) => IsStart(s, at.offset)
      <4>1. SUFFICES ASSUME NEW at, OnPage(s, at) PROVE IsStart(s, at.offset)
        OBVIOUS
      <4>2. at.page + 1 \in 1 .. Len(s) /\ s[at.page + 1] = at.offset
        BY <4>1, <1>4 DEF OnPage, Paged
      <4> QED
        BY <4>2 DEF IsStart
    <3> QED
      BY <1>5, <3>1
  <2>7. Told(e.file.content) => r2.offset = r.offset /\ q2.offset = q.offset
    BY <1>3, <2>1, <2>4, <2>5, <2>6
  <2> QED
    BY <1>1, <1>2, <2>1, <2>4, <2>7 DEF PlacesSettle
<1>7. /\ r2.page \in Nat /\ PlaceOf(e.file.content, version, r2.offset)
      /\ q2.page \in Nat /\ PlaceOf(e.file.content, version, q2.offset)
  BY <1>3, <1>5, PagesArePlaces
<1>8. Opened(n, version)
  BY <1>2, <1>3, <1>5, <1>7 DEF Opened
<1>9. e.header.count \in Nat
  BY <1>3
<1>10. EngineTrue(n, "ready", s, version)
  BY <1>2, <1>3, <1>5, <1>8, <1>9 DEF EngineTrue
<1> QED
  BY <1>1, <1>2, <1>6, <1>10

\* What write_metadata writes is true of the text of the engine.
LEMMA RecordIsTrue ==
    ASSUME version \in Versions, NEW e, NEW s, NEW p, EngineTrue(e, p, s, version)
    PROVE  /\ RecordTrue(Record(e, p))
           /\ Record(e, p).content = e.file.content /\ Record(e, p).modified = e.file.modified
<1>1. PICK m : m = Record(e, p)
  OBVIOUS
<1>2. /\ m.content = e.file.content /\ m.modified = e.file.modified /\ m.version = version
      /\ m.complete = (p = "ready") /\ m.offset = e.position.offset
      /\ p = "ready" => /\ m.count = e.header.count /\ m.crc = e.header.crc
                        /\ m.page = e.position.page
      /\ p # "ready" => m.page = 0
  BY <1>1 DEF Record
<1>3. /\ e.file.content \in Contents /\ e.file.modified \in Nat /\ e.position.page \in Nat
      /\ PlaceOf(e.file.content, version, e.position.offset)
      /\ StartsOf(s, e.file.content, version)
      /\ p = "ready" => OnPage(s, e.position)
  BY DEF EngineTrue, Opened
<1>4. p = "ready" => e.header.crc = s /\ e.header.count = Len(s)
  BY <1>3, StartsPaged, FullHeader
<1>5. m.page \in Nat
  BY <1>2, <1>3
<1>6. m.complete => /\ StartsOf(m.crc, m.content, m.version) /\ m.count = Len(m.crc)
                    /\ m.crc[m.page + 1] = m.offset
  BY <1>2, <1>3, <1>4 DEF OnPage
<1>7. RecordTrue(m)
  BY <1>2, <1>3, <1>4, <1>5, <1>6 DEF RecordTrue
<1> QED
  BY <1>1, <1>2, <1>7

\* A ready or position event names a page by number and by start.
LEMMA EventOfReady ==
    ASSUME NEW s, NEW size, Paged(s, size), NEW v,
           phase' = "ready", EngineTrue(engine', "ready", s, v), NEW type, NEW progress,
           Emit(type, progress), OnPage(s, progress)
    PROVE  EventTrue'
<1>1. event'.count = engine'.header.count /\ event'.progress = progress
  BY DEF Emit
<1>2. engine'.header.count = Len(s) /\ engine'.header.crc = s
  <2>1. "ready" # "scanning"
    OBVIOUS
  <2> QED
    BY <2>1, FullHeader
<1> QED
  BY <1>1, <1>2 DEF EventTrue

\* Finishing an index keeps both places.
PlacesSettled == PlacesSettle(engine, engine', engine'.header.crc)

\* The index is ready: in the cache that was found or in the file that was renamed.
LEMMA ReadyIndex ==
    ASSUME OwnInv, IndexInv, Around, StaysWithBook, CardsTrue', NEW write, Ready(write),
           phase \in {"validating_cache", "validating_new"}, Reachable,
           NEW s, s = Book, Validated.offsets = s,
           disk'[card].index # None, disk'[card].index.offsets = s
    PROVE  /\ IndexInv'
           /\ PlacesSettled
<1>1. PICK e, n, size, w : e = engine /\ n = engine' /\ size = Size[engine.file.content]
                           /\ w = write
  OBVIOUS
<1>2. n = ReadyEngine(e, s, size, w) /\ phase' = "ready"
  BY <1>1 DEF Ready, ReadyEngine
<1>3. EngineShape(e) /\ Active
  BY <1>1 DEF OwnInv, Active
<1>4. Paged(s, size) /\ EngineTrue(e, phase, s, version) /\ version \in Versions
  BY <1>1, <1>3, BookOpen
<1>5. /\ EngineTrue(n, "ready", s, version) /\ n.file = e.file
      /\ PlacesSettle(e, n, s)
  BY <1>1, <1>2, <1>3, <1>4, ReadyTrue
<1>6. PlacesSettled
  <2>1. "ready" # "scanning"
    OBVIOUS
  <2>2. n.header.crc = s
    BY <1>4, <1>5, <2>1, FullHeader
  <2> QED
    BY <1>1, <1>5, <2>2 DEF PlacesSettled
<1>7. BuildTrue'
  <2>1. DirectoryTrue(disk'[card], n, "ready", s)
    BY DEF DirectoryTrue
  <2> QED
    BY <1>1, <1>2, <1>5, <2>1, BuildStep
<1>8. CASE write
  <2>1. /\ pending' = [record |-> Record(n, "ready"), then |-> "ready"]
        /\ pc' = "remove_metadata" /\ UNCHANGED event
    BY <1>1, <1>8 DEF Ready
  <2>2. PICK m : m = Record(n, "ready")
    OBVIOUS
  <2>3. RecordTrue(m) /\ m.content = n.file.content /\ m.modified = n.file.modified
    BY <1>4, <1>5, <2>2, RecordIsTrue
  <2>4. pending'.record = m
    BY <2>1, <2>2
  <2>5. ReplacementTrue'
    BY <1>1, <1>2, <2>1, <2>3, <2>4 DEF ReplacementTrue, RecordTrue
  <2>6. EventTrue'
    BY <2>1, EventStays
  <2> QED
    BY <1>7, <1>6, <2>5, <2>6, BookStep
<1>9. CASE ~ write
  <2>1. pc' = "loop" /\ Emit("ready", engine'.resume)
    BY <1>9 DEF Ready
  <2>2. PICK progress : progress = engine'.resume
    OBVIOUS
  <2>3. OnPage(s, progress)
    BY <1>1, <1>5, <2>2 DEF EngineTrue
  <2>4. EventTrue'
    <3>1. EngineTrue(engine', "ready", s, version) /\ phase' = "ready" /\ Emit("ready", progress)
      BY <1>1, <1>2, <1>5, <2>1, <2>2
    <3> QED
      BY <1>4, <2>3, <3>1, EventOfReady
  <2>5. ReplacementTrue'
    BY <2>1 DEF ReplacementTrue
  <2> QED
    BY <1>7, <1>6, <2>4, <2>5, BookStep
<1> QED
  BY <1>8, <1>9

\* A cached index that was checked to its end has the starts of the book.
LEMMA CacheValidIndex ==
    ASSUME OwnInv, IndexInv, CacheValid
    PROVE  IndexInv' /\ PlacesSettled
<1>1. PICK s, write : s = Book /\ write = engine.dirty
  OBVIOUS
<1>2. /\ phase = "validating_cache" /\ Reachable /\ Valid /\ Ready(write)
      /\ UNCHANGED disk /\ WorkerTask /\ ~ Dequeue
  BY <1>1 DEF CacheValid, WorkerTask, Dequeue
<1>3. Around /\ StaysWithBook
  BY <1>2, WorkerAround, StepKeeps
<1>4. Active
  BY <1>2 DEF Active
<1>5. /\ Paged(s, Size[engine.file.content]) /\ EngineTrue(engine, "validating_cache", s, version)
      /\ DirectoryTrue(disk[card], engine, "validating_cache", s)
  BY <1>1, <1>2, <1>4, BookOpen
<1>6. Validated = disk[card].index /\ disk[card].index # None
  BY <1>2, <1>5 DEF Validated, DirectoryTrue
<1>7. disk[card].index.offsets = s
  <2>1. engine.header.crc = s
    BY <1>5, FirstAll DEF EngineTrue
  <2> QED
    BY <1>2, <1>6, <2>1 DEF Valid, BlockValid
<1>8. CardsTrue'
  BY <1>2 DEF IndexInv, CardsTrue
<1> QED
  BY <1>1, <1>2, <1>3, <1>6, <1>7, <1>8, ReadyIndex

\* The new index gets its name: it is whole and has been checked.
LEMMA RenameIndexIndex ==
    ASSUME OwnInv, IndexInv, RenameIndex
    PROVE  IndexInv' /\ PlacesSettled
<1>1. PICK s, d, t : s = Book /\ d = disk[card] /\ t = d.temporary
  OBVIOUS
<1>2. /\ pc = "rename_index" /\ Ready(TRUE) /\ WorkerTask /\ ~ Dequeue
      /\ disk' = [disk EXCEPT ![card].index = t, ![card].temporary = None]
  BY <1>1 DEF RenameIndex, WorkerTask, Dequeue
<1>3. Around /\ StaysWithBook
  BY <1>2, WorkerAround, StepKeeps
<1>4. /\ Reachable /\ card \in Cards /\ DiskShape /\ phase = "validating_new" /\ t # None
  BY <1>1, <1>2 DEF OwnInv, IndexInv, ReplacementTrue, Reachable, MediaValid
<1>5. Active
  BY <1>4 DEF Active
<1>6. t.offsets = s
  BY <1>1, <1>4, <1>5, BookOpen DEF DirectoryTrue
<1>7. Validated.offsets = s
  BY <1>1, <1>4, <1>6 DEF Validated
<1>8. CardShape(d) /\ disk'[card] = [d EXCEPT !.index = t, !.temporary = None]
  <2>1. PICK none : none = None
    OBVIOUS
  <2>2. disk' = [disk EXCEPT ![card].index = t, ![card].temporary = none]
    BY <1>2, <2>1
  <2>3. DiskShape /\ card \in Cards /\ d = disk[card]
    BY <1>1, <1>4
  <2>4. CardShape(d) /\ disk'[card] = [d EXCEPT !.index = t, !.temporary = none]
    BY <2>2, <2>3, DirectoryWritten
  <2> QED
    BY <2>1, <2>4
<1>9. disk'[card].index = t
  BY <1>8 DEF CardShape
<1>10. CardsTrue'
  BY <1>2, <1>3, <1>4, MetadataStay, CardsStay DEF Around
<1> QED
  BY <1>1, <1>2, <1>3, <1>4, <1>6, <1>7, <1>9, <1>10, ReadyIndex

\* The old index is removed while the new one is whole beside it.
LEMMA RemoveIndexIndex ==
    ASSUME OwnInv, IndexInv, RemoveIndex
    PROVE  IndexInv'
<1>1. PICK s, d, x : s = Book /\ d = disk[card] /\ x = disk'[card]
  OBVIOUS
<1>2. /\ pc = "remove_index" /\ pc' = "rename_index" /\ Reachable
      /\ disk' = [disk EXCEPT ![card].index = None]
      /\ UNCHANGED <<phase, engine, event>> /\ WorkerTask /\ ~ Dequeue
  BY DEF RemoveIndex, WorkerTask, Dequeue
<1>3. Around /\ StaysWithBook
  BY <1>2, WorkerAround, StepKeeps
<1>4. card \in Cards /\ DiskShape /\ phase = "validating_new" /\ d.temporary # None
  BY <1>1, <1>2 DEF OwnInv, IndexInv, ReplacementTrue, Reachable, MediaValid
<1>5. Active
  BY <1>4 DEF Active
<1>6. EngineTrue(engine, phase, s, version) /\ DirectoryTrue(d, engine, phase, s)
  BY <1>1, <1>2, <1>5, BookOpen
<1>7. x.temporary = d.temporary
  <2>1. CardShape(d) /\ x = [d EXCEPT !.index = None]
    BY <1>1, <1>2, <1>4, DirectoryWritten
  <2> QED
    BY <2>1 DEF CardShape
<1>8. BuildTrue'
  <2>1. DirectoryTrue(x, engine, phase, s)
    BY <1>4, <1>6, <1>7 DEF DirectoryTrue
  <2> QED
    BY <1>1, <1>2, <1>3, <1>6, <2>1, BuildStep
<1>9. CardsTrue'
  BY <1>2, <1>3, <1>4, MetadataStay, CardsStay DEF Around
<1>10. ReplacementTrue' /\ EventTrue'
  <2>1. UNCHANGED card
    BY <1>3 DEF Around
  <2> QED
    BY <1>1, <1>2, <1>4, <1>7, <2>1, EventStays DEF ReplacementTrue
<1> QED
  BY <1>3, <1>8, <1>9, <1>10, BookStep

\* The old metadata are removed before the new ones get their name.
LEMMA RemoveMetadataIndex ==
    ASSUME OwnInv, IndexInv, RemoveMetadata
    PROVE  IndexInv'
<1>1. PICK s, d, x : s = Book /\ d = disk[card] /\ x = disk'[card]
  OBVIOUS
<1>2. /\ pc = "remove_metadata" /\ pc' = "rename_metadata" /\ Reachable
      /\ disk' = [disk EXCEPT ![card].metadata = None]
      /\ UNCHANGED <<phase, engine, pending, event>> /\ WorkerTask /\ ~ Dequeue
  BY DEF RemoveMetadata, WorkerTask, Dequeue
<1>3. Around /\ StaysWithBook
  BY <1>2, WorkerAround, StepKeeps
<1>4. card \in Cards /\ DiskShape /\ Active
  BY <1>2 DEF OwnInv, Replacing, Reachable, MediaValid
<1>5. EngineTrue(engine, phase, s, version) /\ DirectoryTrue(d, engine, phase, s)
  BY <1>1, <1>2, <1>4, BookOpen
<1>6. x.temporary = d.temporary /\ x.index = d.index /\ x.metadata = None
  <2>1. CardShape(d) /\ x = [d EXCEPT !.metadata = None]
    BY <1>1, <1>2, <1>4, DirectoryWritten
  <2> QED
    BY <2>1 DEF CardShape
<1>7. BuildTrue'
  <2>1. DirectoryTrue(x, engine, phase, s)
    BY <1>5, <1>6 DEF DirectoryTrue
  <2> QED
    BY <1>1, <1>2, <1>3, <1>5, <2>1, BuildStep
<1>8. CardsTrue'
  <2>1. \A c \in Cards : disk'[c].metadata = disk[c].metadata \/ disk'[c].metadata = None
    BY <1>1, <1>2, <1>4, <1>6 DEF DiskShape
  <2> QED
    BY <1>3, <2>1, CardsStay DEF Around
<1>9. ReplacementTrue'
  BY <1>2 DEF IndexInv, ReplacementTrue, RecordTrue
<1>10. EventTrue'
  BY <1>2, <1>3 DEF IndexInv, EventTrue, Around, Starts
<1> QED
  BY <1>3, <1>7, <1>8, <1>9, <1>10, BookStep

\* The metadata are replaced by what is true of the text of the card.
LEMMA RenameMetadataIndex ==
    ASSUME OwnInv, IndexInv, RenameMetadata
    PROVE  IndexInv'
<1>1. PICK s, d, x, m, e, n :
         /\ s = Book /\ d = disk[card] /\ x = disk'[card]
         /\ m = pending.record /\ e = engine /\ n = engine'
  OBVIOUS
<1>2. /\ pc = "rename_metadata" /\ pc' \in {"loop", "step"} /\ UNCHANGED phase
      /\ disk' = [disk EXCEPT ![card].metadata = m]
      /\ \/ pending.then = "ready" /\ n = [e EXCEPT !.dirty = FALSE]
            /\ Emit("ready", e.resume)
         \/ n = e /\ Emit("saved", e.position)
      /\ WorkerTask /\ ~ Dequeue
  BY <1>1 DEF RenameMetadata, WorkerTask, Dequeue
<1>3. Around /\ StaysWithBook
  BY <1>2, WorkerAround, StepKeeps
<1>4. /\ Reachable /\ card \in Cards /\ DiskShape /\ Active /\ EngineShape(e)
      /\ e.file = d.text
  BY <1>1, <1>2 DEF OwnInv, Replacing, Reachable, MediaValid
<1>5. EngineTrue(e, phase, s, version) /\ DirectoryTrue(d, e, phase, s)
  BY <1>1, <1>4, BookOpen
<1>6. /\ RecordTrue(m) /\ m.content = e.file.content /\ m.modified = e.file.modified
      /\ pending.then = "ready" => phase = "ready"
  BY <1>1, <1>2 DEF IndexInv, ReplacementTrue
<1>7. CardShape(d) /\ x = [d EXCEPT !.metadata = m]
  <2>1. disk' = [disk EXCEPT ![card].metadata = m]
    BY <1>2
  <2>2. DiskShape /\ card \in Cards /\ d = disk[card] /\ x = disk'[card]
    BY <1>1, <1>4
  <2>3. CardShape(d) /\ disk'[card] = [d EXCEPT !.metadata = m]
    BY <2>1, <2>2, DirectoryWritten
  <2> QED
    BY <2>2, <2>3
<1>8. x.temporary = d.temporary /\ x.index = d.index /\ x.metadata = m /\ x.text = d.text
  BY <1>7 DEF CardShape
<1>9. /\ n.file = e.file /\ n.resume = e.resume /\ n.position = e.position
      /\ n.checked = e.checked /\ n.byPage = e.byPage /\ n.header = e.header
      /\ n.buffered = e.buffered
  BY <1>2, <1>4 DEF EngineShape
<1>10. EngineTrue(n, phase, s, version) /\ DirectoryTrue(x, n, phase, s)
  BY <1>5, <1>8, <1>9 DEF EngineTrue, Opened, DirectoryTrue
<1>11. BuildTrue'
  BY <1>1, <1>2, <1>3, <1>10, BuildStep
<1>12. CardsTrue'
  <2>1. Dated(m, d.text)
    BY <1>4, <1>6 DEF Dated, RecordTrue
  <2>2. ASSUME NEW c \in Cards, c # card PROVE disk'[c] = disk[c]
    BY <1>2, <1>4, <2>2 DEF DiskShape
  <2> QED
    BY <1>1, <1>6, <1>8, <2>1, <2>2 DEF IndexInv, CardsTrue
<1>13. ReplacementTrue'
  BY <1>2 DEF ReplacementTrue
<1>14. EventTrue'
  <2>1. CASE phase = "ready"
    <3>1. PICK type, progress : /\ Emit(type, progress)
                                /\ progress \in {e.resume, e.position}
      BY <1>2
    <3>2. OnPage(s, progress) /\ EngineTrue(engine', "ready", s, version)
      BY <1>1, <1>5, <1>10, <2>1, <3>1 DEF EngineTrue
    <3>3. Paged(s, Size[engine.file.content]) /\ phase' = "ready"
      BY <1>1, <1>2, <1>4, <2>1, BookOpen
    <3> QED
      BY <3>1, <3>2, <3>3, EventOfReady
  <2>2. CASE phase # "ready"
    <3>1. event'.count = 0
      BY <1>2, <2>2 DEF Emit
    <3> QED
      BY <2>2, <3>1, EventStays
  <2> QED
    BY <2>1, <2>2
<1> QED
  BY <1>3, <1>11, <1>12, <1>13, <1>14, BookStep

-----------------------------------------------------------------------------
(* The commands.                                                           *)

\* The command a turn of the worker takes: what it asks for, and of whom.
LEMMA CommandTaken ==
    ASSUME OwnInv, IndexInv, Dequeue, NEW command, command = Head(commands)
    PROVE  /\ AsksTrue(command) /\ <<command.session, command.generation>> \in Known
           /\ command.session = engine.session => command.generation = engine.generation
<1>1. PICK q : q = commands
  OBVIOUS
<1>2. Listed(q) /\ q # <<>>
  BY <1>1 DEF IndexInv, CommandsTrue, Listed, Dequeue
<1>3. Head(q) = q[1] /\ 1 \in 1 .. Len(q) /\ DOMAIN q = 1 .. Len(q)
  <2>1. PICK S : q \in Seq(S)
    BY <1>2, ListedIs
  <2> QED
    BY <1>2, <2>1
<1>4. AsksTrue(q[1])
  BY <1>1, <1>3 DEF IndexInv, CommandsTrue
<1>5. command = commands[1] /\ 1 \in DOMAIN commands
  BY <1>1, <1>3
<1>6. <<command.session, command.generation>> \in Known
  BY <1>5 DEF Known
<1>7. command.session = engine.session => command.generation = engine.generation
  BY <1>5, KnownGenerations DEF IndexInv
<1> QED
  BY <1>1, <1>4, <1>5, <1>6, <1>7

\* Where an open book starts from: metadata of the same size and time are of the
\* same text, and those of the same fingerprint of one that is taken for it.
LEMMA ResumeTrue ==
    ASSUME version \in Versions, NEW file, file.content \in Contents,
           NEW m, m # None => RecordTrue(m) /\ Dated(m, file), NEW r, r = Resume(m, file)
    PROVE  /\ PlaceShape(r) /\ r.page \in Nat /\ PlaceOf(file.content, version, r.offset)
           /\ \A index : Reuses(m, index, file) =>
                 /\ StartsOf(m.crc, file.content, version)
                 /\ m.crc[r.page + 1] = r.offset
                 /\ index.header.count = Len(m.crc) /\ index.header.crc = m.crc
<1>1. PICK c : c = file.content
  OBVIOUS
<1>2. CASE SameContent(m, file) /\ m.version = version
  <2>1. m # None /\ RecordTrue(m)
    BY <1>2 DEF SameContent, SameStat
  <2>2. m.content \in Contents /\ Alike(m.content, c)
    <3>1. m.content \in Contents
      BY <2>1 DEF RecordTrue
    <3>2. CASE SameStat(m, file)
      BY <1>1, <2>1, <3>2, AlikeFacts DEF SameStat, Dated
    <3> QED
      BY <1>1, <1>2, <3>1, <3>2 DEF SameContent
  <2>3. r = [page |-> m.page, offset |-> m.offset]
    BY <1>2 DEF Resume
  <2>4. PlaceShape(r) /\ r.page = m.page /\ r.offset = m.offset
    BY <2>3 DEF PlaceShape
  <2>5. r.page \in Nat /\ PlaceOf(m.content, version, r.offset)
    BY <1>2, <2>1, <2>4 DEF RecordTrue
  <2>6. PlaceOf(c, version, r.offset)
    BY <1>1, <2>2, <2>5, PlacesOfAlike
  <2>7. m.complete => /\ StartsOf(m.crc, m.content, version) /\ m.count = Len(m.crc)
                      /\ m.crc[r.page + 1] = r.offset
    BY <1>2, <2>1, <2>4 DEF RecordTrue
  <2>8. m.complete => StartsOf(m.crc, c, version)
    BY <1>1, <2>2, <2>7, AlikeFacts DEF StartsOf
  <2> QED
    BY <1>1, <2>4, <2>5, <2>6, <2>7, <2>8 DEF Reuses
<1>3. CASE ~ (SameContent(m, file) /\ m.version = version)
  <2>1. r = [page |-> 0, offset |-> 0]
    BY <1>3 DEF Resume, Start
  <2>2. PlaceShape(r) /\ r.page = 0 /\ r.offset = 0
    BY <2>1 DEF PlaceShape
  <2>3. PICK s : s = Pages[version][c]
    OBVIOUS
  <2>4. StartsOf(s, c, version) /\ IsStart(s, 0)
    BY <1>1, <2>3, OwnStarts, TextsPaged DEF IsStart, Paged
  <2>5. PlaceOf(c, version, 0)
    BY <1>1, <2>4, StartsArePlaces
  <2> QED
    BY <1>1, <1>3, <2>2, <2>5 DEF Reuses
<1> QED
  BY <1>2, <1>3

\* An index found on the card, of the count and CRC the metadata hold.
LEMMA CacheOpened ==
    ASSUME NEW s, NEW size, Paged(s, size), NEW e, EngineShape(e), Opened(e, version),
           e.checked = 0, StartsOf(s, e.file.content, version),
           NEW h, h.count = Len(s), h.crc = s,
           s[e.resume.page + 1] = e.resume.offset, NEW dirty,
           NEW n, n = [e EXCEPT !.header = h, !.byPage = TRUE, !.dirty = dirty],
           NEW d, d.index # None
    PROVE  /\ EngineTrue(n, "validating_cache", s, version)
           /\ DirectoryTrue(d, n, "validating_cache", s)
<1>1. /\ n.file = e.file /\ n.resume = e.resume /\ n.position = e.position
      /\ n.checked = 0 /\ n.header = h
  BY DEF EngineShape
<1>2. Opened(n, version)
  BY <1>1 DEF Opened
<1>3. h.count \in 1 .. Len(s) /\ h.crc = First(s, h.count)
  BY FirstAll DEF Paged
<1> QED
  BY <1>1, <1>2, <1>3 DEF EngineTrue, DirectoryTrue

\* A book opens with the text of the card in the slot.
LEMMA OpenTrue ==
    ASSUME OwnInv, IndexInv, UNCHANGED <<card, version>>, NEW command, OpenBook(command),
           card \in Cards
    PROVE  /\ BuildTrue' /\ CardsTrue' /\ event'.count = 0
           /\ engine'.session = command.session /\ engine'.generation = command.generation
<1>1. PICK o, d, file : o = Opening(command) /\ d = disk[card] /\ file = disk[card].text
  OBVIOUS
<1>2. /\ EngineShape(o) /\ o.session = command.session /\ o.generation = command.generation
      /\ o.checked = 0
  BY <1>1 DEF Opening, NoEngine, EngineShape
<1>3. /\ file.content \in Contents /\ file.modified \in Nat /\ version \in Versions
      /\ d.metadata # None => RecordTrue(d.metadata) /\ Dated(d.metadata, file)
  BY <1>1 DEF IndexInv, CardsTrue
<1>4. PICK m \in {d.metadata, None}, index \in {d.index, None} :
        LET resume == Resume(m, file)
            e == [o EXCEPT !.file = file, !.resume = resume, !.position = resume]
        IN \/ engine' = o /\ UNCHANGED disk /\ Fail
           \/ /\ Reuses(m, index, file)
              /\ engine' = [e EXCEPT !.header = index.header, !.byPage = TRUE,
                                     !.dirty = ~ SameStat(m, file)]
              /\ phase' = "validating_cache" /\ UNCHANGED disk /\ Emit("opened", resume)
           \/ /\ engine' = Rebuilding(e)
              /\ phase' = "scanning" /\ Emit("opened", engine'.resume)
              /\ disk' = [disk EXCEPT ![card].temporary = EmptyIndex]
  BY <1>1 DEF OpenBook
<1>5. PICK resume : resume = Resume(m, file)
  OBVIOUS
<1>6. PICK e : e = [o EXCEPT !.file = file, !.resume = resume, !.position = resume]
  OBVIOUS
<1>7. PICK s : s = Starts(file)
  OBVIOUS
<1>8. /\ EngineShape(e) /\ e.session = command.session /\ e.generation = command.generation
      /\ e.checked = 0 /\ e.file = file /\ e.resume = resume /\ e.position = resume
  BY <1>2, <1>6 DEF EngineShape
<1>9. m # None => RecordTrue(m) /\ Dated(m, file)
  BY <1>3
<1>10. /\ PlaceShape(resume) /\ resume.page \in Nat
       /\ PlaceOf(file.content, version, resume.offset)
       /\ Reuses(m, index, file) =>
             /\ StartsOf(m.crc, file.content, version) /\ m.crc[resume.page + 1] = resume.offset
             /\ index.header.count = Len(m.crc) /\ index.header.crc = m.crc
  BY <1>3, <1>5, <1>9, ResumeTrue
<1>11. Opened(e, version)
  BY <1>3, <1>8, <1>10 DEF Opened
<1>12. Paged(s, Size[file.content])
  BY <1>3, <1>7, TextsPaged DEF Starts
<1>14. DiskShape
  BY DEF OwnInv
<1>15. CASE engine' = o /\ UNCHANGED disk /\ Fail
  <2>1. CardsTrue'
    BY <1>15 DEF IndexInv, CardsTrue
  <2> QED
    BY <1>2, <1>15, <2>1 DEF Fail, Emit, BuildTrue, BuildOf, Active
<1>16. CASE /\ Reuses(m, index, file)
            /\ engine' = [e EXCEPT !.header = index.header, !.byPage = TRUE,
                                   !.dirty = ~ SameStat(m, file)]
            /\ phase' = "validating_cache" /\ UNCHANGED disk /\ Emit("opened", resume)
  <2>1. PICK n, h, dirty : n = engine' /\ h = index.header /\ dirty = ~ SameStat(m, file)
    OBVIOUS
  <2>2. n = [e EXCEPT !.header = h, !.byPage = TRUE, !.dirty = dirty]
    BY <1>16, <2>1
  <2>3. PICK c : c = m.crc
    OBVIOUS
  <2>4. /\ EngineTrue(n, "validating_cache", c, version)
        /\ DirectoryTrue(d, n, "validating_cache", c)
    <3>1. /\ h.count = Len(c) /\ h.crc = c /\ c[e.resume.page + 1] = e.resume.offset
          /\ d.index # None /\ StartsOf(c, e.file.content, version)
      BY <1>8, <1>10, <1>16, <2>1, <2>3 DEF Reuses, DecodesFor
    <3>2. Paged(c, Size[file.content])
      BY <1>3, <1>8, <3>1, StartsPaged
    <3> QED
      BY <1>8, <1>11, <2>2, <3>1, <3>2, CacheOpened
  <2>5. /\ n.file = file /\ n.session = command.session
        /\ n.generation = command.generation
    BY <1>8, <2>2 DEF EngineShape
  <2>6. disk'[card'] = d
    BY <1>1, <1>16
  <2>7. BuildTrue'
    BY <1>16, <2>1, <2>4, <2>6 DEF BuildTrue, BuildOf
  <2>8. CardsTrue'
    BY <1>16 DEF IndexInv, CardsTrue
  <2>9. event'.count = 0
    BY <1>16 DEF Emit
  <2> QED
    BY <2>1, <2>5, <2>7, <2>8, <2>9
<1>17. CASE /\ engine' = Rebuilding(e)
            /\ phase' = "scanning" /\ Emit("opened", engine'.resume)
            /\ disk' = [disk EXCEPT ![card].temporary = EmptyIndex]
  <2>1. PICK n, x : n = engine' /\ x = disk'[card]
    OBVIOUS
  <2>2. disk' = [disk EXCEPT ![card].temporary = EmptyIndex]
    BY <1>17
  <2>3. CardShape(d) /\ disk'[card] = [d EXCEPT !.temporary = EmptyIndex]
    BY <1>1, <1>14, <2>2, DirectoryWritten
  <2>4. n = Rebuilding(e) /\ x = [d EXCEPT !.temporary = EmptyIndex]
    BY <1>17, <2>1, <2>3
  <2>5. /\ EngineTrue(n, "scanning", s, version) /\ DirectoryTrue(x, n, "scanning", s)
        /\ n.session = e.session /\ n.generation = e.generation /\ n.file = e.file
    BY <1>7, <1>8, <1>11, <1>12, <2>3, <2>4, RebuildingTrue
  <2>6. disk'[card'] = x
    BY <2>1
  <2>7. BuildTrue'
    BY <1>17, <2>1, <2>5, <2>6 DEF BuildTrue, BuildOf
  <2>8. CardsTrue'
    <3>1. /\ \A c \in Cards : disk'[c].text = disk[c].text
          /\ \A c \in Cards : disk'[c].metadata = disk[c].metadata
      BY <1>14, <2>2, WriteFacts, MetadataStay
    <3> QED
      BY <3>1, CardsStay
  <2>9. event'.count = 0
    BY <1>17 DEF Emit
  <2> QED
    BY <1>8, <2>1, <2>5, <2>7, <2>8, <2>9
<1> QED
  BY <1>4, <1>5, <1>6, <1>15, <1>16, <1>17

\* The place asked for, or the page it lies on.
LEMMA PlaceAsked ==
    ASSUME version \in Versions, NEW c \in Contents, NEW s, StartsOf(s, c, version),
           NEW page \in Nat, NEW offset, PlaceOf(c, version, offset), NEW preferPage,
           NEW ready, NEW a, a = [page |-> page, offset |-> offset],
           NEW z, z = IF ready THEN Located(s, Size[c], a, preferPage) ELSE a
    PROVE  /\ PlaceShape(z) /\ z.page \in Nat /\ PlaceOf(c, version, z.offset)
           /\ ready => OnPage(s, z)
<1>1. CASE ready
  <2>1. PICK size : size = Size[c]
    OBVIOUS
  <2>2. Paged(s, size) /\ z = Located(s, size, a, preferPage)
    BY <1>1, <2>1, StartsPaged
  <2>3. a.page \in Nat /\ a.offset \in Nat
    BY DEF PlaceOf
  <2>4. OnPage(s, z) /\ PlaceShape(z)
    BY <2>2, <2>3, LocatedOnPage
  <2> QED
    BY <2>4, PagesArePlaces
<1>2. CASE ~ ready
  BY <1>2 DEF PlaceShape
<1> QED
  BY <1>1, <1>2

\* The engine n differs from e in its place, and in what is to be saved.
TakesPlace(n, e, z) ==
    /\ n.file = e.file /\ n.resume = e.resume /\ n.position = z
    /\ n.checked = e.checked /\ n.byPage = e.byPage /\ n.header = e.header
    /\ n.buffered = e.buffered

\* A place that was found by the index may be taken by the engine and written to the
\* card.
LEMMA PositionTrue ==
    ASSUME NEW s, NEW e, NEW p, EngineTrue(e, p, s, version), NEW d, DirectoryTrue(d, e, p, s),
           NEW z, PlaceShape(z), z.page \in Nat, PlaceOf(e.file.content, version, z.offset),
           p = "ready" => OnPage(s, z), NEW n, TakesPlace(n, e, z)
    PROVE  EngineTrue(n, p, s, version) /\ DirectoryTrue(d, n, p, s)
<1>1. EngineTrue(n, p, s, version)
  BY DEF TakesPlace, EngineTrue, Opened
<1>2. DirectoryTrue(d, n, p, s)
  BY DEF TakesPlace, DirectoryTrue
<1> QED
  BY <1>1, <1>2

\* A session that asks of an open book asks of the text the engine has read.
LEMMA AskedOfBook ==
    ASSUME OwnInv, IndexInv, Active, NEW command, AsksTrue(command),
           MediaValid(command.generation), command.type # "open",
           command.generation = engine.generation
    PROVE  /\ Reachable /\ PlaceOf(engine.file.content, version, command.offset)
           /\ command.type = "query" => command.page \in Nat
<1>1. Reachable
  BY DEF Reachable
<1>2. engine.file = disk[card].text
  BY <1>1 DEF OwnInv
<1> QED
  BY <1>1, <1>2 DEF AsksTrue

\* What is left to show of a command that asks for a place of an open book.
LEMMA PlaceTaken ==
    ASSUME OwnInv, IndexInv, Around, StaysWithBook, Active, Reachable, NEW page \in Nat,
           NEW offset, PlaceOf(engine.file.content, version, offset), NEW preferPage,
           UNCHANGED <<disk, phase>>, NEW z,
           z = IF phase = "ready" THEN Locate([page |-> page, offset |-> offset], preferPage)
               ELSE [page |-> page, offset |-> offset],
           TakesPlace(engine', engine, z)
    PROVE  /\ BuildTrue' /\ CardsTrue'
           /\ EngineTrue(engine', phase, Book, version)
           /\ phase = "ready" => OnPage(Book, z)
<1>1. PICK s, e, n, d, size : /\ s = Book /\ e = engine /\ n = engine'
                              /\ d = disk[card] /\ size = Size[engine.file.content]
  OBVIOUS
<1>2. Paged(s, size) /\ EngineTrue(e, phase, s, version) /\ DirectoryTrue(d, e, phase, s)
  BY <1>1, BookOpen
<1>3. PICK a : a = [page |-> page, offset |-> offset]
  OBVIOUS
<1>4. phase = "ready" => Locate(a, preferPage) = Located(s, size, a, preferPage)
  BY <1>1, <1>2 DEF Locate, DirectoryTrue
<1>5. PICK ready : ready = (phase = "ready")
  OBVIOUS
<1>6. z = IF ready THEN Located(s, size, a, preferPage) ELSE a
  BY <1>3, <1>4, <1>5
<1>7. PICK k : k = z
  OBVIOUS
<1>8. k = IF ready THEN Located(s, size, a, preferPage) ELSE a
  BY <1>6, <1>7
<1>9. PICK c : c = engine.file.content
  OBVIOUS
<1>10. /\ PlaceShape(k) /\ k.page \in Nat /\ PlaceOf(c, version, k.offset)
       /\ ready => OnPage(s, k)
  <2>1. /\ c \in Contents /\ StartsOf(s, c, version) /\ version \in Versions
        /\ PlaceOf(c, version, offset) /\ size = Size[c]
    BY <1>1, <1>2, <1>9, BookOpen DEF EngineTrue
  <2> QED
    BY <1>3, <1>8, <2>1, PlaceAsked
<1>11. TakesPlace(n, e, k)
  BY <1>1, <1>7
<1>12. EngineTrue(n, phase, s, version) /\ DirectoryTrue(d, n, phase, s)
  <2>1. PICK p : p = phase
    OBVIOUS
  <2>2. /\ EngineTrue(e, p, s, version) /\ DirectoryTrue(d, e, p, s) /\ TakesPlace(n, e, k)
        /\ PlaceShape(k) /\ k.page \in Nat /\ PlaceOf(e.file.content, version, k.offset)
        /\ p = "ready" => OnPage(s, k)
    BY <1>1, <1>2, <1>5, <1>9, <1>10, <1>11, <2>1
  <2>3. EngineTrue(n, p, s, version) /\ DirectoryTrue(d, n, p, s)
    BY <2>2, PositionTrue
  <2> QED
    BY <2>1, <2>3
<1>13. BuildTrue'
  BY <1>1, <1>12, BuildStep
<1>14. CardsTrue'
  BY DEF IndexInv, CardsTrue
<1> QED
  BY <1>1, <1>5, <1>7, <1>10, <1>12, <1>13, <1>14

\* A query is answered by the place of the page it asks for.
LEMMA AnswerIndex ==
    ASSUME OwnInv, IndexInv, Around, StaysWithBook, NEW command, AsksTrue(command),
           MediaValid(command.generation), command.type = "query",
           command.session = engine.session => command.generation = engine.generation,
           Answer(command), pc' = "step"
    PROVE  IndexInv'
<1>1. ReplacementTrue'
  BY DEF ReplacementTrue
<1>2. UNCHANGED disk /\ CardsTrue'
  BY DEF Answer, IndexInv, CardsTrue
<1>3. UNCHANGED <<card, version>>
  BY DEF Around
<1>4. CASE UNCHANGED <<disk, phase, engine, pending, event>>
  <2>1. UNCHANGED card /\ (Reachable' <=> Reachable)
    BY <1>4 DEF Around, Reachable, MediaValid
  <2>2. BuildTrue' /\ EventTrue'
    BY <1>3, <1>4, <2>1 DEF IndexInv, BuildTrue, BuildOf, EventTrue, Starts, Active
  <2> QED
    BY <1>1, <1>2, <2>2, BookStep
<1>5. CASE Fail
  BY <1>2, <1>5, FailureTrue, BookStep
<1>6. CASE /\ command.session = engine.session /\ UNCHANGED phase
           /\ engine' = [engine EXCEPT !.position =
                  IF phase = "ready"
                  THEN Locate([page |-> command.page, offset |-> command.offset], command.byPage)
                  ELSE [page |-> command.page, offset |-> command.offset]]
           /\ Emit("position", engine'.position)
  <2>1. CASE ~ Active
    <3>1. phase # "ready" /\ event'.count = 0
      BY <1>6, <2>1 DEF Active, Emit
    <3>2. BuildTrue'
      BY <1>6, <2>1 DEF BuildTrue, BuildOf, Active
    <3>3. EventTrue'
      BY <3>1, EventStays
    <3> QED
      BY <1>1, <1>2, <3>2, <3>3, BookStep
  <2>2. CASE Active
    <3>1. PICK page, offset, preferPage :
             page = command.page /\ offset = command.offset /\ preferPage = command.byPage
      OBVIOUS
    <3>2. PICK z : z = IF phase = "ready"
                       THEN Locate([page |-> page, offset |-> offset], preferPage)
                       ELSE [page |-> page, offset |-> offset]
      OBVIOUS
    <3>3. Reachable /\ PlaceOf(engine.file.content, version, offset) /\ page \in Nat
      <4>1. command.generation = engine.generation
        BY <1>6
      <4> QED
        BY <2>2, <3>1, <4>1, AskedOfBook
    <3>4. engine' = [engine EXCEPT !.position = z]
      BY <1>6, <3>1, <3>2
    <3>5. TakesPlace(engine', engine, z)
      <4>1. EngineShape(engine)
        BY DEF OwnInv
      <4> QED
        BY <3>4, <4>1 DEF EngineShape, TakesPlace
    <3>6. UNCHANGED <<disk, phase>>
      BY <1>2, <1>6
    <3>7. /\ BuildTrue' /\ EngineTrue(engine', phase, Book, version)
          /\ phase = "ready" => OnPage(Book, z)
      <4>1. Reachable /\ PlaceOf(engine.file.content, version, offset) /\ page \in Nat /\ Active
        BY <2>2, <3>3
      <4> QED
        BY <3>2, <3>5, <3>6, <4>1, PlaceTaken
    <3>8. EventTrue'
      <4>1. CASE phase = "ready"
        <5>1. PICK size : size = Size[engine.file.content]
          OBVIOUS
        <5>2. PICK s : s = Book /\ Paged(s, size)
          BY <2>2, <5>1, BookOpen
        <5>3. EngineTrue(engine', "ready", s, version) /\ OnPage(s, z) /\ phase' = "ready"
          BY <1>6, <3>7, <4>1, <5>2
        <5>4. Emit("position", z)
          BY <1>6, <3>5 DEF TakesPlace
        <5> QED
          BY <5>2, <5>3, <5>4, EventOfReady
      <4>2. CASE phase # "ready"
        <5>1. event'.count = 0
          BY <1>6, <4>2 DEF Emit
        <5> QED
          BY <4>2, <5>1, EventStays
      <4> QED
        BY <4>1, <4>2
    <3> QED
      BY <1>1, <1>2, <3>7, <3>8, BookStep
  <2> QED
    BY <2>1, <2>2
<1> QED
  BY <1>4, <1>5, <1>6 DEF Answer

\* The place of a session that was closed is saved if it is the book's.
LEMMA SaveIndex ==
    ASSUME OwnInv, IndexInv, Around, StaysWithBook, NEW command, AsksTrue(command),
           MediaValid(command.generation), command.type = "close",
           command.session = engine.session => command.generation = engine.generation,
           Save(command)
    PROVE  IndexInv'
<1>1. UNCHANGED disk /\ CardsTrue' /\ UNCHANGED <<card, version>>
  BY DEF Save, IndexInv, CardsTrue, Around
<1>2. CASE pc' = "step" /\ UNCHANGED <<disk, phase, engine, pending, event>>
  <2>1. Reachable' <=> Reachable
    BY <1>2 DEF Around, Reachable, MediaValid
  <2>2. BuildTrue' /\ EventTrue' /\ ReplacementTrue'
    BY <1>1, <1>2, <2>1
    DEF IndexInv, BuildTrue, BuildOf, EventTrue, ReplacementTrue, Starts, Active
  <2> QED
    BY <1>1, <2>2, BookStep
<1>3. CASE pc' = "step" /\ Fail
  BY <1>1, <1>3, FailureTrue, BookStep
<1>4. CASE /\ Savable(command)
           /\ engine' = [engine EXCEPT !.dirty = TRUE,
                  !.position = IF phase = "ready"
                               THEN Locate([page |-> 0, offset |-> command.offset], FALSE)
                               ELSE [page |-> 0, offset |-> command.offset]]
           /\ pending' = [record |-> Record(engine', phase), then |-> "saved"]
           /\ pc' = "remove_metadata"
           /\ UNCHANGED <<disk, phase, event>>
  <2>1. Active /\ command.generation = engine.generation
    BY <1>4 DEF Savable, Active
  <2>2. PICK page, offset, preferPage :
           page = 0 /\ offset = command.offset /\ preferPage = FALSE
    OBVIOUS
  <2>3. PICK z : z = IF phase = "ready"
                     THEN Locate([page |-> page, offset |-> offset], preferPage)
                     ELSE [page |-> page, offset |-> offset]
    OBVIOUS
  <2>4. Reachable /\ PlaceOf(engine.file.content, version, offset) /\ page \in Nat
    BY <2>1, <2>2, AskedOfBook
  <2>5. TakesPlace(engine', engine, z) /\ UNCHANGED <<disk, phase>>
    <3>1. EngineShape(engine) /\ engine' = [engine EXCEPT !.dirty = TRUE, !.position = z]
      BY <1>4, <2>2, <2>3 DEF OwnInv
    <3> QED
      BY <1>4, <3>1 DEF EngineShape, TakesPlace
  <2>6. BuildTrue' /\ EngineTrue(engine', phase, Book, version)
    BY <2>1, <2>3, <2>4, <2>5, PlaceTaken
  <2>7. PICK n, s, p, m : /\ n = engine' /\ s = Book /\ p = phase
                          /\ m = Record(engine', phase)
    OBVIOUS
  <2>8. n.file = engine.file
    BY <2>7 DEF StaysWithBook
  <2>9. version \in Versions
    BY <2>1, BookOpen
  <2>10. EngineTrue(n, p, s, version)
    BY <2>6, <2>7
  <2>11. RecordTrue(Record(n, p)) /\ Record(n, p).content = n.file.content
         /\ Record(n, p).modified = n.file.modified
    BY <2>9, <2>10, RecordIsTrue
  <2>12. RecordTrue(m) /\ m.content = n.file.content /\ m.modified = n.file.modified
    BY <2>7, <2>11
  <2>13. pending'.record = m /\ pending'.then = "saved" /\ pc' = "remove_metadata"
    BY <1>4, <2>7
  <2>14. ReplacementTrue'
    BY <2>7, <2>12, <2>13 DEF ReplacementTrue, RecordTrue
  <2>15. EventTrue'
    BY <1>4, <2>5 DEF IndexInv, EventTrue, TakesPlace
  <2> QED
    BY <1>1, <2>6, <2>14, <2>15, BookStep
<1> QED
  BY <1>2, <1>3, <1>4 DEF Save

\* The worker takes a command: of its session, of a new one, or of one that is gone.
LEMMA DequeueIndex ==
    ASSUME OwnInv, IndexInv, Dequeue
    PROVE  IndexInv'
<1>1. PICK command : command = Head(commands)
  OBVIOUS
<1>2. Around /\ UNCHANGED <<card, generation, version>>
  BY WorkerAround DEF WorkerTask, Around
<1>3. /\ AsksTrue(command) /\ <<command.session, command.generation>> \in Known
      /\ command.session = engine.session => command.generation = engine.generation
  BY <1>1, CommandTaken
<1>4. EngineShape(engine) /\ DiskShape
  BY DEF OwnInv
<1>5. CASE pc' = "step" /\ UNCHANGED <<disk, phase, engine, pending, event>>
  <2>1. StaysWithBook
    BY <1>2, <1>4, <1>5 DEF StaysWithBook, DiskShape
  <2>2. Reachable' <=> Reachable
    BY <1>2, <1>5 DEF Reachable, MediaValid
  <2>3. CardsTrue' /\ BuildTrue' /\ EventTrue' /\ ReplacementTrue'
    BY <1>2, <1>5, <2>2
    DEF IndexInv, CardsTrue, BuildTrue, BuildOf, EventTrue, ReplacementTrue, Starts, Active
  <2> QED
    BY <1>2, <2>1, <2>3, BookStep
<1>6. CASE MediaValid(command.generation) /\ OpenBook(command) /\ pc' = "step"
  <2>1. card \in Cards
    BY <1>6 DEF OwnInv, MediaValid
  <2>2. /\ BuildTrue' /\ CardsTrue' /\ event'.count = 0
        /\ <<engine'.session, engine'.generation>> \in Known
    BY <1>2, <1>3, <1>6, <2>1, OpenTrue
  <2>3. ReplacementTrue' /\ EventTrue'
    BY <1>6, <2>2 DEF ReplacementTrue, EventTrue
  <2> QED
    BY <1>2, <2>2, <2>3, SessionsStay, CommandsStay DEF IndexInv
<1>7. CASE /\ MediaValid(command.generation) /\ command.type = "query"
           /\ Answer(command) /\ pc' = "step"
  <2>1. UNCHANGED disk
    BY <1>7 DEF Answer
  <2>2. /\ EngineShape(engine') /\ engine'.file = engine.file
        /\ engine'.generation = engine.generation /\ engine'.session = engine.session
    BY <1>4, <1>7 DEF Answer, EngineShape
  <2>3. StaysWithBook
    BY <1>2, <1>4, <2>1, <2>2 DEF StaysWithBook, DiskShape
  <2> QED
    BY <1>2, <1>3, <1>7, <2>3, AnswerIndex
<1>8. CASE /\ MediaValid(command.generation) /\ command.type = "close" /\ Save(command)
  <2>1. UNCHANGED disk
    BY <1>8 DEF Save
  <2>2. /\ EngineShape(engine') /\ engine'.file = engine.file
        /\ engine'.generation = engine.generation /\ engine'.session = engine.session
    BY <1>4, <1>8 DEF Save, EngineShape
  <2>3. StaysWithBook
    BY <1>2, <1>4, <2>1, <2>2 DEF StaysWithBook, DiskShape
  <2> QED
    BY <1>2, <1>3, <1>8, <2>3, SaveIndex
<1> QED
  BY <1>1, <1>5, <1>6, <1>7, <1>8 DEF Dequeue

-----------------------------------------------------------------------------
(* The invariant, and what it says of the properties.                      *)

\* A card comes empty, or with the index and the position of an earlier firmware.
LEMMA FirstCardTrue ==
    ASSUME NEW firmware, NEW d \in FirstCards(firmware)
    PROVE  /\ d.text.content \in Contents /\ d.text.modified \in Nat
           /\ d.metadata # None => RecordTrue(d.metadata) /\ Dated(d.metadata, d.text)
<1>1. CASE \E c \in Contents : d = EmptyCard(c)
  BY <1>1 DEF EmptyCard
<1>2. CASE \E v \in Versions, c \in Contents : \E i \in DOMAIN Pages[v][c] :
            d = IndexedCard(c, v, i)
  <2>1. PICK v \in Versions, c \in Contents : \E i \in DOMAIN Pages[v][c] :
            d = IndexedCard(c, v, i)
    BY <1>2
  <2>2. PICK s : s = Pages[v][c]
    OBVIOUS
  <2>3. PICK i \in DOMAIN s : d = IndexedCard(c, v, i)
    BY <2>1, <2>2
  <2>4. Paged(s, Size[c])
    BY <2>2, TextsPaged
  <2>5. DOMAIN s = 1 .. Len(s) /\ Len(s) \in Nat
    BY <2>4 DEF Paged
  <2>6. i \in 1 .. Len(s) /\ (i - 1) + 1 = i /\ i - 1 \in Nat
    BY <2>3, <2>5
  <2>7. PICK m : m = d.metadata
    OBVIOUS
  <2>8. /\ m.content = c /\ m.modified = 0 /\ m.version = v /\ m.count = Len(s)
        /\ m.crc = s /\ m.page = i - 1 /\ m.offset = s[i]
        /\ d.text.content = c /\ d.text.modified = 0
    BY <2>2, <2>3, <2>7 DEF IndexedCard
  <2>9. RecordTrue(m)
    <3>1. StartsOf(s, c, v) /\ IsStart(s, m.offset)
      BY <2>1, <2>2, <2>6, <2>8, OwnStarts DEF IsStart
    <3>2. PlaceOf(c, v, m.offset)
      BY <2>1, <3>1, StartsArePlaces
    <3> QED
      BY <2>1, <2>6, <2>8, <3>1, <3>2 DEF RecordTrue
  <2>10. Dated(m, d.text)
    BY <2>8 DEF Dated
  <2> QED
    BY <2>7, <2>8, <2>9, <2>10
<1>3. \/ \E c \in Contents : d = EmptyCard(c)
      \/ \E v \in Versions, c \in Contents : \E i \in DOMAIN Pages[v][c] :
            d = IndexedCard(c, v, i)
  <2>1. CASE d \in {EmptyCard(c) : c \in Contents}
    BY <2>1
  <2>2. CASE d \in UNION {IndexedCards(v) : v \in {w \in Versions : w <= firmware}}
    <3>1. PICK v \in Versions : d \in IndexedCards(v)
      BY <2>2
    <3> QED
      BY <3>1 DEF IndexedCards
  <2> QED
    BY <2>1, <2>2 DEF FirstCards
<1> QED
  BY <1>1, <1>2, <1>3

\* At the start no book is open and nothing is on the cards.
LEMMA IndexInit == Init => IndexInv
<1> SUFFICES ASSUME Init PROVE IndexInv
  OBVIOUS
<1>1. CardsTrue
  <2>1. \A c \in Cards : disk[c] \in FirstCards(version)
    BY DEF Init
  <2> QED
    BY <2>1, FirstCardTrue DEF CardsTrue
<1>2. BuildTrue /\ ReplacementTrue
  BY DEF Init, BuildTrue, BuildOf, ReplacementTrue, Active
<1>3. EventTrue
  <2>1. event.count = 0
    BY DEF Init, NoEvent
  <2> QED
    BY <2>1 DEF EventTrue
<1>4. SessionsTrue
  <2>1. /\ ReaderShape /\ reader.session = 0 /\ ~ reader.open
        /\ engine.session = 0 /\ engine.generation = 0 /\ generation = 0
    BY DEF Init, NoReader, NoEngine, ReaderShape
  <2>2. Known = {<<0, 0>>}
    BY <2>1 DEF Known, Init
  <2> QED
    BY <2>1, <2>2 DEF SessionsTrue
<1>5. CommandsTrue
  BY DEF Init, CommandsTrue, NoReader
<1> QED
  BY <1>1, <1>2, <1>3, <1>4, <1>5 DEF IndexInv, Init

\* The invariant is inductive.
LEMMA IndexStep == OwnInv /\ IndexInv /\ [Next]_vars => IndexInv'
<1> SUFFICES ASSUME OwnInv, IndexInv, [Next]_vars PROVE IndexInv'
  OBVIOUS
<1>1. CASE UNCHANGED vars
  <2>1. UNCHANGED <<disk, card, generation, version, commands, reader, pc, phase, engine,
                    pending, event>>
    BY <1>1 DEF vars
  <2>2. CardsTrue' /\ BuildTrue' /\ ReplacementTrue' /\ EventTrue'
    BY <2>1 DEF IndexInv, CardsTrue, BuildTrue, BuildOf, ReplacementTrue, EventTrue, Starts, Active,
                Reachable, MediaValid
  <2>3. SessionsTrue'
    BY <2>1 DEF IndexInv, SessionsTrue, ReaderShape, Known
  <2>4. CommandsTrue'
    BY <2>1 DEF IndexInv, CommandsTrue, AsksTrue, MediaValid, Starts
  <2> QED
    BY <2>1, <2>2, <2>3, <2>4 DEF IndexInv
<1>2. CASE ChangeCard
  BY <1>2, ChangeKeeps
<1>3. CASE EditText \/ DamageIndex
  BY <1>3, EditKeeps
<1>4. CASE PowerLoss
  BY <1>4, PowerKeeps
<1>5. CASE OpenSession
  BY <1>5, OpenSessionKeeps
<1>6. CASE Query \/ CloseSession
  BY <1>6, AskKeeps
<1>7. CASE Dequeue
  BY <1>7, DequeueIndex
<1>8. CASE NoCommand \/ NothingToDo
  BY <1>8, IdleIndex
<1>9. CASE StepFails \/ ReplaceFails
  BY <1>9, FailIndex
<1>10. CASE ScanPage
  BY <1>10, ScanPageIndex
<1>11. CASE ScanEnd
  BY <1>11, ScanEndIndex
<1>12. CASE ValidateBlock \/ NewIndexValid
  BY <1>12, BlockIndex
<1>13. CASE CacheDamaged
  BY <1>13, CacheDamagedIndex
<1>14. CASE CacheValid
  BY <1>14, CacheValidIndex
<1>15. CASE RemoveIndex
  BY <1>15, RemoveIndexIndex
<1>16. CASE RenameIndex
  BY <1>16, RenameIndexIndex
<1>17. CASE RemoveMetadata
  BY <1>17, RemoveMetadataIndex
<1>18. CASE RenameMetadata
  BY <1>18, RenameMetadataIndex
<1> QED
  BY <1>1, <1>2, <1>3, <1>4, <1>5, <1>6, <1>7, <1>8, <1>9, <1>10, <1>11, <1>12, <1>13, <1>14,
     <1>15, <1>16, <1>17, <1>18
  DEF Next, WorkerTask

\* Both invariants hold at all times.
LEMMA IndexAlways == Spec => [](OwnInv /\ IndexInv)
<1>1. Init => OwnInv /\ IndexInv
  BY OwnInit, IndexInit
<1>2. OwnInv /\ IndexInv /\ [Next]_vars => (OwnInv /\ IndexInv)'
  BY OwnStep, IndexStep
<1> QED
  BY <1>1, <1>2, PTL DEF Spec

\* A ready index is the whole index of the text on the card or of one with its
\* fingerprint, for any texts, samples and paginations, whatever was left on the card
\* before; and a place reported with a page count is a page and its start.
THEOREM IndexReadySound == Spec => []ReadyIndexSound
<1>1. OwnInv /\ IndexInv => ReadyIndexSound
  <2> SUFFICES ASSUME OwnInv, IndexInv PROVE ReadyIndexSound
    OBVIOUS
  <2>1. ASSUME phase = "ready"
        PROVE  /\ Paged(Book, Size[engine.file.content])
               /\ StartsOf(Book, engine.file.content, version)
               /\ engine.header.crc = Book /\ engine.header.count = Len(Book)
               /\ Reachable => /\ engine.file = disk[card].text /\ disk[card].index # None
                               /\ disk[card].index.offsets = Book
    <3>1. PICK s, p : s = Book /\ p = phase
      OBVIOUS
    <3>2. /\ Paged(s, Size[engine.file.content]) /\ EngineTrue(engine, p, s, version)
          /\ Reachable => DirectoryTrue(disk[card], engine, p, s)
      BY <2>1, <3>1, BookOpen DEF Active
    <3>3. p = "ready" /\ p # "scanning"
      BY <2>1, <3>1
    <3>4. engine.header.crc = s /\ engine.header.count = Len(s)
      BY <3>2, <3>3, FullHeader
    <3>5. StartsOf(s, engine.file.content, version)
      BY <3>2 DEF EngineTrue
    <3>6. Reachable => /\ engine.file = disk[card].text /\ disk[card].index # None
                       /\ disk[card].index.offsets = s
      BY <2>1, <3>2, <3>3 DEF OwnInv, Active, DirectoryTrue
    <3> QED
      BY <3>1, <3>2, <3>4, <3>5, <3>6
  <2>2. ASSUME phase = "ready", Reachable
        PROVE  /\ disk[card].index # None
               /\ \E c \in Contents : Alike(c, disk[card].text.content)
                                      /\ disk[card].index.offsets = Pages[version][c]
               /\ engine.header.count = Len(disk[card].index.offsets)
    BY <2>1, <2>2 DEF StartsOf
  <2>3. ASSUME event.count > 0
        PROVE  \E c \in Contents :
                  LET starts == Pages[version][c]
                  IN /\ Alike(c, engine.file.content)
                     /\ event.count = Len(starts)
                     /\ event.progress.page < event.count
                     /\ event.progress.offset = starts[event.progress.page + 1]
    <3>1. PICK s : s = Book
      OBVIOUS
    <3>2. /\ phase = "ready" /\ event.count = Len(engine.header.crc)
          /\ OnPage(engine.header.crc, event.progress)
      BY <2>3 DEF IndexInv, EventTrue
    <3>3. /\ event.count = Len(s) /\ OnPage(s, event.progress) /\ Len(s) \in Nat
          /\ StartsOf(s, engine.file.content, version)
      BY <2>1, <3>1, <3>2 DEF Paged
    <3>4. PICK c \in Contents : Alike(c, engine.file.content) /\ s = Pages[version][c]
      BY <3>3 DEF StartsOf
    <3>5. event.progress.page < event.count /\ event.progress.offset = s[event.progress.page + 1]
      BY <3>3 DEF OnPage
    <3> QED
      BY <3>3, <3>4, <3>5
  <2> QED
    BY <2>2, <2>3 DEF ReadyIndexSound
<1> QED
  BY <1>1, IndexAlways, PTL

\* A position on a card lies in the text its metadata name, at a page start if the
\* fingerprint tells that text from all others, and metadata that claim an index
\* describe one of a text with their fingerprint, through every edit, damage and power
\* loss.
THEOREM IndexSavedTrue == Spec => []SavedProgressTrue
<1>1. OwnInv /\ IndexInv => SavedProgressTrue
  <2> SUFFICES ASSUME IndexInv, NEW c \in Cards, disk[c].metadata # None
               PROVE  LET m == disk[c].metadata
                          starts == Pages[m.version][m.content]
                      IN /\ m.offset = 0 \/ m.offset < Size[m.content]
                         /\ Told(m.content) => \E i \in DOMAIN starts : starts[i] = m.offset
                         /\ m.complete =>
                               /\ \E t \in Contents : /\ Alike(t, m.content)
                                                      /\ m.crc = Pages[m.version][t]
                               /\ m.count = Len(m.crc) /\ m.crc[m.page + 1] = m.offset
    BY DEF SavedProgressTrue
  <2>1. PICK m : m = disk[c].metadata
    OBVIOUS
  <2>2. RecordTrue(m)
    BY <2>1 DEF IndexInv, CardsTrue
  <2>3. PICK s : s = Pages[m.version][m.content]
    OBVIOUS
  <2>4. DOMAIN s = 1 .. Len(s)
    BY <2>2, <2>3, TextsPaged DEF RecordTrue, Paged
  <2>5. m.offset = 0 \/ m.offset < Size[m.content]
    BY <2>2 DEF RecordTrue, PlaceOf
  <2>6. Told(m.content) => \E i \in DOMAIN s : s[i] = m.offset
    BY <2>2, <2>3, <2>4 DEF RecordTrue, PlaceOf, IsStart
  <2>7. m.complete => /\ \E t \in Contents : Alike(t, m.content) /\ m.crc = Pages[m.version][t]
                      /\ m.count = Len(m.crc) /\ m.crc[m.page + 1] = m.offset
    BY <2>2 DEF RecordTrue, StartsOf
  <2> QED
    BY <2>1, <2>3, <2>5, <2>6, <2>7
<1> QED
  BY <1>1, IndexAlways, PTL

\* Finishing an index, found or built, moves neither the place a session resumed at nor
\* the one it has reached since, if the fingerprint tells the text from all others, and
\* otherwise back to the start of its page at most.
THEOREM IndexKeepsPlace == Spec => KeepsPlace
<1> DEFINE Kept ==
        \A place \in {"resume", "position"} :
           LET old == engine[place].offset
               new == engine'[place].offset
               starts == engine'.header.crc
           IN /\ Told(engine.file.content) => new = old
              /\ new <= old
              /\ \A i \in DOMAIN starts : starts[i] <= old => starts[i] <= new
<1>1. ASSUME OwnInv, IndexInv, [Next]_vars, phase \in Working, phase' = "ready"
      PROVE  Kept
  <2>1. ASSUME IndexInv', PlacesSettled PROVE Kept
    <3>1. PICK s : s = engine'.header.crc
      OBVIOUS
    <3>2. DOMAIN s = 1 .. Len(s)
      <4>1. Active'
        BY <1>1 DEF Active
      <4>2. PICK b : EngineTrue(engine', phase', b, version') /\ version' \in Versions
        BY <2>1, <4>1 DEF IndexInv, BuildTrue, BuildOf
      <4>3. Paged(b, Size[engine'.file.content])
        BY <4>2, StartsPaged DEF EngineTrue, Opened
      <4>4. phase' # "scanning"
        BY <1>1
      <4>5. s = b
        BY <3>1, <4>2, <4>3, <4>4, FullHeader
      <4> QED
        BY <4>3, <4>5 DEF Paged
    <3>3. /\ PlacesSettle(engine, engine', s)
          /\ engine["resume"] = engine.resume /\ engine["position"] = engine.position
          /\ engine'["resume"] = engine'.resume /\ engine'["position"] = engine'.position
      BY <2>1, <3>1 DEF PlacesSettled
    <3> QED
      BY <3>1, <3>2, <3>3 DEF PlacesSettle, PageBegins
  <2>2. CASE CacheValid
    BY <1>1, <2>1, <2>2, CacheValidIndex
  <2>3. CASE RenameIndex
    BY <1>1, <2>1, <2>3, RenameIndexIndex
  <2>4. CASE UNCHANGED phase
    BY <1>1, <2>4 DEF Working
  <2>5. CASE Dequeue
    <3>1. phase' \in {phase, "failed", "validating_cache", "scanning"}
      BY <2>5 DEF Dequeue, OpenBook, Answer, Save, Fail
    <3> QED
      BY <1>1, <3>1 DEF Working
  <2>6. CASE PowerLoss \/ StepFails \/ ReplaceFails \/ ScanEnd \/ CacheDamaged
    BY <1>1, <2>6 DEF PowerLoss, StepFails, ReplaceFails, Fail, ScanEnd, CacheDamaged
  <2>7. CacheValid \/ RenameIndex \/ UNCHANGED phase \/ Dequeue
        \/ PowerLoss \/ StepFails \/ ReplaceFails \/ ScanEnd \/ CacheDamaged
    BY <1>1
    DEF Next, vars, WorkerTask, ChangeCard, EditText, DamageIndex, OpenSession, Query,
        CloseSession, clientFrame, NoCommand, NothingToDo, ScanPage, ValidateBlock,
        NewIndexValid, RemoveIndex, RemoveMetadata, RenameMetadata
  <2> QED
    BY <2>2, <2>3, <2>4, <2>5, <2>6, <2>7
<1>2. OwnInv /\ IndexInv /\ [Next]_vars =>
          [(phase \in Working /\ phase' = "ready") => Kept]_vars
  BY <1>1
<1> QED
  BY <1>2, IndexAlways, PTL DEF Spec, KeepsPlace
=============================================================================
