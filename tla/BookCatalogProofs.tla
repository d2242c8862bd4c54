------------------------- MODULE BookCatalogProofs -------------------------
(***************************************************************************)
(* Proofs that the catalog stands still when Books believes it does, that  *)
(* its files tell the truth about their cards, that Books shows books of   *)
(* the card it names, and that a settled catalog lists every selected      *)
(* book, for every set of cards, books and settings and every bound on the *)
(* calls.                                                                  *)
(*                                                                         *)
(* book_catalog_service_idle reads three atomics: desired_active, the      *)
(* number of the last activation or pause, and the number the worker has   *)
(* acknowledged.  That they tell where the worker is follows from two      *)
(* facts about every moment in between: a pause that has cleared           *)
(* desired_active still owes its number, and a worker at work while the    *)
(* catalog is not wanted has not acknowledged the last number.             *)
(***************************************************************************)
EXTENDS BookCatalog, SequenceTheorems, TLAPS

States == {"no_card", "mounting", "ready", "error"}
Statuses == [state : States, generation : Nat]

\* One access a handler of the UI task still has to make.
Accesses ==
    {<<"activation">>, <<"activate">>, <<"deactivate">>, <<"serial">>, <<"snapshot">>, <<"page">>}
        \cup {<<"generation", g>> : g \in Nat}
        \cup {<<"bits", s>> : s \in SUBSET Formats}

\* A handler's calls still raise activation_serial.
Owed(cs) == \E i \in 1 .. Len(cs) : cs[i] = <<"activation">>

\* desired_active is cleared before the number is raised, by the same handler.
PausesNumbered(cs) ==
    \A i \in 1 .. Len(cs) :
        cs[i] = <<"deactivate">> => i + 1 \in 1 .. Len(cs) /\ cs[i + 1] = <<"activation">>

ServiceTyped == svc \in [active : BOOLEAN, activation : Nat, acknowledged : Nat, busy : BOOLEAN]
MediaTyped == /\ media.generation \in Nat /\ "generation" \in DOMAIN media
              /\ statuses \in Seq(Statuses)
WorkerTyped == /\ pc \in Idling \cup Working
               /\ "after" \in DOMAIN worker
               /\ worker.after \in {"top", "filtered", "enrich", "finished"}
CallsTyped == calls \in Seq(Accesses) /\ PausesNumbered(calls)

\* The number the worker has acknowledged is the last one only after it has stopped.
Unacknowledged ==
    /\ svc.acknowledged <= svc.activation
    /\ pc \in Working /\ ~svc.active /\ ~Owed(calls) => svc.acknowledged < svc.activation

CatalogInv == ServiceTyped /\ MediaTyped /\ WorkerTyped /\ CallsTyped /\ Unacknowledged

\* The first call of a handler that still has some to make, and the others, are calls.
LEMMA HeadTail ==
    ASSUME NEW S, NEW q \in Seq(S), q # <<>>
    PROVE  /\ Tail(q) \in Seq(S) /\ Len(q) \in Nat /\ Len(q) > 0
           /\ Head(q) = q[1] /\ Head(q) \in S
           /\ Len(Tail(q)) = Len(q) - 1
           /\ \A k \in 1 .. Len(Tail(q)) : Tail(q)[k] = q[k + 1]
  OBVIOUS

\* What a step of the worker may do to the handshake is harmless as long as it
\* goes to work only while the catalog is wanted.
WorkerFrame ==
    /\ ServiceTyped' /\ WorkerTyped'
    /\ svc'.active = svc.active /\ svc'.activation = svc.activation
    /\ UNCHANGED <<media, statuses, calls>>

\* A step that neither starts work nor writes the handshake keeps its invariant.
LEMMA WorkerKeepsNumber ==
    CatalogInv /\ WorkerFrame /\ svc'.acknowledged = svc.acknowledged
        /\ (pc' \in Idling \/ pc \in Working \/ svc.active) => CatalogInv'
<1> SUFFICES ASSUME CatalogInv, WorkerFrame, svc'.acknowledged = svc.acknowledged,
                    pc' \in Idling \/ pc \in Working \/ svc.active
             PROVE  CatalogInv'
  OBVIOUS
<1>1. MediaTyped' /\ CallsTyped'
  BY DEF CatalogInv, WorkerFrame, MediaTyped, CallsTyped
<1>2. pc' \in Idling => pc' \notin Working
  BY DEF Idling, Working
<1>3. Unacknowledged'
  BY <1>2 DEF CatalogInv, WorkerFrame, Unacknowledged
<1>4. QED
  BY <1>1, <1>3 DEF CatalogInv, WorkerFrame

\* Raising or lowering worker_busy touches neither the number nor what is wanted.
LEMMA BusyField ==
    \A b \in BOOLEAN : ServiceTyped /\ SetBusy(b) =>
        /\ ServiceTyped' /\ svc'.active = svc.active
        /\ svc'.activation = svc.activation /\ svc'.acknowledged = svc.acknowledged
  BY DEF ServiceTyped, SetBusy

\* What does not write the handshake keeps its types.
LEMMA StillService ==
    ServiceTyped /\ UNCHANGED svc =>
        /\ ServiceTyped' /\ svc'.active = svc.active
        /\ svc'.activation = svc.activation /\ svc'.acknowledged = svc.acknowledged
  BY DEF ServiceTyped

\* At start-up nothing is wanted, no pause is owed and the worker is at the top of its loop.
THEOREM CatalogInit == Init => CatalogInv
<1> SUFFICES ASSUME Init PROVE CatalogInv
  OBVIOUS
<1>1. ServiceTyped
  BY DEF Init, ServiceTyped
<1>2. MediaTyped
  <2>1. PICK c \in Cards \cup {None} :
          media = [state |-> IF c = None THEN "no_card" ELSE "ready", generation |-> 1,
                   card |-> c, changing |-> FALSE]
    BY DEF Init
  <2>2. statuses = <<>>
    BY DEF Init
  <2>3. QED
    BY <2>1, <2>2 DEF MediaTyped
<1>3. WorkerTyped
  BY DEF Init, WorkerTyped, Idling
<1>4. CallsTyped
  BY DEF Init, CallsTyped, PausesNumbered
<1>5. Unacknowledged
  BY DEF Init, Unacknowledged, Working
<1>6. QED
  BY <1>1, <1>2, <1>3, <1>4, <1>5 DEF CatalogInv

-----------------------------------------------------------------------------
(* The worker.                                                             *)

\* Every step leads to a place of the loop; the two that return from save_catalog
\* lead to the one kept in worker.after.
LEMMA WorkerPlaces == WorkerTyped /\ WorkerStep => WorkerTyped'
<1> SUFFICES ASSUME WorkerTyped, WorkerStep PROVE WorkerTyped'
  OBVIOUS
<1>1. CASE SeeActive
  BY <1>1 DEF SeeActive, WorkerTyped, Go, Idling, Working
<1>2. CASE Acknowledge
  BY <1>2 DEF Acknowledge, WorkerTyped, Go, Idling, Working
<1>3. CASE ReadContext
  BY <1>3 DEF ReadContext, WorkerTyped, Go, Idling, Working
<1>4. CASE AdoptContext
  BY <1>4 DEF AdoptContext, WorkerTyped, Go, Idling, Working
<1>5. CASE StartLoading
  BY <1>5 DEF StartLoading, WorkerTyped, Go, Idling, Working
<1>6. CASE CheckMedia
  BY <1>6 DEF CheckMedia, WorkerTyped, Go, Idling, Working
<1>7. CASE LoadCatalog
  BY <1>7 DEF LoadCatalog, WorkerTyped, Go, Idling, Working
<1>8. CASE AdoptSettings
  BY <1>8 DEF AdoptSettings, WorkerTyped, Go, Idling, Working
<1>9. CASE PublishLoaded
  BY <1>9 DEF PublishLoaded, WorkerTyped, Go, Idling, Working
<1>10. CASE Loaded
  BY <1>10 DEF Loaded, WorkerTyped, Go, Idling, Working
<1>11. CASE ChangeSettings
  BY <1>11 DEF ChangeSettings, WorkerTyped, Go, Idling, Working
<1>12. CASE SettingsSaved
  BY <1>12 DEF SettingsSaved, WorkerTyped, Go, Idling, Working
<1>13. CASE RemoveCatalog
  BY <1>13 DEF RemoveCatalog, WorkerTyped, Go, Idling, Working
<1>14. CASE RenameCatalog
  BY <1>14 DEF RenameCatalog, WorkerTyped, Go, Idling, Working
<1>15. CASE SaveFails
  BY <1>15 DEF SaveFails, WorkerTyped, Go, Idling, Working
<1>16. CASE NoMedia
  BY <1>16 DEF NoMedia, SameSettings, WorkerTyped, Go, Idling, Working
<1>17. CASE StartScan
  BY <1>17 DEF StartScan, SameSettings, WorkerTyped, Go, Idling, Working
<1>18. CASE NothingToDo
  BY <1>18 DEF NothingToDo, SameSettings, WorkerTyped, Go, Idling, Working
<1>19. CASE AbandonScan
  BY <1>19 DEF AbandonScan, WorkerTyped, Go, Idling, Working
<1>20. CASE ScanFails
  BY <1>20 DEF ScanFails, WorkerTyped, Go, Idling, Working
<1>21. CASE ListDirectories
  BY <1>21 DEF ListDirectories, WorkerTyped, Go, Idling, Working
<1>22. CASE PopulateItems
  BY <1>22 DEF PopulateItems, WorkerTyped, Go, Idling, Working
<1>23. CASE ReplaceCatalog
  BY <1>23 DEF ReplaceCatalog, WorkerTyped, Go, Idling, Working
<1>24. CASE OpenEpub
  BY <1>24 DEF OpenEpub, WorkerTyped, Go, Idling, Working
<1>25. CASE BuildEpub
  BY <1>25 DEF BuildEpub, WorkerTyped, Go, Idling, Working
<1>26. CASE AbandonEpub
  BY <1>26 DEF AbandonEpub, WorkerTyped, Go, Idling, Working
<1>27. CASE PublishCover
  BY <1>27 DEF PublishCover, WorkerTyped, Go, Idling, Working
<1>28. CASE SaveCovers
  BY <1>28 DEF SaveCovers, WorkerTyped, Go, Idling, Working
<1>29. CASE FinishCatalog
  BY <1>29 DEF FinishCatalog, WorkerTyped, Go, Idling, Working
<1> QED
  BY <1>1, <1>2, <1>3, <1>4, <1>5, <1>6, <1>7, <1>8, <1>9, <1>10, <1>11, <1>12,
     <1>13, <1>14, <1>15, <1>16, <1>17, <1>18, <1>19, <1>20, <1>21, <1>22,
     <1>23, <1>24, <1>25, <1>26, <1>27, <1>28, <1>29 DEF WorkerStep

\* Only an acknowledgement writes more of the handshake than worker_busy.
LEMMA WorkerWants == WorkerStep => Acknowledge \/ UNCHANGED svc \/ \E b \in BOOLEAN : SetBusy(b)
<1> SUFFICES ASSUME WorkerStep, ~Acknowledge
             PROVE  UNCHANGED svc \/ \E b \in BOOLEAN : SetBusy(b)
  OBVIOUS
<1>1. CASE SeeActive
  BY <1>1 DEF SeeActive, shared
<1>2. CASE ReadContext
  BY <1>2 DEF ReadContext, shared
<1>3. CASE AdoptContext
  BY <1>3 DEF AdoptContext, shared
<1>4. CASE StartLoading
  BY <1>4 DEF StartLoading, shared
<1>5. CASE CheckMedia
  BY <1>5 DEF CheckMedia, shared
<1>6. CASE LoadCatalog
  BY <1>6 DEF LoadCatalog, shared
<1>7. CASE AdoptSettings
  BY <1>7 DEF AdoptSettings, shared
<1>8. CASE PublishLoaded
  BY <1>8 DEF PublishLoaded, shared
<1>9. CASE Loaded
  BY <1>9 DEF Loaded, shared
<1>10. CASE ChangeSettings
  BY <1>10 DEF ChangeSettings, shared
<1>11. CASE SettingsSaved
  BY <1>11 DEF SettingsSaved, shared
<1>12. CASE RemoveCatalog
  BY <1>12 DEF RemoveCatalog, shared
<1>13. CASE RenameCatalog
  BY <1>13 DEF RenameCatalog, shared
<1>14. CASE SaveFails
  BY <1>14 DEF SaveFails, shared
<1>15. CASE NoMedia
  BY <1>15 DEF NoMedia, SameSettings, shared
<1>16. CASE StartScan
  BY <1>16 DEF StartScan, SameSettings, shared
<1>17. CASE NothingToDo
  BY <1>17 DEF NothingToDo, SameSettings, shared
<1>18. CASE AbandonScan
  BY <1>18 DEF AbandonScan, shared
<1>19. CASE ScanFails
  BY <1>19 DEF ScanFails, shared
<1>20. CASE ListDirectories
  BY <1>20 DEF ListDirectories, shared
<1>21. CASE PopulateItems
  BY <1>21 DEF PopulateItems, shared
<1>22. CASE ReplaceCatalog
  BY <1>22 DEF ReplaceCatalog, shared
<1>23. CASE OpenEpub
  BY <1>23 DEF OpenEpub, shared
<1>24. CASE BuildEpub
  BY <1>24 DEF BuildEpub, shared
<1>25. CASE AbandonEpub
  BY <1>25 DEF AbandonEpub, shared
<1>26. CASE PublishCover
  BY <1>26 DEF PublishCover, shared
<1>27. CASE SaveCovers
  BY <1>27 DEF SaveCovers, shared
<1>28. CASE FinishCatalog
  BY <1>28 DEF FinishCatalog, shared
<1> QED
  BY <1>1, <1>2, <1>3, <1>4, <1>5, <1>6, <1>7, <1>8, <1>9, <1>10, <1>11, <1>12,
     <1>13, <1>14, <1>15, <1>16, <1>17, <1>18, <1>19, <1>20, <1>21, <1>22,
     <1>23, <1>24, <1>25, <1>26, <1>27, <1>28 DEF WorkerStep

\* The worker goes to work from the top of its loop only while desired_active is set.
LEMMA WorkerStarts == WorkerStep => pc' \in Idling \/ pc \in Working \/ svc.active
<1> SUFFICES ASSUME WorkerStep PROVE pc' \in Idling \/ pc \in Working \/ svc.active
  OBVIOUS
<1>1. CASE SeeActive
  BY <1>1 DEF SeeActive, Go, Idling, Working
<1>2. CASE Acknowledge
  BY <1>2 DEF Acknowledge, Go, Idling, Working
<1>3. CASE ReadContext
  BY <1>3 DEF ReadContext, Go, Idling, Working
<1>4. CASE AdoptContext
  BY <1>4 DEF AdoptContext, Go, Idling, Working
<1>5. CASE StartLoading
  BY <1>5 DEF StartLoading, Go, Idling, Working
<1>6. CASE CheckMedia
  BY <1>6 DEF CheckMedia, Go, Idling, Working
<1>7. CASE LoadCatalog
  BY <1>7 DEF LoadCatalog, Go, Idling, Working
<1>8. CASE AdoptSettings
  BY <1>8 DEF AdoptSettings, Go, Idling, Working
<1>9. CASE PublishLoaded
  BY <1>9 DEF PublishLoaded, Go, Idling, Working
<1>10. CASE Loaded
  BY <1>10 DEF Loaded, Go, Idling, Working
<1>11. CASE ChangeSettings
  BY <1>11 DEF ChangeSettings, Go, Idling, Working
<1>12. CASE SettingsSaved
  BY <1>12 DEF SettingsSaved, Go, Idling, Working
<1>13. CASE RemoveCatalog
  BY <1>13 DEF RemoveCatalog, Go, Idling, Working
<1>14. CASE RenameCatalog
  BY <1>14 DEF RenameCatalog, Go, Idling, Working
<1>15. CASE SaveFails
  BY <1>15 DEF SaveFails, Go, Idling, Working
<1>16. CASE NoMedia
  BY <1>16 DEF NoMedia, SameSettings, Go, Idling, Working
<1>17. CASE StartScan
  BY <1>17 DEF StartScan, SameSettings, Go, Idling, Working
<1>18. CASE NothingToDo
  BY <1>18 DEF NothingToDo, SameSettings, Go, Idling, Working
<1>19. CASE AbandonScan
  BY <1>19 DEF AbandonScan, Go, Idling, Working
<1>20. CASE ScanFails
  BY <1>20 DEF ScanFails, Go, Idling, Working
<1>21. CASE ListDirectories
  BY <1>21 DEF ListDirectories, Go, Idling, Working
<1>22. CASE PopulateItems
  BY <1>22 DEF PopulateItems, Go, Idling, Working
<1>23. CASE ReplaceCatalog
  BY <1>23 DEF ReplaceCatalog, Go, Idling, Working
<1>24. CASE OpenEpub
  BY <1>24 DEF OpenEpub, Go, Idling, Working
<1>25. CASE BuildEpub
  BY <1>25 DEF BuildEpub, Go, Idling, Working
<1>26. CASE AbandonEpub
  BY <1>26 DEF AbandonEpub, Go, Idling, Working
<1>27. CASE PublishCover
  BY <1>27 DEF PublishCover, Go, Idling, Working
<1>28. CASE SaveCovers
  BY <1>28 DEF SaveCovers, Go, Idling, Working
<1>29. CASE FinishCatalog
  BY <1>29 DEF FinishCatalog, Go, Idling, Working
<1> QED
  BY <1>1, <1>2, <1>3, <1>4, <1>5, <1>6, <1>7, <1>8, <1>9, <1>10, <1>11, <1>12,
     <1>13, <1>14, <1>15, <1>16, <1>17, <1>18, <1>19, <1>20, <1>21, <1>22,
     <1>23, <1>24, <1>25, <1>26, <1>27, <1>28, <1>29 DEF WorkerStep

\* Nothing of the UI task or the card is the worker's to change.
LEMMA WorkerElsewhere == WorkerStep => UNCHANGED <<media, statuses, calls, books, cards>>
  BY Zenon DEF WorkerStep, Elsewhere, uiVars, SeeActive, Acknowledge, ReadContext,
     AdoptContext, StartLoading, CheckMedia, LoadCatalog, AdoptSettings,
     PublishLoaded, Loaded, ChangeSettings, SettingsSaved, RemoveCatalog,
     RenameCatalog, SaveFails, NoMedia, StartScan, NothingToDo, AbandonScan,
     ScanFails, ListDirectories, PopulateItems, ReplaceCatalog, OpenEpub,
     BuildEpub, AbandonEpub, PublishCover, SaveCovers, FinishCatalog

\* The acknowledgement itself: the worker has just found the catalog not wanted, or
\* was asked for again since, and has stopped in either case.
LEMMA AcknowledgeKeeps == CatalogInv /\ Acknowledge => CatalogInv'
<1> SUFFICES ASSUME CatalogInv, Acknowledge PROVE CatalogInv'
  OBVIOUS
<1>1. ServiceTyped' /\ svc'.acknowledged = svc'.activation
  BY DEF CatalogInv, ServiceTyped, Acknowledge
<1>2. WorkerTyped' /\ pc' \notin Working
  BY DEF CatalogInv, WorkerTyped, Acknowledge, Go, Idling, Working
<1>3. MediaTyped' /\ CallsTyped'
  BY DEF CatalogInv, Acknowledge, Elsewhere, MediaTyped, CallsTyped
<1>4. Unacknowledged'
  BY <1>1, <1>2 DEF Unacknowledged, ServiceTyped
<1>5. QED
  BY <1>1, <1>2, <1>3, <1>4 DEF CatalogInv

\* Every step of the worker keeps the handshake.
LEMMA WorkerKeeps == CatalogInv /\ WorkerStep => CatalogInv'
<1> SUFFICES ASSUME CatalogInv, WorkerStep, ~Acknowledge PROVE CatalogInv'
  BY AcknowledgeKeeps
<1>1. ServiceTyped /\ WorkerTyped'
  BY WorkerPlaces DEF CatalogInv
<1>2. /\ ServiceTyped' /\ svc'.active = svc.active
      /\ svc'.activation = svc.activation /\ svc'.acknowledged = svc.acknowledged
  BY <1>1, WorkerWants, StillService, BusyField
<1>3. QED
  BY <1>1, <1>2, WorkerStarts, WorkerElsewhere, WorkerKeepsNumber DEF WorkerFrame

-----------------------------------------------------------------------------
(* The calls of the handlers.                                              *)

\* Scripts of calls: what a handler may leave behind.
Script(cs) == cs \in Seq(Accesses) /\ PausesNumbered(cs)

\* A handler that calls nothing of the catalog owes no number.
LEMMA NothingScript == Script(<<>>)
  BY DEF Script, PausesNumbered

\* A refresh only reads.
LEMMA RefreshScript == Script(Refresh)
<1>1. Refresh \in Seq(Accesses)
  BY DEF Refresh, Accesses
<1>2. \A i \in 1 .. Len(Refresh) : Refresh[i] # <<"deactivate">>
  BY DEF Refresh
<1>3. QED
  BY <1>1, <1>2 DEF Script, PausesNumbered

\* book_catalog_service_pause numbers the pause after it has cleared desired_active.
LEMMA PauseScript == Script(Pause)
  BY DEF Pause, Script, PausesNumbered, Accesses

\* book_catalog_service_activate clears nothing.
LEMMA ActivateScript == \A g \in Nat : Script(Activate(g))
<1> SUFFICES ASSUME NEW g \in Nat PROVE Script(Activate(g))
  OBVIOUS
<1>1. Activate(g) \in Seq(Accesses)
  BY DEF Activate, Accesses
<1>2. \A i \in 1 .. Len(Activate(g)) : Activate(g)[i] # <<"deactivate">>
  BY DEF Activate
<1>3. QED
  BY <1>1, <1>2 DEF Script, PausesNumbered

\* book_catalog_service_update_settings does not touch the handshake.
LEMMA UpdateSettingsScript == \A s \in SUBSET Formats : Script(UpdateSettings(s))
<1> SUFFICES ASSUME NEW s \in SUBSET Formats PROVE Script(UpdateSettings(s))
  OBVIOUS
<1>1. UpdateSettings(s) \in Seq(Accesses)
  BY DEF UpdateSettings, Accesses
<1>2. \A i \in 1 .. Len(UpdateSettings(s)) : UpdateSettings(s)[i] # <<"deactivate">>
  BY DEF UpdateSettings
<1>3. QED
  BY <1>1, <1>2 DEF Script, PausesNumbered

\* One script after the other is a script.
LEMMA ConcatScript == \A p, q : Script(p) /\ Script(q) => Script(p \o q)
<1> SUFFICES ASSUME NEW p, NEW q, Script(p), Script(q) PROVE Script(p \o q)
  OBVIOUS
<1> DEFINE r == p \o q
<1>1. /\ p \in Seq(Accesses) /\ q \in Seq(Accesses) /\ r \in Seq(Accesses)
      /\ Len(p) \in Nat /\ Len(q) \in Nat /\ Len(r) = Len(p) + Len(q)
      /\ \A i \in 1 .. Len(p) : r[i] = p[i]
      /\ \A i \in 1 .. Len(q) : r[Len(p) + i] = q[i]
  BY DEF Script
<1>2. ASSUME NEW i \in 1 .. Len(r), r[i] = <<"deactivate">>
      PROVE  i + 1 \in 1 .. Len(r) /\ r[i + 1] = <<"activation">>
  <2>1. CASE i \in 1 .. Len(p)
    <3>1. i + 1 \in 1 .. Len(p) /\ p[i + 1] = <<"activation">>
      BY <1>1, <1>2, <2>1 DEF Script, PausesNumbered
    <3>2. QED
      BY <1>1, <3>1
  <2>2. CASE i \notin 1 .. Len(p)
    <3> DEFINE k == i - Len(p)
    <3>1. k \in 1 .. Len(q) /\ i = Len(p) + k
      BY <1>1, <1>2, <2>2
    <3>2. q[k] = <<"deactivate">>
      BY <1>1, <1>2, <3>1
    <3>3. k + 1 \in 1 .. Len(q) /\ q[k + 1] = <<"activation">>
      BY <3>1, <3>2 DEF Script, PausesNumbered
    <3>4. r[Len(p) + (k + 1)] = <<"activation">>
      BY <1>1, <3>3
    <3>5. QED
      BY <1>1, <3>1, <3>3, <3>4
  <2>3. QED
    BY <2>1, <2>2
<1>3. QED
  BY <1>1, <1>2 DEF Script, PausesNumbered

\* A handler starts with nothing left to do and leaves a script.
LEMMA HandlerKeeps ==
    /\ CatalogInv /\ calls = <<>> /\ Script(calls')
    /\ UNCHANGED <<svc, pc, worker>> /\ MediaTyped'
    => CatalogInv'
<1> SUFFICES ASSUME CatalogInv, calls = <<>>, Script(calls'), UNCHANGED <<svc, pc, worker>>,
                    MediaTyped'
             PROVE  CatalogInv'
  OBVIOUS
<1>1. ServiceTyped' /\ WorkerTyped' /\ CallsTyped'
  BY DEF CatalogInv, ServiceTyped, WorkerTyped, CallsTyped, Script
<1>2. ~Owed(calls)
  BY DEF Owed
<1>3. Unacknowledged'
  BY <1>2 DEF CatalogInv, Unacknowledged
<1>4. QED
  BY <1>1, <1>3 DEF CatalogInv

\* A step that leaves the card and its events alone keeps their types.
LEMMA MediaStill == CatalogInv /\ UNCHANGED <<media, statuses>> => MediaTyped'
  BY DEF CatalogInv, MediaTyped

\* One access of a handler: what it clears it numbers later, and what it numbers is newer
\* than any acknowledgement.
LEMMA MakeCallKeeps == CatalogInv /\ MakeCall => CatalogInv'
<1> SUFFICES ASSUME CatalogInv, MakeCall PROVE CatalogInv'
  OBVIOUS
<1> DEFINE op == Head(calls)
<1>1. calls # <<>> /\ calls' = Tail(calls) /\ UNCHANGED <<pc, worker>> /\ MediaTyped'
  BY MediaStill DEF MakeCall, Elsewhere2
<1>2. /\ calls \in Seq(Accesses) /\ calls' \in Seq(Accesses)
      /\ Len(calls) \in Nat /\ Len(calls) > 0 /\ Len(calls') = Len(calls) - 1
      /\ op = calls[1] /\ op \in Accesses
      /\ \A k \in 1 .. Len(calls') : calls'[k] = calls[k + 1]
  BY <1>1, HeadTail DEF CatalogInv, CallsTyped
<1>3. CallsTyped'
  <2>1. ASSUME NEW i \in 1 .. Len(calls'), calls'[i] = <<"deactivate">>
        PROVE  i + 1 \in 1 .. Len(calls') /\ calls'[i + 1] = <<"activation">>
    <3>1. i + 1 \in 1 .. Len(calls) /\ calls[i + 1] = <<"deactivate">>
      BY <1>2, <2>1
    <3>2. i + 1 + 1 \in 1 .. Len(calls) /\ calls[i + 1 + 1] = <<"activation">>
      BY <3>1 DEF CatalogInv, CallsTyped, PausesNumbered
    <3>3. i + 1 \in 1 .. Len(calls')
      BY <1>2, <3>2
    <3>4. QED
      BY <1>2, <3>2, <3>3
  <2>2. QED
    BY <1>2, <2>1 DEF CallsTyped, PausesNumbered
\* Only the number of a pause or an activation is paid for by its call.
<1>4. op # <<"activation">> /\ Owed(calls) => Owed(calls')
  <2> SUFFICES ASSUME op # <<"activation">>, Owed(calls) PROVE Owed(calls')
    OBVIOUS
  <2>1. PICK i \in 1 .. Len(calls) : calls[i] = <<"activation">>
    BY DEF Owed
  <2>2. i - 1 \in 1 .. Len(calls') /\ calls'[i - 1] = calls[i]
    BY <1>2, <2>1
  <2>3. QED
    BY <2>1, <2>2 DEF Owed
<1>5. ServiceTyped /\ WorkerTyped /\ WorkerTyped'
  BY <1>1 DEF CatalogInv, WorkerTyped
<1>6. CASE op[1] = "activation"
  <2>1. svc' = [svc EXCEPT !.activation = @ + 1]
    BY <1>6 DEF MakeCall
  <2>2. ServiceTyped' /\ svc'.activation = svc.activation + 1
                      /\ svc'.acknowledged = svc.acknowledged
    BY <1>5, <2>1 DEF ServiceTyped
  <2>3. Unacknowledged'
    BY <1>5, <2>2 DEF CatalogInv, Unacknowledged, ServiceTyped
  <2>4. QED
    BY <1>1, <1>3, <1>5, <2>2, <2>3 DEF CatalogInv
<1>7. CASE op[1] \in {"activate", "deactivate"}
  <2>1. svc' = [svc EXCEPT !.active = op[1] = "activate"]
    BY <1>7 DEF MakeCall
  <2>2. /\ ServiceTyped' /\ svc'.activation = svc.activation
        /\ svc'.acknowledged = svc.acknowledged /\ (op[1] = "activate" => svc'.active)
    BY <1>5, <2>1 DEF ServiceTyped
  <2>3. op[1] = "deactivate" => Owed(calls')
    <3> SUFFICES ASSUME op[1] = "deactivate" PROVE Owed(calls')
      OBVIOUS
    <3>1. calls[1] = <<"deactivate">>
      BY <1>2 DEF Accesses
    <3>2. 1 + 1 \in 1 .. Len(calls) /\ calls[1 + 1] = <<"activation">>
      BY <1>2, <3>1 DEF CatalogInv, CallsTyped, PausesNumbered
    <3>3. 1 \in 1 .. Len(calls') /\ calls'[1] = <<"activation">>
      BY <1>2, <3>2
    <3>4. QED
      BY <3>3 DEF Owed
  <2>4. Unacknowledged'
    BY <1>1, <1>7, <2>2, <2>3 DEF CatalogInv, Unacknowledged
  <2>5. QED
    BY <1>1, <1>3, <1>5, <2>2, <2>4 DEF CatalogInv
<1>8. CASE op[1] \notin {"activation", "activate", "deactivate"}
  <2>1. UNCHANGED svc
    BY <1>8 DEF MakeCall, shared
  <2>2. op # <<"activation">>
    BY <1>8
  <2>3. ServiceTyped' /\ Unacknowledged'
    BY <1>1, <1>4, <2>1, <2>2 DEF CatalogInv, ServiceTyped, Unacknowledged
  <2>4. QED
    BY <1>1, <1>3, <1>5, <2>3 DEF CatalogInv
<1>9. QED
  BY <1>6, <1>7, <1>8

\* A storage status activates the catalog under its generation, or only empties the screen.
LEMMA HandleStatusKeeps == CatalogInv /\ HandleStatus => CatalogInv'
<1> SUFFICES ASSUME CatalogInv, HandleStatus PROVE CatalogInv'
  OBVIOUS
<1>1. /\ calls = <<>> /\ UNCHANGED <<svc, pc, worker>>
      /\ statuses # <<>> /\ statuses' = Tail(statuses) /\ media' = media
  BY DEF HandleStatus, Elsewhere2, shared
<1>2. MediaTyped' /\ Head(statuses).generation \in Nat
  <2>1. statuses \in Seq(Statuses)
    BY DEF CatalogInv, MediaTyped
  <2>2. Tail(statuses) \in Seq(Statuses) /\ Head(statuses) \in Statuses
    BY <1>1, <2>1, HeadTail
  <2>3. QED
    BY <1>1, <2>2 DEF CatalogInv, MediaTyped, Statuses
<1>3. Script(calls')
  <2>1. calls' = calls \/ calls' = Activate(Head(statuses).generation) \o Refresh
    BY DEF HandleStatus
  <2>2. QED
    BY <1>1, <1>2, <2>1, NothingScript, ActivateScript, RefreshScript, ConcatScript
<1>4. QED
  BY <1>1, <1>2, <1>3, HandlerKeeps

\* Books opened, whatever lies below it.
LEMMA OpenBooksScript ==
    CatalogInv => \A back : OpenBooks(back) => Script(calls')
<1> SUFFICES ASSUME CatalogInv, NEW back, OpenBooks(back) PROVE Script(calls')
  OBVIOUS
<1>1. media.generation \in Nat
  BY DEF CatalogInv, MediaTyped
<1>2. calls' = Activate(media.generation) \o Refresh
  BY DEF OpenBooks
<1>3. QED
  BY <1>1, <1>2, ActivateScript, RefreshScript, ConcatScript

\* Closing the dialog refreshes at most.
LEMMA DirtyRefreshScript == Script(DirtyRefresh)
  BY NothingScript, RefreshScript DEF DirtyRefresh

\* Confirming the settings leaves a script of settings and refresh.
LEMMA ConfirmKeeps == CatalogInv /\ (\E s \in Choices : ConfirmSettings(s)) => CatalogInv'
<1> SUFFICES ASSUME CatalogInv, NEW s \in Choices, ConfirmSettings(s) PROVE CatalogInv'
  OBVIOUS
<1>1. s \in SUBSET Formats
  BY CatalogBoundsAssumption
<1>2. calls' = UpdateSettings(s) \o DirtyRefresh \/ calls' = <<>> \o DirtyRefresh
  BY DEF ConfirmSettings
<1>3. Script(calls')
  BY <1>1, <1>2, UpdateSettingsScript, NothingScript, DirtyRefreshScript, ConcatScript
<1>4. calls = <<>> /\ UNCHANGED <<svc, pc, worker, media, statuses>>
  BY DEF ConfirmSettings, InBooks, Elsewhere2, shared
<1>5. QED
  BY <1>3, <1>4, MediaStill, HandlerKeeps

\* Opening Books leaves a script that activates the catalog.
LEMMA LaunchBooksKeeps == CatalogInv /\ LaunchBooks => CatalogInv'
<1> SUFFICES ASSUME CatalogInv, LaunchBooks PROVE CatalogInv'
  OBVIOUS
<1>1. calls = <<>> /\ UNCHANGED <<svc, pc, worker, media, statuses>>
  BY DEF LaunchBooks, Elsewhere2, shared
<1>2. Script(calls')
  BY <1>1, NothingScript, OpenBooksScript DEF LaunchBooks
<1>3. QED
  BY <1>1, <1>2, MediaStill, HandlerKeeps

\* Leaving Books leaves a script that pauses it.
LEMMA LeaveBooksKeeps == CatalogInv /\ LeaveBooks => CatalogInv'
<1> SUFFICES ASSUME CatalogInv, LeaveBooks PROVE CatalogInv'
  OBVIOUS
<1>1. calls = <<>> /\ UNCHANGED <<svc, pc, worker, media, statuses>>
  BY DEF LeaveBooks, InBooks, Elsewhere2, shared
<1>2. Script(calls')
  BY <1>1, NothingScript, PauseScript DEF LeaveBooks
<1>3. QED
  BY <1>1, <1>2, MediaStill, HandlerKeeps

\* The dialog opens without a call.
LEMMA OpenDialogKeeps == CatalogInv /\ OpenDialog => CatalogInv'
<1> SUFFICES ASSUME CatalogInv, OpenDialog PROVE CatalogInv'
  OBVIOUS
<1>1. calls = <<>> /\ UNCHANGED <<svc, pc, worker, media, statuses>>
  BY DEF OpenDialog, InBooks, Elsewhere2, shared
<1>2. Script(calls')
  BY <1>1, NothingScript DEF OpenDialog
<1>3. QED
  BY <1>1, <1>2, MediaStill, HandlerKeeps

\* Cancelling the dialog refreshes at most.
LEMMA CancelSettingsKeeps == CatalogInv /\ CancelSettings => CatalogInv'
<1> SUFFICES ASSUME CatalogInv, CancelSettings PROVE CatalogInv'
  OBVIOUS
<1>1. calls = <<>> /\ UNCHANGED <<svc, pc, worker, media, statuses>>
  BY DEF CancelSettings, InBooks, Elsewhere2, shared
<1>2. Script(calls')
  BY <1>1, NothingScript, DirtyRefreshScript DEF CancelSettings
<1>3. QED
  BY <1>1, <1>2, MediaStill, HandlerKeeps

\* Back from Reader either opens Books again or calls nothing.
LEMMA LeaveReaderKeeps == CatalogInv /\ LeaveReader => CatalogInv'
<1> SUFFICES ASSUME CatalogInv, LeaveReader PROVE CatalogInv'
  OBVIOUS
<1>1. calls = <<>> /\ UNCHANGED <<svc, pc, worker, media, statuses>>
  BY DEF LeaveReader, Elsewhere2, shared
<1>2. Script(calls')
  BY <1>1, NothingScript, OpenBooksScript DEF LeaveReader
<1>3. QED
  BY <1>1, <1>2, MediaStill, HandlerKeeps

\* A catalog event refreshes at most.
LEMMA TakeEventKeeps == CatalogInv /\ TakeEvent => CatalogInv'
<1> SUFFICES ASSUME CatalogInv, TakeEvent PROVE CatalogInv'
  OBVIOUS
<1>1. calls = <<>> /\ UNCHANGED <<svc, pc, worker, media, statuses>>
  BY DEF TakeEvent, InBooks, Elsewhere2, shared
<1>2. Script(calls')
  BY <1>1, NothingScript, RefreshScript DEF TakeEvent
<1>3. QED
  BY <1>1, <1>2, MediaStill, HandlerKeeps

\* Launching Reader closes Books, which pauses the catalog once more.
LEMMA LaunchReaderKeeps == CatalogInv /\ LaunchReader => CatalogInv'
<1> SUFFICES ASSUME CatalogInv, LaunchReader PROVE CatalogInv'
  OBVIOUS
<1>1. calls = <<>> /\ UNCHANGED <<svc, pc, worker, media, statuses>>
  BY DEF LaunchReader, InBooks, Elsewhere2, shared
<1>2. Script(calls')
  BY <1>1, NothingScript, PauseScript DEF LaunchReader
<1>3. QED
  BY <1>1, <1>2, MediaStill, HandlerKeeps

\* Selecting a book pauses the catalog.
LEMMA SelectBookKeeps == CatalogInv /\ (\E b \in Books : SelectBook(b)) => CatalogInv'
<1> SUFFICES ASSUME CatalogInv, NEW b \in Books, SelectBook(b) PROVE CatalogInv'
  OBVIOUS
<1>1. calls = <<>> /\ UNCHANGED <<svc, pc, worker, media, statuses>>
  BY DEF SelectBook, InBooks, Elsewhere2, shared
<1>2. Script(calls')
  BY <1>1, NothingScript, PauseScript DEF SelectBook
<1>3. QED
  BY <1>1, <1>2, MediaStill, HandlerKeeps

\* FileApp launches Reader without a call.
LEMMA LaunchFromFilesKeeps == CatalogInv /\ (\E b \in Books : LaunchFromFiles(b)) => CatalogInv'
<1> SUFFICES ASSUME CatalogInv, NEW b \in Books, LaunchFromFiles(b) PROVE CatalogInv'
  OBVIOUS
<1>1. calls = <<>> /\ UNCHANGED <<svc, pc, worker, media, statuses>>
  BY DEF LaunchFromFiles, Elsewhere2, shared
<1>2. Script(calls')
  BY <1>1, NothingScript DEF LaunchFromFiles
<1>3. QED
  BY <1>1, <1>2, MediaStill, HandlerKeeps

-----------------------------------------------------------------------------
(* The card, the book worker, and the theorem.                             *)

\* Whoever writes neither the handshake, the worker nor a script keeps the invariant.
LEMMA OthersKeep == CatalogInv /\ UNCHANGED <<svc, pc, worker, calls>> /\ MediaTyped' => CatalogInv'
<1> SUFFICES ASSUME CatalogInv, UNCHANGED <<svc, pc, worker, calls>>, MediaTyped'
             PROVE  CatalogInv'
  OBVIOUS
<1>1. ServiceTyped' /\ WorkerTyped' /\ CallsTyped' /\ Unacknowledged'
  BY DEF CatalogInv, ServiceTyped, WorkerTyped, CallsTyped, Unacknowledged
<1>2. QED
  BY <1>1 DEF CatalogInv

\* One more event in the status queue.
LEMMA AppendStatus ==
    ASSUME NEW q \in Seq(Statuses), NEW s \in Statuses PROVE Append(q, s) \in Seq(Statuses)
  OBVIOUS

\* A card pushed in moves the generation only.
LEMMA InsertCardKeeps == CatalogInv /\ (\E c \in Cards : InsertCard(c)) => CatalogInv'
<1> SUFFICES ASSUME CatalogInv, NEW c \in Cards, InsertCard(c) PROVE CatalogInv'
  OBVIOUS
<1>1. UNCHANGED <<svc, pc, worker, calls>>
  BY DEF InsertCard, shared
<1>2. media.generation + 1 \in Nat
  BY DEF CatalogInv, MediaTyped
<1>3. [state |-> "mounting", generation |-> media.generation + 1] \in Statuses
  BY <1>2 DEF Statuses, States
<1>4. statuses' \in Seq(Statuses)
  BY <1>3, AppendStatus DEF InsertCard, CatalogInv, MediaTyped
<1>5. MediaTyped'
  BY <1>2, <1>4 DEF InsertCard, MediaTyped
<1>6. QED
  BY <1>1, <1>5, OthersKeep

\* A card pulled out moves the generation only.
LEMMA RemoveCardKeeps == CatalogInv /\ RemoveCard => CatalogInv'
<1> SUFFICES ASSUME CatalogInv, RemoveCard PROVE CatalogInv'
  OBVIOUS
<1>1. UNCHANGED <<svc, pc, worker, calls>>
  BY DEF RemoveCard, shared
<1>2. MediaTyped'
  BY DEF RemoveCard, CatalogInv, MediaTyped
<1>3. QED
  BY <1>1, <1>2, OthersKeep

\* The end of a card change queues one status.
LEMMA PublishStateKeeps == CatalogInv /\ PublishState => CatalogInv'
<1> SUFFICES ASSUME CatalogInv, PublishState PROVE CatalogInv'
  OBVIOUS
<1>1. UNCHANGED <<svc, pc, worker, calls>>
  BY DEF PublishState, shared
<1>2. PICK s \in IF media.card = None THEN {"no_card"}
                 ELSE {"ready"} \cup (IF Faults THEN {"error"} ELSE {}) :
         /\ media' = [media EXCEPT !.state = s, !.changing = FALSE]
         /\ statuses' = Append(statuses, [state |-> s, generation |-> media.generation])
  BY DEF PublishState
<1>3. s \in States
  BY <1>2 DEF States
<1>4. [state |-> s, generation |-> media.generation] \in Statuses
  BY <1>3 DEF Statuses, CatalogInv, MediaTyped
<1>5. statuses' \in Seq(Statuses)
  BY <1>2, <1>4, AppendStatus DEF CatalogInv, MediaTyped
<1>6. MediaTyped'
  BY <1>2, <1>5 DEF CatalogInv, MediaTyped
<1>7. QED
  BY <1>1, <1>6, OthersKeep

\* The book worker takes part in no handshake.
LEMMA BookWorkerKeeps == CatalogInv /\ BookWorker => CatalogInv'
<1> SUFFICES ASSUME CatalogInv, BookWorker PROVE CatalogInv'
  OBVIOUS
<1>1. UNCHANGED <<svc, pc, worker, calls, media, statuses>>
  BY DEF BookWorker, TakeOpen, EndBuild, BookElsewhere, shared
<1>2. QED
  BY <1>1, MediaStill, OthersKeep

\* Every step of the program keeps the handshake invariant.
LEMMA CatalogStep == CatalogInv /\ [Next]_vars => CatalogInv'
<1> SUFFICES ASSUME CatalogInv, [Next]_vars PROVE CatalogInv'
  OBVIOUS
<1>1. CASE WorkerStep
  BY <1>1, WorkerKeeps
<1>2. CASE UITask
  BY <1>2, LaunchBooksKeeps, LeaveBooksKeeps, OpenDialogKeeps, CancelSettingsKeeps,
     LeaveReaderKeeps, ConfirmKeeps, SelectBookKeeps, LaunchFromFilesKeeps DEF UITask
<1>3. CASE UILoop
  BY <1>3, MakeCallKeeps, HandleStatusKeeps, TakeEventKeeps, LaunchReaderKeeps DEF UILoop
<1>4. CASE BookWorker
  BY <1>4, BookWorkerKeeps
<1>5. CASE \E c \in Cards : InsertCard(c)
  BY <1>5, InsertCardKeeps
<1>6. CASE RemoveCard
  BY <1>6, RemoveCardKeeps
<1>7. CASE PublishState
  BY <1>7, PublishStateKeeps
<1>8. CASE UNCHANGED vars
  BY <1>8, MediaStill, OthersKeep DEF vars
<1>9. QED
  BY <1>1, <1>2, <1>3, <1>4, <1>5, <1>6, <1>7, <1>8 DEF Next

\* The invariant of the handshake between Books and the worker.
THEOREM CatalogInvariant == Spec => []CatalogInv
<1>1. QED
  BY CatalogInit, CatalogStep, PTL DEF Spec

\* When Books finds the catalog idle the worker is at the top of its loop, having
\* looked at desired_active since the pause: it is in no scan, no save and no build,
\* and enters none before the next activation.
THEOREM CatalogQuietWhenIdle == Spec => []QuietWhenIdle
<1>1. CatalogInv => QuietWhenIdle
  <2> SUFFICES ASSUME CatalogInv, calls = <<>>, Idle PROVE pc \in Idling
    BY DEF QuietWhenIdle
  <2>1. ~Owed(calls)
    BY DEF Owed
  <2>2. ~(svc.acknowledged < svc.activation)
    BY DEF Idle, CatalogInv, ServiceTyped
  <2>3. pc \notin Working
    BY <2>1, <2>2 DEF Idle, CatalogInv, Unacknowledged
  <2>4. QED
    BY <2>3 DEF CatalogInv, WorkerTyped
<1>2. QED
  BY <1>1, CatalogInvariant, PTL

-----------------------------------------------------------------------------
(* What the catalog files hold.  The items the worker publishes are of the *)
(* generation it has adopted; while that is the present one, they are      *)
(* books of the card in the slot, selected by the worker's settings, and   *)
(* a cover that is ready has its cache.  What is written under another     *)
(* generation than the present one goes nowhere.                           *)

Prelude == {"generation", "activation", "serial", "activated"}

\* The media generation g has begun; if it is the present one, its card can be read.
Seen(g) ==
    /\ g \in Nat /\ g <= media.generation
    /\ g = media.generation => media.state = "ready" /\ ~ media.changing

DiskShape == disk = [c \in Cards |-> [catalog |-> disk[c].catalog, cached |-> disk[c].cached]]
SnapshotShape(p) ==
    p = [generation |-> p.generation, revision |-> p.revision, state |-> p.state,
         count |-> p.count, settings |-> p.settings, items |-> p.items]
WorkerShape ==
    /\ worker = [generation |-> worker.generation, activation |-> worker.activation,
                 serial |-> worker.serial, current |-> worker.current,
                 seenActivation |-> worker.seenActivation,
                 seenSerial |-> worker.seenSerial, settings |-> worker.settings,
                 loaded |-> worker.loaded, scan |-> worker.scan,
                 enrich |-> worker.enrich, found |-> worker.found, item |-> worker.item,
                 cover |-> worker.cover, after |-> worker.after]
    /\ worker.after \in {"top", "filtered", "enrich", "finished"}
MediaShape ==
    /\ media = [state |-> media.state, generation |-> media.generation,
                card |-> media.card, changing |-> media.changing]
    /\ media.generation \in Nat
Shapes == DiskShape /\ SnapshotShape(published) /\ WorkerShape /\ MediaShape

CardThere ==
    /\ media.card \in Cards \cup {None}
    /\ media.state = "ready" /\ ~ media.changing => media.card \in Cards

\* Past the prelude the worker is about the generation its items are of.
OneContext == pc \in Working \ Prelude => worker.generation = worker.current

ItemsSound ==
    \A b \in DOMAIN published.items :
        /\ Seen(worker.current)
        /\ worker.current = media.generation =>
              /\ b \in Selected(media.card, worker.settings)
              /\ published.items[b] = "ready" => b \in disk[media.card].cached
FoundSound ==
    pc \in {"populate", "replace"} =>
        \A b \in worker.found :
            /\ Seen(worker.current)
            /\ worker.current = media.generation =>
                  b \in Selected(media.card, worker.settings)
CoverSound ==
    pc = "enriched" /\ worker.cover = "ready" =>
        /\ Seen(worker.current)
        /\ worker.current = media.generation => worker.item \in disk[media.card].cached
SameMedia == pc = "replacing" => MediaValid(worker.generation) /\ ~ media.changing

SoundInv ==
    /\ Shapes /\ CardThere /\ OneContext /\ ItemsSound /\ FoundSound /\ CoverSound
    /\ SameMedia /\ SavedCatalogSound

\* A step that keeps the items, what they are of, and the files.
Quiet ==
    /\ UNCHANGED <<disk, media>> /\ published'.items = published.items
    /\ SnapshotShape(published') /\ WorkerShape'
    /\ worker'.current = worker.current /\ worker'.settings = worker.settings
    /\ pc' \notin {"populate", "replace", "enriched", "replacing"}
    /\ OneContext'

\* It keeps the invariant.
LEMMA QuietKeeps == ASSUME SoundInv, Quiet PROVE SoundInv'
<1> USE DEF SoundInv, Quiet
<1>1. Shapes' /\ CardThere'
  BY DEF Shapes, DiskShape, MediaShape, CardThere
<1>2. \A g : Seen(g)' <=> Seen(g)
  BY DEF Seen
<1>3. ItemsSound'
  BY <1>2 DEF ItemsSound, Selected
<1>4. FoundSound' /\ CoverSound' /\ SameMedia'
  BY DEF FoundSound, CoverSound, SameMedia
<1>5. SavedCatalogSound'
  BY DEF SavedCatalogSound, Selected
<1> QED
  BY <1>1, <1>3, <1>4, <1>5

\* update_state changes neither the items nor the fields there are.
LEMMA UpdateFacts ==
    ASSUME NEW p, SnapshotShape(p), NEW s, UpdateState(p, s)
    PROVE  /\ SnapshotShape(published') /\ published'.items = p.items
           /\ published'.generation = worker.generation /\ published'.state = s
           /\ published'.count = Cardinality(DOMAIN p.items)
<1>1. PICK q : q = [p EXCEPT !.generation = worker.generation, !.state = s,
                             !.count = Cardinality(DOMAIN p.items)]
  OBVIOUS
<1>2. /\ SnapshotShape(q) /\ q.items = p.items /\ q.generation = worker.generation
      /\ q.state = s /\ q.count = Cardinality(DOMAIN p.items)
  BY <1>1 DEF SnapshotShape
<1>3. PICK r : r = [q EXCEPT !.revision = @ + 1]
  OBVIOUS
<1>4. /\ SnapshotShape(r) /\ r.items = p.items /\ r.generation = worker.generation
      /\ r.state = s /\ r.count = Cardinality(DOMAIN p.items)
  BY <1>2, <1>3 DEF SnapshotShape
<1>5. StateUpdate(p, s) = IF q = p THEN p ELSE r
  BY <1>1, <1>3 DEF StateUpdate
<1>6. published' = StateUpdate(p, s)
  BY DEF UpdateState, Announce
<1>7. published' = q \/ published' = r
  BY <1>5, <1>6
<1> QED
  BY <1>2, <1>4, <1>7

\* Most steps of the worker are quiet.
LEMMA QuietSteps ==
    ASSUME SoundInv,
           \/ SeeActive \/ Acknowledge \/ ReadContext \/ StartLoading \/ AdoptSettings
           \/ PublishLoaded \/ Loaded \/ SettingsSaved \/ SaveFails \/ NoMedia \/ StartScan
           \/ NothingToDo \/ AbandonScan \/ ScanFails \/ AbandonEpub \/ SaveCovers
           \/ FinishCatalog
    PROVE  Quiet
<1> USE DEF SoundInv, Shapes, OneContext, Go, Elsewhere, Working, Prelude
<1>0. SnapshotShape(published) /\ WorkerShape
  OBVIOUS
<1>1. CASE SeeActive
  BY <1>0, <1>1 DEF SeeActive, Quiet, Silent, WorkerShape
<1>2. CASE Acknowledge
  BY <1>0, <1>2 DEF Acknowledge, Quiet, Silent, WorkerShape
<1>3. CASE ReadContext
  BY <1>0, <1>3 DEF ReadContext, Quiet, Silent, WorkerShape
<1>4. CASE StartLoading
  <2>1. SnapshotShape(published') /\ published'.items = published.items
    BY <1>0, <1>4, UpdateFacts DEF StartLoading, Silent
  <2> QED
    BY <1>0, <1>4, <2>1 DEF StartLoading, Quiet, WorkerShape
<1>5. CASE AdoptSettings
  BY <1>0, <1>5 DEF AdoptSettings, Quiet, Silent, WorkerShape
<1>6. CASE PublishLoaded
  <2>1. PICK p : p = [published EXCEPT !.settings = worker.settings]
    OBVIOUS
  <2>2. SnapshotShape(p) /\ p.items = published.items
    BY <1>0, <2>1 DEF SnapshotShape
  <2>3. \E s : UpdateState(p, s)
    BY <1>6, <2>1 DEF PublishLoaded
  <2>4. SnapshotShape(published') /\ published'.items = published.items
    BY <2>2, <2>3, UpdateFacts
  <2> QED
    BY <1>0, <1>6, <2>4 DEF PublishLoaded, Quiet, WorkerShape
<1>7. CASE Loaded
  BY <1>0, <1>7 DEF Loaded, Quiet, Silent, WorkerShape
<1>8. CASE SettingsSaved
  <2>1. SnapshotShape(published') /\ published'.items = published.items
    BY <1>0, <1>8, UpdateFacts DEF SettingsSaved, Silent
  <2> QED
    BY <1>0, <1>8, <2>1 DEF SettingsSaved, Quiet, WorkerShape
<1>9. CASE SaveFails
  BY <1>0, <1>9 DEF SaveFails, Quiet, Silent, WorkerShape
<1>10. CASE NoMedia
  <2>1. SnapshotShape(published') /\ published'.items = published.items
    BY <1>0, <1>10, UpdateFacts DEF NoMedia, SameSettings, Silent
  <2> QED
    BY <1>0, <1>10, <2>1 DEF NoMedia, SameSettings, Quiet, WorkerShape
<1>11. CASE StartScan
  <2>1. SnapshotShape(published') /\ published'.items = published.items
    BY <1>0, <1>11, UpdateFacts DEF StartScan, SameSettings, Silent
  <2> QED
    BY <1>0, <1>11, <2>1 DEF StartScan, SameSettings, Quiet, WorkerShape
<1>12. CASE NothingToDo
  BY <1>0, <1>12 DEF NothingToDo, SameSettings, Quiet, Silent, WorkerShape
<1>13. CASE AbandonScan
  BY <1>0, <1>13 DEF AbandonScan, Quiet, Silent, WorkerShape
<1>14. CASE ScanFails
  <2>1. SnapshotShape(published') /\ published'.items = published.items
    BY <1>0, <1>14, UpdateFacts DEF ScanFails, Silent
  <2> QED
    BY <1>0, <1>14, <2>1 DEF ScanFails, Quiet, WorkerShape
<1>15. CASE AbandonEpub
  BY <1>0, <1>15 DEF AbandonEpub, Quiet, Silent, WorkerShape
<1>16. CASE SaveCovers
  BY <1>0, <1>16 DEF SaveCovers, Quiet, Silent, WorkerShape
<1>17. CASE FinishCatalog
  <2>1. SnapshotShape(published') /\ published'.items = published.items
    BY <1>0, <1>17, UpdateFacts DEF FinishCatalog, Silent
  <2> QED
    BY <1>0, <1>17, <2>1 DEF FinishCatalog, Quiet, WorkerShape
<1> QED
  BY <1>1, <1>2, <1>3, <1>4, <1>5, <1>6, <1>7, <1>8, <1>9, <1>10, <1>11, <1>12, <1>13, <1>14,
     <1>15, <1>16, <1>17

\* A step of the UI task, and most of the book worker's, keeps all this.
LEMMA StillSound ==
    ASSUME SoundInv, UNCHANGED <<disk, media, published, pc, worker>> PROVE SoundInv'
<1> USE DEF SoundInv
<1>1. Shapes' /\ CardThere' /\ OneContext'
  BY DEF Shapes, DiskShape, MediaShape, WorkerShape, SnapshotShape, CardThere, OneContext
<1>2. \A g : Seen(g)' <=> Seen(g)
  BY DEF Seen
<1>3. ItemsSound' /\ FoundSound' /\ CoverSound'
  BY <1>2 DEF ItemsSound, FoundSound, CoverSound, Selected
<1>4. SameMedia' /\ SavedCatalogSound'
  BY DEF SameMedia, MediaValid, SavedCatalogSound, Selected
<1> QED
  BY <1>1, <1>3, <1>4

\* A card that leaves: whatever was made from it is of an older generation.
LEMMA RemovalFacts ==
    ASSUME MediaShape, RemoveCard
    PROVE  /\ UNCHANGED <<disk, published, pc, worker>> /\ pc # "replacing"
           /\ MediaShape' /\ media'.generation = media.generation + 1
           /\ media'.changing = TRUE /\ media'.card = None
<1>1. PICK g : g = media.generation + 1
  OBVIOUS
<1>2. media' = [media EXCEPT !.generation = g, !.card = None, !.changing = TRUE]
  BY <1>1 DEF RemoveCard
<1>3. g \in Nat
  BY <1>1 DEF MediaShape
<1>4. MediaShape' /\ media'.generation = g /\ media'.changing = TRUE /\ media'.card = None
  BY <1>2, <1>3 DEF MediaShape
<1> QED
  BY <1>1, <1>4 DEF RemoveCard, Exchangeable

\* A card comes or goes: what the worker knows is of an earlier generation.
LEMMA ExchangeSound ==
    ASSUME SoundInv, RemoveCard \/ \E c \in Cards : InsertCard(c) PROVE SoundInv'
<1> USE DEF SoundInv, Shapes
<1>1. /\ UNCHANGED <<disk, published, pc, worker>>
      /\ MediaShape' /\ media'.generation = media.generation + 1
      /\ media'.changing = TRUE /\ media'.card \in Cards \cup {None}
      /\ pc # "replacing"
  <2>1. CASE RemoveCard
    BY <2>1, RemovalFacts
  <2>2. CASE \E c \in Cards : InsertCard(c)
    BY <2>2 DEF InsertCard, MediaShape, Exchangeable
  <2> QED
    BY <2>1, <2>2
<1>2. Shapes' /\ CardThere' /\ OneContext' /\ SameMedia'
  BY <1>1 DEF DiskShape, WorkerShape, SnapshotShape, CardThere, OneContext, SameMedia
<1>3. \A g : Seen(g) => Seen(g)' /\ g # media'.generation
  BY <1>1 DEF Seen, MediaShape
<1>4. ItemsSound' /\ FoundSound' /\ CoverSound'
  BY <1>1, <1>3 DEF ItemsSound, FoundSound, CoverSound
<1>5. SavedCatalogSound'
  BY <1>1 DEF SavedCatalogSound, Selected
<1> QED
  BY <1>2, <1>4, <1>5

\* The state of the new card is published: nobody knows anything of it yet.
LEMMA PublishSound == ASSUME SoundInv, PublishState PROVE SoundInv'
<1> USE DEF SoundInv, Shapes
<1>1. /\ UNCHANGED <<disk, published, pc, worker>> /\ media.changing
      /\ MediaShape' /\ media'.generation = media.generation /\ media'.card = media.card
      /\ ~ media'.changing /\ CardThere'
  <2>1. PICK s \in IF media.card = None THEN {"no_card"}
                   ELSE {"ready"} \cup (IF Faults THEN {"error"} ELSE {}) :
            media' = [media EXCEPT !.state = s, !.changing = FALSE]
    BY DEF PublishState
  <2>2. s = "ready" => media.card # None
    BY <2>1
  <2>3. media.card \in Cards \cup {None}
    BY DEF CardThere
  <2> QED
    BY <2>1, <2>2, <2>3 DEF PublishState, MediaShape, CardThere
<1>2. Shapes' /\ OneContext' /\ SameMedia'
  BY <1>1 DEF DiskShape, WorkerShape, SnapshotShape, OneContext, SameMedia
<1>3. \A g : Seen(g) => Seen(g)' /\ g # media.generation
  BY <1>1 DEF Seen, MediaShape
<1>4. ItemsSound' /\ FoundSound' /\ CoverSound'
  BY <1>1, <1>3 DEF ItemsSound, FoundSound, CoverSound
<1>5. SavedCatalogSound'
  BY <1>1 DEF SavedCatalogSound, Selected
<1> QED
  BY <1>1, <1>2, <1>4, <1>5

\* A cache more on the card in the slot.
LEMMA CacheFacts ==
    ASSUME DiskShape, NEW b, NEW d \in Cards \cup {media.card},
           disk' = [disk EXCEPT ![d].cached = @ \cup {b}]
    PROVE  /\ DiskShape'
           /\ \A c \in Cards : /\ disk'[c].catalog = disk[c].catalog
                               /\ disk[c].cached \subseteq disk'[c].cached
           /\ d \in Cards => b \in disk'[d].cached
<1>1. PICK o : o = disk[d]
  OBVIOUS
<1>2. PICK e : e = [o EXCEPT !.cached = @ \cup {b}]
  OBVIOUS
<1>3. disk' = [disk EXCEPT ![d] = e]
  BY <1>1, <1>2
<1>4. d \in Cards => /\ e = [catalog |-> e.catalog, cached |-> e.cached]
                     /\ e.catalog = o.catalog /\ e.cached = o.cached \cup {b}
  BY <1>1, <1>2 DEF DiskShape
<1>5. /\ disk' = [c \in Cards |-> disk'[c]]
      /\ \A c \in Cards : disk'[c] = IF c = d THEN e ELSE disk[c]
  BY <1>3 DEF DiskShape
<1>6. \A c \in Cards : /\ disk'[c] = [catalog |-> disk'[c].catalog, cached |-> disk'[c].cached]
                       /\ disk'[c].catalog = disk[c].catalog
                       /\ disk[c].cached \subseteq disk'[c].cached
  BY <1>1, <1>4, <1>5 DEF DiskShape
<1>7. DiskShape'
  BY <1>5, <1>6 DEF DiskShape
<1> QED
  BY <1>4, <1>5, <1>6, <1>7

\* The scan ends: the list is published or, of another card, dropped.
LEMMA EndBuildSound == ASSUME SoundInv, EndBuild PROVE SoundInv'
<1>1. CASE UNCHANGED disk
  BY <1>1, StillSound DEF EndBuild, BookElsewhere
<1>2. CASE disk' = [disk EXCEPT ![media.card].cached = @ \cup {building.book}]
  <2> USE DEF SoundInv, Shapes
  <2>1. /\ DiskShape'
        /\ \A c \in Cards : /\ disk'[c].catalog = disk[c].catalog
                            /\ disk[c].cached \subseteq disk'[c].cached
    BY <1>2, CacheFacts
  <2>2. UNCHANGED <<media, published, pc, worker>>
    BY DEF EndBuild, BookElsewhere
  <2>3. Shapes' /\ CardThere' /\ OneContext' /\ SameMedia'
    BY <2>1, <2>2 DEF MediaShape, WorkerShape, SnapshotShape, CardThere, OneContext,
       SameMedia, MediaValid
  <2>4. \A g : (Seen(g)' <=> Seen(g)) /\ (Seen(g) /\ g = media.generation => media.card \in Cards)
    BY <2>2 DEF Seen, CardThere
  <2>5. ItemsSound'
    BY <2>1, <2>2, <2>4 DEF ItemsSound, Selected
  <2>6. FoundSound' /\ CoverSound'
    BY <2>1, <2>2, <2>4 DEF FoundSound, CoverSound, Selected
  <2>7. SavedCatalogSound'
    BY <2>1 DEF SavedCatalogSound, Selected
  <2> QED
    BY <2>3, <2>5, <2>6, <2>7
<1> QED
  BY <1>1, <1>2 DEF EndBuild

\* A step of the worker that leaves the card as it is.
Settles == UNCHANGED <<disk, media>> /\ pc' # "replacing"

\* What is to be shown of it.
LEMMA SettlesSound ==
    ASSUME SoundInv, Settles, SnapshotShape(published'), WorkerShape', OneContext',
           ItemsSound', FoundSound', CoverSound'
    PROVE  SoundInv'
<1>1. DiskShape' /\ MediaShape' /\ CardThere'
  BY DEF SoundInv, Settles, Shapes, DiskShape, MediaShape, CardThere
<1>2. SavedCatalogSound' /\ SameMedia'
  BY DEF SoundInv, Settles, SavedCatalogSound, Selected, SameMedia
<1> QED
  BY <1>1, <1>2 DEF SoundInv, Shapes

\* Where the worker has its context, a readable card of its generation is the present one.
LEMMA SeenHere ==
    ASSUME SoundInv, pc \in Working \ Prelude, MediaValid(worker.generation), GateOpen
    PROVE  /\ worker.current = worker.generation /\ worker.current = media.generation
           /\ Seen(worker.current) /\ media.card \in Cards
  BY DEF SoundInv, Shapes, MediaShape, CardThere, OneContext, MediaValid, GateOpen, Seen

\* The worker takes up the card it was told of; of another one nothing is kept.
LEMMA AdoptContextSound == ASSUME SoundInv, AdoptContext PROVE SoundInv'
<1>1. WorkerShape /\ SnapshotShape(published)
  BY DEF SoundInv, Shapes
<1>2. UNCHANGED <<disk, media>> /\ pc' \in {"settings", "load"}
  BY DEF AdoptContext, Go, Elsewhere
<1>3. CASE /\ worker' = [worker EXCEPT !.seenActivation = worker.activation,
                  !.current = worker.generation, !.loaded = FALSE, !.scan = FALSE,
                  !.enrich = FALSE]
           /\ published' = EmptyItems(published)
  <2>1. WorkerShape' /\ worker'.current = worker'.generation
    BY <1>1, <1>3 DEF WorkerShape
  <2>2. SnapshotShape(published') /\ DOMAIN published'.items = {}
    BY <1>1, <1>3 DEF SnapshotShape, EmptyItems, NoItems
  <2>3. OneContext' /\ ItemsSound' /\ FoundSound' /\ CoverSound'
    BY <1>2, <2>1, <2>2 DEF OneContext, ItemsSound, FoundSound, CoverSound
  <2> QED
    BY <1>2, <2>1, <2>2, <2>3, SettlesSound DEF Settles
<1>4. CASE /\ worker.generation = worker.current
           /\ worker' = [worker EXCEPT !.seenActivation = worker.activation,
                                       !.loaded = worker.loaded /\ ~Reload]
           /\ UNCHANGED published
  <2>1. WorkerShape' /\ worker'.current = worker.current
        /\ worker'.generation = worker.generation /\ worker'.settings = worker.settings
    <3>1. PICK l : l = (worker.loaded /\ ~Reload)
      OBVIOUS
    <3> QED
      BY <1>1, <1>4, <3>1 DEF WorkerShape
  <2> QED
    BY <1>1, <1>2, <1>4, <2>1, QuietKeeps DEF Quiet, OneContext
<1> QED
  BY <1>3, <1>4 DEF AdoptContext

\* The worker checks its card and takes the default settings until the catalog is read.
LEMMA CheckMediaSound == ASSUME SoundInv, CheckMedia PROVE SoundInv'
<1>1. WorkerShape /\ SnapshotShape(published)
  BY DEF SoundInv, Shapes
<1>2. /\ UNCHANGED <<disk, media>> /\ pc' \in {"read", "adopt"}
      /\ pc \in Working \ Prelude
  BY DEF CheckMedia, Go, Elsewhere, Working, Prelude
<1>3. WorkerShape' /\ worker'.current = worker.current
      /\ worker'.generation = worker.generation
  BY <1>1 DEF CheckMedia, WorkerShape
<1>4. OneContext' /\ FoundSound' /\ CoverSound'
  BY <1>2, <1>3 DEF SoundInv, OneContext, FoundSound, CoverSound
<1>5. SnapshotShape(published') /\ ItemsSound'
  <2>1. CASE published' = EmptyItems(published)
    <3>1. SnapshotShape(published') /\ DOMAIN published'.items = {}
      BY <1>1, <2>1 DEF SnapshotShape, EmptyItems, NoItems
    <3> QED
      BY <3>1 DEF ItemsSound
  <2>2. CASE ~ MediaValid(worker.generation) /\ UNCHANGED published
    <3>1. \A b \in DOMAIN published.items :
              Seen(worker.current) /\ worker.current # media.generation
      BY <1>2, <2>2 DEF SoundInv, ItemsSound, Seen, OneContext, MediaValid
    <3> QED
      BY <1>1, <1>2, <1>3, <2>2, <3>1 DEF ItemsSound, Seen
  <2> QED
    BY <2>1, <2>2 DEF CheckMedia
<1> QED
  BY <1>2, <1>3, <1>4, <1>5, SettlesSound DEF Settles

\* A catalog that is loaded is the one that was saved for this card.
LEMMA LoadCatalogSound == ASSUME SoundInv, LoadCatalog PROVE SoundInv'
<1>1. WorkerShape /\ SnapshotShape(published)
  BY DEF SoundInv, Shapes
<1>2. /\ UNCHANGED <<disk, media>> /\ pc' = "adopt"
      /\ pc \in Working \ Prelude /\ GateOpen
  BY DEF LoadCatalog, Go, Elsewhere, Working, Prelude
<1>3. CASE UNCHANGED <<worker, published>>
  BY <1>1, <1>2, <1>3, QuietKeeps DEF Quiet, SoundInv, OneContext, WorkerShape
<1>4. CASE /\ MediaValid(worker.generation) /\ disk[media.card].catalog # None
           /\ worker' = [worker EXCEPT !.settings = disk[media.card].catalog.settings]
           /\ published' = [published EXCEPT !.items = disk[media.card].catalog.items]
  <2>1. PICK saved : saved = disk[media.card].catalog
    OBVIOUS
  <2>2. /\ WorkerShape' /\ worker'.current = worker.current
        /\ worker'.generation = worker.generation /\ worker'.settings = saved.settings
        /\ SnapshotShape(published') /\ published'.items = saved.items
    BY <1>1, <1>4, <2>1 DEF WorkerShape, SnapshotShape
  <2>3. OneContext' /\ FoundSound' /\ CoverSound'
    BY <1>2, <2>2 DEF SoundInv, OneContext, FoundSound, CoverSound
  <2>4. /\ Seen(worker.current) /\ worker.current = media.generation
        /\ media.card \in Cards
    BY <1>2, <1>4, SeenHere
  <2>5. \A b \in DOMAIN saved.items :
           /\ b \in Selected(media.card, saved.settings)
           /\ saved.items[b] = "ready" => b \in disk[media.card].cached
    BY <1>4, <2>1, <2>4 DEF SoundInv, SavedCatalogSound
  <2>6. ItemsSound'
    BY <1>2, <2>2, <2>4, <2>5 DEF ItemsSound, Seen, Selected
  <2> QED
    BY <1>2, <2>2, <2>3, <2>6, SettlesSound DEF Settles
<1> QED
  BY <1>3, <1>4 DEF LoadCatalog

\* The settings change, and the list is filtered by them.
LEMMA ChangeSettingsSound == ASSUME SoundInv, ChangeSettings PROVE SoundInv'
<1>1. WorkerShape /\ SnapshotShape(published)
  BY DEF SoundInv, Shapes
<1>2. /\ UNCHANGED <<disk, media>> /\ pc' = "save"
      /\ pc \in Working \ Prelude
  BY DEF ChangeSettings, Go, Elsewhere, Working, Prelude
<1>3. /\ WorkerShape' /\ worker'.current = worker.current
      /\ worker'.generation = worker.generation /\ worker'.settings = desired.bits
  BY <1>1 DEF ChangeSettings, WorkerShape
<1>4. PICK items : items = Filter(published.items, desired.bits)
  OBVIOUS
<1>5. SnapshotShape(published') /\ published'.items = items
  <2>1. PICK n : n = published.revision + 1
    OBVIOUS
  <2>2. PICK k : k = Cardinality(DOMAIN items)
    OBVIOUS
  <2>3. published' = [published EXCEPT !.items = items, !.count = k,
                          !.settings = desired.bits, !.revision = n]
    BY <1>4, <2>1, <2>2 DEF ChangeSettings, Announce, Filtered
  <2> QED
    BY <1>1, <2>3 DEF SnapshotShape
<1>6. \A b \in DOMAIN items : /\ b \in DOMAIN published.items
                              /\ Format(b) \in desired.bits
                              /\ items[b] = published.items[b]
  BY <1>4 DEF Filter
<1>7. OneContext' /\ FoundSound' /\ CoverSound'
  BY <1>2, <1>3 DEF SoundInv, OneContext, FoundSound, CoverSound
<1>8. ItemsSound'
  BY <1>2, <1>3, <1>5, <1>6 DEF SoundInv, ItemsSound, Seen, Selected
<1> QED
  BY <1>2, <1>3, <1>5, <1>7, <1>8, SettlesSound DEF Settles

\* The catalog file of a card is removed or written.
WritesFile(d, v) == disk' = [disk EXCEPT ![d].catalog = v]

\* The catalog file is written on one card and the covers are left alone.
LEMMA FileFacts ==
    ASSUME DiskShape, NEW v, NEW d, WritesFile(d, v)
    PROVE  /\ DiskShape'
           /\ \A c \in Cards : /\ disk'[c].cached = disk[c].cached
                               /\ disk'[c].catalog = IF c = d THEN v ELSE disk[c].catalog
<1>1. PICK o : o = disk[d]
  OBVIOUS
<1>2. PICK e : e = [o EXCEPT !.catalog = v]
  OBVIOUS
<1>3. disk' = [disk EXCEPT ![d] = e]
  BY <1>1, <1>2 DEF WritesFile
<1>4. d \in Cards => /\ e = [catalog |-> e.catalog, cached |-> e.cached]
                     /\ e.catalog = v /\ e.cached = o.cached
  BY <1>1, <1>2 DEF DiskShape
<1>5. /\ disk' = [c \in Cards |-> disk'[c]]
      /\ \A c \in Cards : disk'[c] = IF c = d THEN e ELSE disk[c]
  BY <1>3 DEF DiskShape
<1>6. \A c \in Cards :
         /\ disk'[c] = [catalog |-> disk'[c].catalog, cached |-> disk'[c].cached]
         /\ disk'[c].cached = disk[c].cached
         /\ disk'[c].catalog = IF c = d THEN v ELSE disk[c].catalog
  BY <1>1, <1>4, <1>5 DEF DiskShape
<1>7. DiskShape'
  BY <1>5, <1>6 DEF DiskShape
<1> QED
  BY <1>6, <1>7

\* What save_catalog does to the card leaves what is known of the items.
LEMMA FileSound ==
    ASSUME SoundInv, UNCHANGED <<media, published, worker>>, DiskShape',
           \A c \in Cards : disk'[c].cached = disk[c].cached,
           pc \in Working \ Prelude, pc' \notin {"populate", "replace", "enriched"},
           SameMedia', SavedCatalogSound'
    PROVE  SoundInv'
<1>1. Shapes' /\ CardThere' /\ OneContext'
  BY DEF SoundInv, Shapes, SnapshotShape, WorkerShape, MediaShape, CardThere, OneContext
<1>2. \A g : (Seen(g)' <=> Seen(g))
             /\ (Seen(g) /\ g = media.generation => media.card \in Cards)
  BY DEF SoundInv, Seen, CardThere
<1>3. ItemsSound'
  BY <1>2 DEF SoundInv, ItemsSound, Selected
<1>4. FoundSound' /\ CoverSound'
  BY DEF FoundSound, CoverSound
<1> QED
  BY <1>1, <1>3, <1>4 DEF SoundInv

\* Saving removes the old catalog before the new one gets its name.
LEMMA SaveSound == ASSUME SoundInv, RemoveCatalog \/ RenameCatalog PROVE SoundInv'
<1>1. DiskShape /\ UNCHANGED <<media, published, worker>> /\ pc \in Working \ Prelude
      /\ worker.after \in {"top", "filtered", "enrich", "finished"}
  BY DEF SoundInv, Shapes, WorkerShape, RemoveCatalog, RenameCatalog, Elsewhere, Silent,
     Working, Prelude
<1>2. CASE RemoveCatalog
  <2>1. DiskShape' /\ \A c \in Cards :
            /\ disk'[c].cached = disk[c].cached
            /\ disk'[c].catalog = IF c = media.card THEN None ELSE disk[c].catalog
    <3>1. WritesFile(media.card, None)
      BY <1>2 DEF RemoveCatalog, WritesFile
    <3> QED
      BY <1>1, <3>1, FileFacts
  <2>2. SameMedia' /\ pc' = "replacing"
    BY <1>1, <1>2 DEF RemoveCatalog, Go, Reachable, GateOpen, SameMedia, MediaValid
  <2>3. SavedCatalogSound'
    BY <2>1 DEF SoundInv, SavedCatalogSound, Selected
  <2> QED
    BY <1>1, <2>1, <2>2, <2>3, FileSound
<1>3. CASE RenameCatalog
  <2>1. PICK v : v = [settings |-> worker.settings, items |-> published.items]
    OBVIOUS
  <2>2. DiskShape' /\ \A c \in Cards :
            /\ disk'[c].cached = disk[c].cached
            /\ disk'[c].catalog = IF c = media.card THEN v ELSE disk[c].catalog
    <3>1. WritesFile(media.card, v)
      BY <1>3, <2>1 DEF RenameCatalog, WritesFile
    <3> QED
      BY <1>1, <3>1, FileFacts
  <2>3. SameMedia' /\ pc' = worker.after
    BY <1>1, <1>3 DEF RenameCatalog, Go, SameMedia
  <2>4. worker.current = media.generation /\ media.card \in Cards
    <3>1. MediaValid(worker.generation) /\ GateOpen
      BY <1>3 DEF RenameCatalog, SoundInv, SameMedia, GateOpen
    <3> QED
      BY <1>1, <3>1, SeenHere
  <2>5. \A b \in DOMAIN v.items :
           /\ b \in Selected(media.card, v.settings)
           /\ v.items[b] = "ready" => b \in disk[media.card].cached
    BY <2>1, <2>4 DEF SoundInv, ItemsSound
  <2>6. SavedCatalogSound'
    BY <2>2, <2>5 DEF SoundInv, SavedCatalogSound, Selected
  <2> QED
    BY <1>1, <2>2, <2>3, <2>6, FileSound
<1> QED
  BY <1>2, <1>3

\* The folders are listed and the list is filled with what they hold.
LEMMA ScanSound ==
    ASSUME SoundInv, ListDirectories \/ PopulateItems PROVE SoundInv'
<1>1. WorkerShape /\ SnapshotShape(published)
  BY DEF SoundInv, Shapes
<1>2. UNCHANGED <<disk, media, published>> /\ pc \in Working \ Prelude /\ GateOpen
      /\ pc' \in {"populate", "replace"}
  BY DEF ListDirectories, PopulateItems, Reachable, Go, Elsewhere, Silent, Working, Prelude
<1>3. PICK found : worker' = [worker EXCEPT !.found = found]
  BY DEF ListDirectories, PopulateItems
<1>4. /\ WorkerShape' /\ worker'.current = worker.current /\ worker'.found = found
      /\ worker'.generation = worker.generation /\ worker'.settings = worker.settings
  BY <1>1, <1>3 DEF WorkerShape
<1>5. OneContext' /\ CoverSound' /\ ItemsSound'
  BY <1>2, <1>4 DEF SoundInv, OneContext, CoverSound, ItemsSound, Seen, Selected
<1>6. FoundSound'
  <2>1. CASE ListDirectories
    <3>1. found = Selected(media.card, worker.settings)
          /\ MediaValid(worker.generation)
      BY <1>1, <1>4, <2>1 DEF ListDirectories, WorkerShape, Reachable
    <3>2. Seen(worker.current)
      BY <1>2, <3>1, SeenHere
    <3> QED
      BY <1>2, <1>4, <3>1, <3>2 DEF FoundSound, Seen, Selected
  <2>2. CASE PopulateItems
    <3>1. found \subseteq worker.found /\ pc = "populate"
      BY <1>1, <1>4, <2>2 DEF PopulateItems, WorkerShape
    <3> QED
      BY <1>2, <1>4, <3>1 DEF SoundInv, FoundSound, Seen, Selected
  <2> QED
    BY <2>1, <2>2
<1>7. SnapshotShape(published') /\ pc' # "replacing"
  BY <1>1, <1>2
<1> QED
  BY <1>2, <1>4, <1>5, <1>6, <1>7, SettlesSound DEF Settles

\* The list that was scanned takes the place of the one that was shown.
LEMMA ReplaceSound == ASSUME SoundInv, ReplaceCatalog PROVE SoundInv'
<1>1. WorkerShape /\ SnapshotShape(published)
  BY DEF SoundInv, Shapes
<1>2. UNCHANGED <<disk, media>> /\ pc = "replace" /\ pc \in Working \ Prelude /\ pc' = "save"
  BY DEF ReplaceCatalog, Go, Elsewhere, Working, Prelude
<1>3. /\ WorkerShape' /\ worker'.current = worker.current
      /\ worker'.generation = worker.generation /\ worker'.settings = worker.settings
  BY <1>1 DEF ReplaceCatalog, WorkerShape
<1>4. PICK items : items = [b \in worker.found |-> IF b \in Epubs THEN "pending" ELSE "none"]
  OBVIOUS
<1>5. SnapshotShape(published') /\ published'.items = items
  <2>1. PICK n : n = published.revision + 1
    OBVIOUS
  <2>2. PICK k : k = Cardinality(worker.found)
    OBVIOUS
  <2>3. published' = [published EXCEPT !.generation = worker.generation, !.items = items,
                          !.count = k, !.settings = worker.settings,
                          !.state = "enriching", !.revision = n]
    BY <1>4, <2>1, <2>2 DEF ReplaceCatalog, Announce
  <2> QED
    BY <1>1, <2>3 DEF SnapshotShape
<1>6. DOMAIN items = worker.found /\ \A b \in worker.found : items[b] # "ready"
  BY <1>4
<1>7. OneContext' /\ FoundSound' /\ CoverSound'
  BY <1>2, <1>3 DEF SoundInv, OneContext, FoundSound, CoverSound
<1>8. ItemsSound'
  BY <1>2, <1>3, <1>5, <1>6 DEF SoundInv, FoundSound, ItemsSound, Seen, Selected
<1> QED
  BY <1>2, <1>3, <1>5, <1>7, <1>8, SettlesSound DEF Settles

\* The next book without a cover is opened.
LEMMA OpenEpubSound == ASSUME SoundInv, OpenEpub PROVE SoundInv'
<1>1. WorkerShape /\ SnapshotShape(published)
  BY DEF SoundInv, Shapes
<1>2. /\ UNCHANGED <<disk, media, published>> /\ pc \in Working \ Prelude /\ GateOpen
      /\ pc' \in {"enriched", "build"}
  BY DEF OpenEpub, Go, Elsewhere, Silent, Working, Prelude
<1>3. PICK b \in Pending :
          \/ /\ MediaValid(worker.generation) /\ b \in disk[media.card].cached
             /\ worker' = [worker EXCEPT !.item = b, !.cover = "ready"]
          \/ /\ worker' = [worker EXCEPT !.item = b] /\ pc' = "build"
          \/ /\ worker' = [worker EXCEPT !.item = b, !.cover = "unavailable"]
  BY DEF OpenEpub, Go
<1>4. /\ WorkerShape' /\ worker'.current = worker.current /\ worker'.item = b
      /\ worker'.generation = worker.generation /\ worker'.settings = worker.settings
      /\ pc' = "enriched" /\ worker'.cover = "ready" =>
             MediaValid(worker.generation) /\ b \in disk[media.card].cached
  BY <1>1, <1>3 DEF WorkerShape
<1>5. OneContext' /\ FoundSound' /\ ItemsSound'
  BY <1>2, <1>4 DEF SoundInv, OneContext, FoundSound, ItemsSound, Seen, Selected
<1>6. CoverSound'
  <2>1. MediaValid(worker.generation) => Seen(worker.current)
    BY <1>2, SeenHere
  <2> QED
    BY <1>2, <1>4, <2>1 DEF CoverSound, Seen
<1>7. SnapshotShape(published') /\ pc' # "replacing"
  BY <1>1, <1>2
<1> QED
  BY <1>2, <1>4, <1>5, <1>6, <1>7, SettlesSound DEF Settles

\* Its cover is built and put in the cache.
LEMMA BuildEpubSound == ASSUME SoundInv, BuildEpub PROVE SoundInv'
<1>1. WorkerShape /\ SnapshotShape(published) /\ DiskShape
  BY DEF SoundInv, Shapes
<1>2. /\ UNCHANGED <<media, published>> /\ pc \in Working \ Prelude /\ GateOpen
      /\ pc' = "enriched"
  BY DEF BuildEpub, Go, Elsewhere, Silent, Working, Prelude
<1>3. /\ WorkerShape' /\ worker'.current = worker.current /\ worker'.item = worker.item
      /\ worker'.generation = worker.generation /\ worker'.settings = worker.settings
  BY <1>1 DEF BuildEpub, WorkerShape
<1>4. SnapshotShape(published') /\ OneContext' /\ FoundSound'
  BY <1>1, <1>2, <1>3 DEF SoundInv, OneContext, FoundSound
<1>5. CASE worker' = [worker EXCEPT !.cover = "unavailable"] /\ UNCHANGED disk
  <2>1. ItemsSound'
    BY <1>2, <1>3, <1>5 DEF SoundInv, ItemsSound, Seen, Selected
  <2>2. CoverSound'
    BY <1>1, <1>5 DEF CoverSound, WorkerShape
  <2> QED
    BY <1>2, <1>3, <1>4, <1>5, <2>1, <2>2, SettlesSound DEF Settles
<1>6. CASE /\ MediaValid(worker.generation)
           /\ disk' = [disk EXCEPT ![media.card].cached = @ \cup {worker.item}]
  <2>1. Seen(worker.current) /\ media.card \in Cards
    BY <1>2, <1>6, SeenHere
  <2>2. /\ DiskShape' /\ worker.item \in disk'[media.card].cached
        /\ \A c \in Cards : /\ disk'[c].catalog = disk[c].catalog
                            /\ disk[c].cached \subseteq disk'[c].cached
    BY <1>1, <1>6, <2>1, CacheFacts
  <2>3. ItemsSound' /\ CoverSound'
    BY <1>2, <1>3, <2>1, <2>2 DEF SoundInv, ItemsSound, CoverSound, Seen, Selected
  <2>4. SavedCatalogSound' /\ SameMedia'
    BY <1>2, <2>2 DEF SoundInv, SavedCatalogSound, Selected, SameMedia
  <2>5. MediaShape' /\ CardThere'
    BY <1>2 DEF SoundInv, Shapes, MediaShape, CardThere
  <2> QED
    BY <1>3, <1>4, <2>2, <2>3, <2>4, <2>5 DEF SoundInv, Shapes
<1> QED
  BY <1>5, <1>6 DEF BuildEpub

\* The cover that was built is published for the book it was built of.
LEMMA PublishCoverSound == ASSUME SoundInv, PublishCover PROVE SoundInv'
<1>1. WorkerShape /\ SnapshotShape(published)
  BY DEF SoundInv, Shapes
<1>2. UNCHANGED <<disk, media>> /\ pc = "enriched" /\ pc \in Working \ Prelude /\ pc' = "enrich"
  BY DEF PublishCover, Go, Elsewhere, Working, Prelude
<1>3. /\ WorkerShape' /\ worker'.current = worker.current
      /\ worker'.generation = worker.generation /\ worker'.settings = worker.settings
  BY <1>1 DEF PublishCover, WorkerShape
<1>4. PICK v : v = IF worker.item \in Covered THEN worker.cover ELSE "unavailable"
  OBVIOUS
<1>5. PICK items : items = [published.items EXCEPT ![worker.item] = v]
  OBVIOUS
<1>6. SnapshotShape(published') /\ published'.items = items
  <2>1. PICK n : n = published.revision + 1
    OBVIOUS
  <2>2. published' = [published EXCEPT !.revision = n, !.items = items]
    BY <1>4, <1>5, <2>1 DEF PublishCover, Announce
  <2> QED
    BY <1>1, <2>2 DEF SnapshotShape
<1>7. /\ DOMAIN items = DOMAIN published.items
      /\ \A b \in DOMAIN items : items[b] = IF b = worker.item THEN v ELSE published.items[b]
  BY <1>5
<1>8. OneContext' /\ FoundSound' /\ CoverSound'
  BY <1>2, <1>3 DEF SoundInv, OneContext, FoundSound, CoverSound
<1>9. ItemsSound'
  <2>1. v = "ready" => worker.cover = "ready"
    BY <1>4
  <2> QED
    BY <1>2, <1>3, <1>6, <1>7, <2>1 DEF SoundInv, ItemsSound, CoverSound, Seen, Selected
<1> QED
  BY <1>2, <1>3, <1>6, <1>8, <1>9, SettlesSound DEF Settles

\* At the start nothing is known and nothing shown.
LEMMA SoundInit == ASSUME Init PROVE SoundInv
<1>1. SnapshotShape(published) /\ WorkerShape /\ published.items = NoItems /\ pc = "top"
  BY DEF Init, SnapshotShape, WorkerShape
<1>2. MediaShape /\ CardThere
  <2>1. PICK c \in Cards \cup {None} :
          media = [state |-> IF c = None THEN "no_card" ELSE "ready", generation |-> 1,
                   card |-> c, changing |-> FALSE]
    BY DEF Init
  <2> QED
    BY <2>1 DEF MediaShape, CardThere
<1>3. PICK f : disk = [c \in Cards |-> [catalog |-> f[c], cached |-> {}]]
  BY DEF Init
<1>4. DiskShape /\ \A c \in Cards : disk[c].catalog \in Catalogs(c)
  BY <1>3 DEF DiskShape, Init
<1>5. SavedCatalogSound
  <2> SUFFICES ASSUME NEW c \in Cards, disk[c].catalog # None
               PROVE  LET saved == disk[c].catalog
                      IN /\ DOMAIN saved.items \subseteq Selected(c, saved.settings)
                         /\ {b \in DOMAIN saved.items : saved.items[b] = "ready"}
                                \subseteq disk[c].cached
    BY DEF SavedCatalogSound
  <2>1. PICK s \in Choices : disk[c].catalog = [settings |-> s, items |->
            [b \in Selected(c, s) |-> IF b \in Epubs THEN "pending" ELSE "none"]]
    BY <1>4 DEF Catalogs
  <2> QED
    BY <2>1
<1>6. OneContext /\ ItemsSound /\ FoundSound /\ CoverSound /\ SameMedia
  BY <1>1 DEF OneContext, ItemsSound, FoundSound, CoverSound, SameMedia, NoItems, Working
<1> QED
  BY <1>1, <1>2, <1>4, <1>5, <1>6 DEF SoundInv, Shapes

\* Nothing of all this is the UI task's, and of the book worker's only the cache.
LEMMA OthersStill ==
    ASSUME UITask \/ UILoop \/ TakeOpen \/ UNCHANGED vars
    PROVE  UNCHANGED <<disk, media, published, pc, worker>>
<1>1. CASE UITask
  BY <1>1 DEF UITask, LaunchBooks, LeaveBooks, OpenDialog, CancelSettings, LeaveReader,
     ConfirmSettings, SelectBook, LaunchFromFiles, Elsewhere2
<1>2. CASE UILoop
  BY <1>2 DEF UILoop, MakeCall, HandleStatus, TakeEvent, LaunchReader, Elsewhere2
<1>3. CASE TakeOpen
  BY <1>3 DEF TakeOpen, BookElsewhere
<1>4. CASE UNCHANGED vars
  BY <1>4 DEF vars
<1> QED
  BY <1>1, <1>2, <1>3, <1>4

\* Every step of the program keeps this invariant.
LEMMA SoundStep == SoundInv /\ [Next]_vars => SoundInv'
<1> SUFFICES ASSUME SoundInv, [Next]_vars PROVE SoundInv'
  OBVIOUS
<1>1. CASE WorkerStep
  BY <1>1, QuietSteps, QuietKeeps, AdoptContextSound, CheckMediaSound, LoadCatalogSound,
     ChangeSettingsSound, SaveSound, ScanSound, ReplaceSound, OpenEpubSound,
     BuildEpubSound, PublishCoverSound DEF WorkerStep
<1>2. CASE UITask \/ UILoop \/ TakeOpen \/ UNCHANGED vars
  BY <1>2, OthersStill, StillSound
<1>3. CASE EndBuild
  BY <1>3, EndBuildSound
<1>4. CASE RemoveCard \/ \E c \in Cards : InsertCard(c)
  BY <1>4, ExchangeSound
<1>5. CASE PublishState
  BY <1>5, PublishSound
<1> QED
  BY <1>1, <1>2, <1>3, <1>4, <1>5 DEF Next, BookWorker

\* Whatever cards come and go, whatever call fails, and however the catalog's worker,
\* the UI task and the book worker interleave: a catalog file lists only books of its
\* own card that its settings select, and claims only covers whose cache is complete
\* (book_catalog_service::run, save_catalog, enrich).
THEOREM CatalogFilesSound == Spec => []SavedCatalogSound
<1>1. SoundInv => SavedCatalogSound
  BY DEF SoundInv
<1> QED
  BY <1>1, SoundInit, SoundStep, PTL DEF Spec

-----------------------------------------------------------------------------
(* What Books shows.  Items are of the card of the generation the worker   *)
(* has adopted, and the snapshot that carries any is numbered with that    *)
(* generation; so what Books copies from a snapshot of its own generation  *)
(* is of the card it shows.  Between a change of its generation and the    *)
(* copy, the handler still owes the copy.                                  *)

\* The items are of the card of generation g, in the history cs.
OfCard(cs, items, g) ==
    items # NoItems =>
        g \in 1 .. Len(cs) /\ cs[g] \in Cards /\ DOMAIN items \subseteq Shelf[cs[g]]

History ==
    /\ cards \in Seq(Cards \cup {None}) /\ Len(cards) = media.generation
    /\ media.generation > 0 /\ cards[media.generation] = media.card
FoundOfCard ==
    pc \in {"populate", "replace"} =>
        /\ worker.current \in 1 .. Len(cards) /\ cards[worker.current] \in Cards
        /\ worker.found \subseteq Shelf[cards[worker.current]]
PublishedOfCard ==
    /\ OfCard(cards, published.items, worker.current)
    /\ published.items # NoItems => published.generation = worker.current
    /\ pc \in {"check", "read"} => published.generation = worker.generation
WorkerOfCard == FoundOfCard /\ PublishedOfCard

BooksShape ==
    books = [generation |-> books.generation, revision |-> books.revision,
             count |-> books.count, shown |-> books.shown, settings |-> books.settings,
             dialog |-> books.dialog, dirty |-> books.dirty, launch |-> books.launch]
PageOwed == calls # <<>> /\ calls[Len(calls)] = <<"page">>
BooksOfCard == BooksShape /\ (OfCard(cards, books.shown, books.generation) \/ PageOwed)

ShownInv == History /\ WorkerOfCard /\ BooksOfCard

\* A card more in the history changes nothing about the earlier ones.
Longer == \E more \in Seq(Cards \cup {None}) : cards' = cards \o more

\* A list of books of a card is one as well when more cards have been seen.
LEMMA LongerOfCard ==
    ASSUME History, Longer, NEW items, NEW g, OfCard(cards, items, g)
    PROVE  OfCard(cards', items, g)
<1>1. PICK more \in Seq(Cards \cup {None}) : cards' = cards \o more
  BY DEF Longer
<1>2. /\ Len(cards) \in Nat /\ Len(cards') \in Nat /\ Len(cards) <= Len(cards')
      /\ \A i \in 1 .. Len(cards) : cards'[i] = cards[i]
  BY <1>1 DEF History
<1> QED
  BY <1>2 DEF OfCard

\* Cards come and go at the end of the history.
LEMMA HistoryStep == ASSUME SoundInv, History, [Next]_vars PROVE History' /\ Longer
<1>1. CASE UNCHANGED <<cards, media.generation, media.card>>
  <2>1. History'
    BY <1>1 DEF History
  <2>2. cards' = cards \o <<>> /\ <<>> \in Seq(Cards \cup {None})
    BY <1>1 DEF History
  <2> QED
    BY <2>1, <2>2 DEF Longer
<1>2. CASE \E c \in Cards \cup {None} :
             /\ cards' = Append(cards, c)
             /\ media'.generation = media.generation + 1 /\ media'.card = c
  <2>1. PICK c \in Cards \cup {None} :
             /\ cards' = Append(cards, c)
             /\ media'.generation = media.generation + 1 /\ media'.card = c
    BY <1>2
  <2>2. /\ cards' \in Seq(Cards \cup {None}) /\ Len(cards') = Len(cards) + 1
        /\ cards'[Len(cards) + 1] = c
    BY <2>1 DEF History
  <2>3. History'
    BY <2>1, <2>2 DEF History
  <2>4. cards' = cards \o <<c>> /\ <<c>> \in Seq(Cards \cup {None})
    BY <2>1 DEF History
  <2> QED
    BY <2>3, <2>4 DEF Longer
<1>3. CASE WorkerStep
  <2>1. UNCHANGED <<cards, media>>
    BY <1>3, WorkerElsewhere
  <2> QED
    BY <1>1, <2>1
<1>4. CASE UITask \/ UILoop \/ BookWorker \/ UNCHANGED vars
  <2>1. CASE UITask
    BY <1>1, <2>1 DEF UITask, LaunchBooks, LeaveBooks, OpenDialog, CancelSettings,
       LeaveReader, ConfirmSettings, SelectBook, LaunchFromFiles, Elsewhere2
  <2>2. CASE UILoop
    BY <1>1, <2>2 DEF UILoop, MakeCall, HandleStatus, TakeEvent, LaunchReader, Elsewhere2
  <2>3. CASE BookWorker
    BY <1>1, <2>3 DEF BookWorker, TakeOpen, EndBuild, BookElsewhere
  <2>4. CASE UNCHANGED vars
    BY <1>1, <2>4 DEF vars
  <2> QED
    BY <1>4, <2>1, <2>2, <2>3, <2>4
<1>5. CASE RemoveCard
  <2>1. media'.generation = media.generation + 1 /\ media'.card = None
    BY <1>5, RemovalFacts DEF SoundInv, Shapes
  <2> QED
    BY <1>2, <1>5, <2>1 DEF RemoveCard
<1>6. CASE \E c \in Cards : InsertCard(c)
  BY <1>2, <1>6 DEF InsertCard
<1>7. CASE PublishState
  <2>1. UNCHANGED <<media.generation, media.card>>
    BY <1>7 DEF PublishState, SoundInv, Shapes, MediaShape
  <2> QED
    BY <1>1, <1>7, <2>1 DEF PublishState
<1> QED
  BY <1>3, <1>4, <1>5, <1>6, <1>7 DEF Next

\* A step of the worker that keeps the items or has none keeps them of their card.
LEMMA StaysOfCard ==
    ASSUME WorkerOfCard, UNCHANGED cards,
           published'.items = NoItems
               \/ /\ published'.items = published.items
                  /\ worker'.current = worker.current
                  /\ published'.generation \in {published.generation, worker.current},
           pc' \notin {"populate", "replace", "check", "read"}
    PROVE  WorkerOfCard'
<1>1. FoundOfCard'
  BY DEF FoundOfCard
<1>2. PublishedOfCard'
  BY DEF WorkerOfCard, PublishedOfCard, OfCard
<1> QED
  BY <1>1, <1>2 DEF WorkerOfCard

\* The quiet steps number the snapshot with the generation of its items, if at all.
LEMMA QuietOfCard ==
    ASSUME SoundInv, WorkerOfCard,
           \/ SeeActive \/ Acknowledge \/ ReadContext \/ StartLoading \/ AdoptSettings
           \/ PublishLoaded \/ Loaded \/ SettingsSaved \/ SaveFails \/ NoMedia \/ StartScan
           \/ NothingToDo \/ AbandonScan \/ ScanFails \/ AbandonEpub \/ SaveCovers
           \/ FinishCatalog
    PROVE  WorkerOfCard'
<1>1. Quiet /\ pc' \notin {"populate", "replace"} /\ published'.items = published.items
      /\ worker'.current = worker.current
  BY QuietSteps DEF Quiet
<1>2. UNCHANGED cards
  BY DEF SeeActive, Acknowledge, ReadContext, StartLoading, AdoptSettings,
     PublishLoaded, Loaded, SettingsSaved, SaveFails, NoMedia, StartScan, NothingToDo,
     AbandonScan, ScanFails, AbandonEpub, SaveCovers, FinishCatalog, Elsewhere
<1>3. SnapshotShape(published) /\ worker.after \in {"top", "filtered", "enrich", "finished"}
      /\ (pc \in Working \ Prelude => worker.generation = worker.current)
  BY DEF SoundInv, Shapes, WorkerShape, OneContext
<1>4. CASE SeeActive \/ Acknowledge \/ ReadContext \/ AdoptSettings \/ Loaded \/ SaveFails
           \/ NothingToDo \/ AbandonScan \/ AbandonEpub \/ SaveCovers
  <2>1. UNCHANGED published /\ pc' \notin {"check", "read"}
    BY <1>3, <1>4 DEF SeeActive, Acknowledge, ReadContext, AdoptSettings, Loaded, SaveFails,
       NothingToDo, SameSettings, AbandonScan, AbandonEpub, SaveCovers, Silent, Go
  <2> QED
    BY <1>1, <1>2, <2>1, StaysOfCard
<1>5. CASE StartLoading
  <2>1. pc \in Working \ Prelude /\ published'.generation = worker.generation
        /\ UNCHANGED worker /\ pc' = "check"
    BY <1>3, <1>5, UpdateFacts DEF StartLoading, Go, Working, Prelude
  <2>2. PublishedOfCard'
    BY <1>1, <1>2, <1>3, <2>1 DEF WorkerOfCard, PublishedOfCard, OfCard
  <2>3. FoundOfCard'
    BY <1>1 DEF FoundOfCard
  <2> QED
    BY <2>2, <2>3 DEF WorkerOfCard
<1>6. CASE PublishLoaded
  <2>1. PICK p : p = [published EXCEPT !.settings = worker.settings]
    OBVIOUS
  <2>2. SnapshotShape(p)
    BY <1>3, <2>1 DEF SnapshotShape
  <2>3. \E s : UpdateState(p, s)
    BY <1>6, <2>1 DEF PublishLoaded
  <2>4. published'.generation = worker.generation
    BY <2>2, <2>3, UpdateFacts
  <2>5. pc \in Working \ Prelude /\ pc' = "loaded"
    BY <1>6 DEF PublishLoaded, Go, Working, Prelude
  <2> QED
    BY <1>1, <1>2, <1>3, <2>4, <2>5, StaysOfCard
<1>7. CASE SettingsSaved \/ NoMedia \/ StartScan \/ ScanFails \/ FinishCatalog
  <2>1. pc \in Working \ Prelude /\ pc' \notin {"check", "read"}
    BY <1>7 DEF SettingsSaved, NoMedia, StartScan, SameSettings, ScanFails, FinishCatalog,
       Go, Working, Prelude
  <2>2. UNCHANGED published \/ \E s : UpdateState(published, s)
    BY <1>7 DEF SettingsSaved, NoMedia, StartScan, SameSettings, ScanFails, FinishCatalog, Silent
  <2>3. published'.generation \in {published.generation, worker.current}
    BY <1>3, <2>1, <2>2, UpdateFacts
  <2> QED
    BY <1>1, <1>2, <2>1, <2>3, StaysOfCard
<1> QED
  BY <1>4, <1>5, <1>6, <1>7

\* The card of the generation that is readable now.
LEMMA CardHere ==
    ASSUME SoundInv, History, pc \in Working \ Prelude, MediaValid(worker.generation), GateOpen
    PROVE  /\ worker.current = worker.generation
           /\ worker.current \in 1 .. Len(cards) /\ cards[worker.current] = media.card
           /\ media.card \in Cards
  BY SeenHere DEF History

\* Loading empties the items, reads them from the file of the card in the slot, or
\* leaves them as they are.
LEMMA LoadOfCard ==
    ASSUME SoundInv, History, WorkerOfCard, AdoptContext \/ CheckMedia \/ LoadCatalog
    PROVE  WorkerOfCard'
<1>1. WorkerShape /\ SnapshotShape(published) /\ UNCHANGED cards
  BY DEF SoundInv, Shapes, AdoptContext, CheckMedia, LoadCatalog, Elsewhere
<1>2. CASE AdoptContext
  <2>1. pc' \in {"settings", "load"}
    BY <1>2 DEF AdoptContext, Go
  <2>2. CASE published' = EmptyItems(published)
    <3>1. published'.items = NoItems
      BY <1>1, <2>2 DEF EmptyItems, SnapshotShape
    <3> QED
      BY <1>1, <2>1, <3>1, StaysOfCard
  <2>3. CASE /\ worker' = [worker EXCEPT !.seenActivation = worker.activation,
                                         !.loaded = worker.loaded /\ ~Reload]
             /\ UNCHANGED published
    <3>1. PICK l : l = (worker.loaded /\ ~Reload)
      OBVIOUS
    <3>2. worker'.current = worker.current
      BY <1>1, <2>3, <3>1 DEF WorkerShape
    <3> QED
      BY <1>1, <2>1, <2>3, <3>2, StaysOfCard
  <2> QED
    BY <1>2, <2>2, <2>3 DEF AdoptContext
<1>3. CASE CheckMedia
  <2>1. /\ pc = "check" /\ pc' \in {"read", "adopt"}
        /\ worker'.current = worker.current /\ worker'.generation = worker.generation
    BY <1>1, <1>3 DEF CheckMedia, Go, WorkerShape
  <2>2. /\ published'.generation = published.generation
        /\ published'.items \in {published.items, NoItems}
    BY <1>1, <1>3 DEF CheckMedia, EmptyItems, SnapshotShape
  <2>3. PublishedOfCard' /\ FoundOfCard'
    BY <1>1, <2>1, <2>2 DEF WorkerOfCard, PublishedOfCard, FoundOfCard, OfCard
  <2> QED
    BY <2>3 DEF WorkerOfCard
<1>4. CASE LoadCatalog
  <2>1. pc = "read" /\ pc \in Working \ Prelude /\ pc' = "adopt" /\ GateOpen
    BY <1>4 DEF LoadCatalog, Go, Working, Prelude
  <2>2. CASE UNCHANGED <<worker, published>>
    BY <1>1, <2>1, <2>2, StaysOfCard
  <2>3. CASE /\ MediaValid(worker.generation) /\ disk[media.card].catalog # None
             /\ worker' = [worker EXCEPT !.settings = disk[media.card].catalog.settings]
             /\ published' = [published EXCEPT !.items = disk[media.card].catalog.items]
    <3>1. PICK saved : saved = disk[media.card].catalog
      OBVIOUS
    <3>2. /\ worker'.current = worker.current
          /\ published'.items = saved.items
          /\ published'.generation = published.generation
      BY <1>1, <2>3, <3>1 DEF WorkerShape, SnapshotShape
    <3>3. /\ worker.current = worker.generation
          /\ worker.current \in 1 .. Len(cards) /\ cards[worker.current] = media.card
          /\ media.card \in Cards
      BY <2>1, <2>3, CardHere
    <3>4. DOMAIN saved.items \subseteq Shelf[media.card]
      BY <2>3, <3>1, <3>3 DEF SoundInv, SavedCatalogSound, Selected
    <3>5. published.generation = worker.generation
      BY <2>1 DEF WorkerOfCard, PublishedOfCard
    <3>6. PublishedOfCard' /\ FoundOfCard'
      BY <1>1, <2>1, <3>2, <3>3, <3>4, <3>5 DEF PublishedOfCard, FoundOfCard, OfCard
    <3> QED
      BY <3>6 DEF WorkerOfCard
  <2> QED
    BY <1>4, <2>2, <2>3 DEF LoadCatalog
<1> QED
  BY <1>2, <1>3, <1>4

\* A scan lists the card in the slot, and its findings replace the items.
LEMMA ScanOfCard ==
    ASSUME SoundInv, History, WorkerOfCard, ListDirectories \/ PopulateItems \/ ReplaceCatalog
    PROVE  WorkerOfCard'
<1>1. WorkerShape /\ SnapshotShape(published) /\ UNCHANGED cards
  BY DEF SoundInv, Shapes, ListDirectories, PopulateItems, ReplaceCatalog, Elsewhere
<1>2. CASE ListDirectories \/ PopulateItems
  <2>1. /\ pc \in Working \ Prelude /\ GateOpen /\ UNCHANGED published
        /\ pc' \in {"populate", "replace"}
    BY <1>2 DEF ListDirectories, PopulateItems, Reachable, Go, Silent, Working, Prelude
  <2>2. PICK found : worker' = [worker EXCEPT !.found = found]
    BY <1>2 DEF ListDirectories, PopulateItems
  <2>3. worker'.current = worker.current /\ worker'.found = found
    BY <1>1, <2>2 DEF WorkerShape
  <2>4. PublishedOfCard'
    BY <1>1, <2>1, <2>3 DEF WorkerOfCard, PublishedOfCard, OfCard
  <2>5. FoundOfCard'
    <3>1. CASE ListDirectories
      <4>1. found = Selected(media.card, worker.settings) /\ MediaValid(worker.generation)
        BY <1>1, <2>3, <3>1 DEF ListDirectories, WorkerShape, Reachable
      <4>2. /\ worker.current \in 1 .. Len(cards) /\ cards[worker.current] = media.card
            /\ media.card \in Cards
        BY <2>1, <4>1, CardHere
      <4> QED
        BY <1>1, <2>3, <4>1, <4>2 DEF FoundOfCard, Selected
    <3>2. CASE PopulateItems
      <4>1. found \subseteq worker.found /\ pc = "populate"
        BY <1>1, <2>3, <3>2 DEF PopulateItems, WorkerShape
      <4> QED
        BY <1>1, <2>3, <4>1 DEF WorkerOfCard, FoundOfCard
    <3> QED
      BY <1>2, <3>1, <3>2
  <2> QED
    BY <2>4, <2>5 DEF WorkerOfCard
<1>3. CASE ReplaceCatalog
  <2>1. pc = "replace" /\ pc \in Working \ Prelude /\ pc' = "save"
    BY <1>3 DEF ReplaceCatalog, Go, Working, Prelude
  <2>2. worker'.current = worker.current
    BY <1>1, <1>3 DEF ReplaceCatalog, WorkerShape
  <2>3. PICK items : items = [b \in worker.found |-> IF b \in Epubs THEN "pending" ELSE "none"]
    OBVIOUS
  <2>4. published'.items = items /\ published'.generation = worker.generation
    <3>1. PICK n : n = published.revision + 1
      OBVIOUS
    <3>2. PICK k : k = Cardinality(worker.found)
      OBVIOUS
    <3>3. published' = [published EXCEPT !.generation = worker.generation, !.items = items,
                            !.count = k, !.settings = worker.settings,
                            !.state = "enriching", !.revision = n]
      BY <1>3, <2>3, <3>1, <3>2 DEF ReplaceCatalog, Announce
    <3> QED
      BY <1>1, <3>3 DEF SnapshotShape
  <2>5. worker.generation = worker.current
    BY <2>1 DEF SoundInv, OneContext
  <2>6. PublishedOfCard' /\ FoundOfCard'
    BY <1>1, <2>1, <2>2, <2>3, <2>4, <2>5 DEF WorkerOfCard, FoundOfCard, PublishedOfCard, OfCard
  <2> QED
    BY <2>6 DEF WorkerOfCard
<1> QED
  BY <1>2, <1>3

\* No items have nothing to be filtered, and no cover.
LEMMA NoItemsFiltered == \A s : Filter(NoItems, s) = NoItems
  BY DEF Filter, NoItems
\* No list has no covers.
LEMMA NoItemsCovered == \A b, v : [NoItems EXCEPT ![b] = v] = NoItems
  BY DEF NoItems

\* The other steps drop items or change covers.
LEMMA CoversOfCard ==
    ASSUME SoundInv, WorkerOfCard,
           ChangeSettings \/ RemoveCatalog \/ RenameCatalog \/ OpenEpub \/ BuildEpub \/ PublishCover
    PROVE  WorkerOfCard'
<1>1. WorkerShape /\ SnapshotShape(published) /\ UNCHANGED cards
  BY WorkerElsewhere DEF SoundInv, Shapes, WorkerStep
<1>2. worker'.current = worker.current
  BY <1>1 DEF ChangeSettings, RemoveCatalog, RenameCatalog, OpenEpub, BuildEpub, PublishCover,
     WorkerShape
<1>3. pc' \notin {"populate", "replace", "check", "read"}
  BY <1>1 DEF ChangeSettings, RemoveCatalog, RenameCatalog, OpenEpub, BuildEpub, PublishCover,
     WorkerShape, Go
<1>4. CASE RemoveCatalog \/ RenameCatalog \/ OpenEpub \/ BuildEpub
  <2>1. UNCHANGED published
    BY <1>4, Zenon DEF RemoveCatalog, RenameCatalog, OpenEpub, BuildEpub, Silent
  <2> QED
    BY <1>1, <1>2, <1>3, <2>1, StaysOfCard
<1>5. CASE \/ published'.items = published.items
           \/ published.items = NoItems /\ published'.items = NoItems
           \/ published.items # NoItems /\ DOMAIN published'.items \subseteq DOMAIN published.items
      /\ published'.generation = published.generation
  BY <1>1, <1>2, <1>3, <1>5 DEF WorkerOfCard, FoundOfCard, PublishedOfCard, OfCard
<1>6. CASE ChangeSettings
  <2>1. PICK items : items = Filter(published.items, desired.bits)
    OBVIOUS
  <2>2. published'.items = items /\ published'.generation = published.generation
    <3>1. PICK n : n = published.revision + 1
      OBVIOUS
    <3>2. PICK k : k = Cardinality(DOMAIN items)
      OBVIOUS
    <3>3. published' = [published EXCEPT !.items = items, !.count = k,
                            !.settings = desired.bits, !.revision = n]
      BY <1>6, <2>1, <3>1, <3>2 DEF ChangeSettings, Announce, Filtered
    <3> QED
      BY <1>1, <3>3 DEF SnapshotShape
  <2>3. DOMAIN items \subseteq DOMAIN published.items
    BY <2>1 DEF Filter
  <2>4. published.items = NoItems => items = NoItems
    BY <2>1, NoItemsFiltered
  <2> QED
    BY <1>5, <2>2, <2>3, <2>4
<1>7. CASE PublishCover
  <2>1. PICK v : v = IF worker.item \in Covered THEN worker.cover ELSE "unavailable"
    OBVIOUS
  <2>2. PICK items : items = [published.items EXCEPT ![worker.item] = v]
    OBVIOUS
  <2>3. published'.items = items /\ published'.generation = published.generation
    <3>1. PICK n : n = published.revision + 1
      OBVIOUS
    <3>2. published' = [published EXCEPT !.revision = n, !.items = items]
      BY <1>7, <2>1, <2>2, <3>1 DEF PublishCover, Announce
    <3> QED
      BY <1>1, <3>2 DEF SnapshotShape
  <2>4. DOMAIN items = DOMAIN published.items
    BY <2>2
  <2>5. published.items = NoItems => items = NoItems
    BY <2>2, NoItemsCovered
  <2> QED
    BY <1>5, <2>3, <2>4, <2>5
<1> QED
  BY <1>4, <1>6, <1>7

\* Whoever does not move the worker keeps what it knows, however many cards come.
LEMMA OthersOfCard ==
    ASSUME History, Longer, WorkerOfCard, UNCHANGED <<published, pc, worker>>
    PROVE  WorkerOfCard'
<1>1. PICK items : items = published.items
  OBVIOUS
<1>2. PICK g : g = worker.current
  OBVIOUS
<1>3. PICK more \in Seq(Cards \cup {None}) : cards' = cards \o more
  BY DEF Longer
<1>4. /\ Len(cards) \in Nat /\ Len(cards') \in Nat /\ Len(cards) <= Len(cards')
      /\ \A i \in 1 .. Len(cards) : cards'[i] = cards[i]
  BY <1>3 DEF History
<1>5. FoundOfCard'
  BY <1>4 DEF WorkerOfCard, FoundOfCard
<1>6. OfCard(cards', items, g)
  BY <1>1, <1>2, LongerOfCard DEF WorkerOfCard, PublishedOfCard
<1>7. PublishedOfCard'
  BY <1>1, <1>2, <1>6 DEF WorkerOfCard, PublishedOfCard
<1> QED
  BY <1>5, <1>7 DEF WorkerOfCard

\* Every step keeps what the worker knows of the cards.
LEMMA WorkerOfCardStep ==
    ASSUME SoundInv, History, Longer, WorkerOfCard, [Next]_vars PROVE WorkerOfCard'
<1>1. CASE WorkerStep
  BY <1>1, QuietOfCard, LoadOfCard, ScanOfCard, CoversOfCard DEF WorkerStep
<1>2. CASE ~WorkerStep
  <2>1. CASE UITask \/ UILoop \/ TakeOpen \/ UNCHANGED vars
    BY <2>1, OthersStill, OthersOfCard
  <2>2. CASE EndBuild
    BY <2>2, OthersOfCard DEF EndBuild, BookElsewhere
  <2>3. CASE RemoveCard \/ PublishState \/ \E c \in Cards : InsertCard(c)
    BY <2>3, OthersOfCard DEF RemoveCard, PublishState, InsertCard
  <2> QED
    BY <1>2, <2>1, <2>2, <2>3 DEF Next, BookWorker
<1> QED
  BY <1>1, <1>2

\* A handler of the UI task that keeps the items with their generation, drops them, or
\* owes the copy of the page.
LEMMA BooksStay ==
    ASSUME History, Longer, BooksOfCard, BooksShape',
           \/ books'.shown = NoItems \/ PageOwed'
           \/ ~PageOwed /\ books'.shown = books.shown /\ books'.generation = books.generation
    PROVE  BooksOfCard'
<1>1. CASE books'.shown = NoItems
  BY <1>1 DEF BooksOfCard, OfCard
<1>2. CASE PageOwed'
  BY <1>2 DEF BooksOfCard
<1>3. CASE ~PageOwed /\ books'.shown = books.shown /\ books'.generation = books.generation
  <2>1. PICK items : items = books.shown
    OBVIOUS
  <2>2. PICK g : g = books.generation
    OBVIOUS
  <2>3. OfCard(cards', items, g)
    BY <1>3, <2>1, <2>2, LongerOfCard DEF BooksOfCard
  <2>4. OfCard(cards', books'.shown, books'.generation)
    BY <1>3, <2>1, <2>2, <2>3
  <2> QED
    BY <2>4 DEF BooksOfCard
<1> QED
  BY <1>1, <1>2, <1>3

\* A refresh ends with the copy of the page.
LEMMA RefreshOwesPage ==
    \A p \in Seq(Accesses) :
        p \o Refresh # <<>> /\ (p \o Refresh)[Len(p \o Refresh)] = <<"page">>
<1> SUFFICES ASSUME NEW p \in Seq(Accesses)
             PROVE  p \o Refresh # <<>> /\ (p \o Refresh)[Len(p \o Refresh)] = <<"page">>
  OBVIOUS
<1>1. PICK q : q = Refresh
  OBVIOUS
<1>2. q \in Seq(Accesses) /\ Len(q) = 2 /\ q[2] = <<"page">>
  BY <1>1, RefreshScript DEF Refresh, Script
<1>3. ASSUME NEW S, NEW r \in Seq(S), NEW s \in Seq(S), Len(s) = 2
      PROVE  /\ Len(r) \in Nat /\ Len(r \o s) = Len(r) + 2
             /\ (r \o s)[Len(r) + 2] = s[2]
  <2>1. PICK n \in Nat : n = Len(r)
    BY LenProperties
  <2>2. Len(r \o s) = Len(r) + Len(s)
    BY ConcatProperties
  <2>3. Len(r \o s) = n + 2
    BY <1>3, <2>1, <2>2
  <2>4. \A i \in 1 .. Len(r) + Len(s) :
            (r \o s)[i] = IF i <= Len(r) THEN r[i] ELSE s[i - Len(r)]
    BY ConcatProperties
  <2>5. \A i \in 1 .. n + 2 : (r \o s)[i] = IF i <= n THEN r[i] ELSE s[i - n]
    BY <1>3, <2>1, <2>4
  <2>6. PICK m \in 1 .. n + 2 : m = n + 2
    BY <2>1
  <2>7. (r \o s)[m] = s[2]
    <3>1. (r \o s)[m] = IF m <= n THEN r[m] ELSE s[m - n]
      BY <2>5
    <3>2. ~(m <= n) /\ m - n = 2
      BY <2>6
    <3> QED
      BY <3>1, <3>2
  <2>8. Len(r) + 2 = m /\ m = n + 2 /\ Len(r) \in Nat
    BY <2>1, <2>6
  <2> QED
    BY <2>1, <2>3, <2>7, <2>8
<1>4. /\ Len(p) \in Nat /\ Len(p \o q) = Len(p) + 2
      /\ (p \o q)[Len(p) + 2] = q[2]
  <2>1. q \in Seq(Accesses) /\ Len(q) = 2
    BY <1>2
  <2> QED
    BY <1>3, <2>1
<1>5. p \o q # <<>>
  BY <1>4
<1> QED
  BY <1>1, <1>2, <1>4, <1>5

\* One access: the copy of the page is of a snapshot of Books' own generation, and the
\* others leave the copy to be made.
LEMMA MakeCallOfCard ==
    ASSUME CatalogInv, History, Longer, WorkerOfCard, BooksOfCard, MakeCall
    PROVE  BooksOfCard'
<1>1. PICK op : op = Head(calls)
  OBVIOUS
<1>2. calls # <<>> /\ calls' = Tail(calls) /\ UNCHANGED <<cards, published>>
  BY DEF MakeCall, Elsewhere2
<1>3. /\ calls \in Seq(Accesses) /\ Len(calls) \in Nat /\ Len(calls) > 0
      /\ Len(calls') = Len(calls) - 1 /\ op = calls[1] /\ op \in Accesses
      /\ \A k \in 1 .. Len(calls') : calls'[k] = calls[k + 1]
  BY <1>1, <1>2, HeadTail DEF CatalogInv, CallsTyped
<1>4. op[1] # "page" /\ PageOwed => PageOwed'
  <2> SUFFICES ASSUME op[1] # "page", PageOwed PROVE PageOwed'
    OBVIOUS
  <2>1. calls[Len(calls)] = <<"page">> /\ calls[1] # <<"page">>
    BY <1>3 DEF PageOwed
  <2>2. Len(calls) # 1
    BY <2>1
  <2>3. Len(calls') > 0 /\ Len(calls') \in 1 .. Len(calls') /\ Len(calls') + 1 = Len(calls)
    BY <1>3, <2>2
  <2>4. calls'[Len(calls')] = <<"page">>
    BY <1>3, <2>1, <2>3
  <2>5. calls' # <<>>
    BY <2>3
  <2> QED
    BY <2>4, <2>5 DEF PageOwed
<1>5. BooksShape
  BY DEF BooksOfCard
<1>6. CASE op[1] \notin {"snapshot", "page"}
  <2>1. UNCHANGED books
    BY <1>1, <1>6 DEF MakeCall
  <2>2. BooksShape'
    BY <1>5, <2>1 DEF BooksShape
  <2> QED
    BY <1>4, <1>6, <2>1, <2>2, BooksStay
<1>7. CASE op[1] = "snapshot"
  <2>1. TakeSnapshot
    BY <1>1, <1>7 DEF MakeCall
  <2>2. BooksShape' /\ books'.shown \in {NoItems, books.shown}
        /\ books'.generation = books.generation
    <3>1. CASE books' = [books EXCEPT !.count = 0, !.shown = NoItems]
      BY <1>5, <3>1 DEF BooksShape
    <3>2. CASE books' = [books EXCEPT !.revision = published.revision,
                 !.count = published.count,
                 !.settings = IF books.dialog THEN @ ELSE published.settings]
      BY <1>5, <3>2 DEF BooksShape
    <3> QED
      BY <2>1, <3>1, <3>2 DEF TakeSnapshot
  <2> QED
    BY <1>4, <1>7, <2>2, BooksStay
<1>8. CASE op[1] = "page"
  <2>1. CopyPage
    BY <1>1, <1>8 DEF MakeCall
  <2>2. /\ BooksShape' /\ books'.generation = books.generation
        /\ \/ books'.shown = NoItems
           \/ books'.shown = published.items /\ published.generation = books.generation
    <3>1. CASE books' = [books EXCEPT !.shown = NoItems]
      BY <1>5, <3>1 DEF BooksShape
    <3>2. CASE /\ published.generation = books.generation
               /\ books' = [books EXCEPT !.shown = IF books.count = 0 THEN NoItems
                                                   ELSE published.items]
      <4>1. PICK shown : shown = IF books.count = 0 THEN NoItems ELSE published.items
        OBVIOUS
      <4>2. books' = [books EXCEPT !.shown = shown]
        BY <3>2, <4>1
      <4>3. BooksShape' /\ books'.generation = books.generation /\ books'.shown = shown
        BY <1>5, <4>2 DEF BooksShape
      <4> QED
        BY <3>2, <4>1, <4>3
    <3> QED
      BY <2>1, <3>1, <3>2 DEF CopyPage
  <2>3. OfCard(cards', books'.shown, books'.generation)
    BY <1>2, <2>2 DEF WorkerOfCard, PublishedOfCard, OfCard
  <2> QED
    BY <2>2, <2>3 DEF BooksOfCard
<1> QED
  BY <1>6, <1>7, <1>8

\* Books comes to the foreground with the copy of the page still to be made.
LEMMA OpenBooksOwesPage ==
    ASSUME CatalogInv, BooksShape, \E back : OpenBooks(back) PROVE BooksShape' /\ PageOwed'
<1>1. media.generation \in Nat
  BY DEF CatalogInv, MediaTyped
<1>2. Activate(media.generation) \in Seq(Accesses)
  BY <1>1, ActivateScript DEF Script
<1>3. PageOwed'
  BY <1>2, RefreshOwesPage DEF OpenBooks, PageOwed
<1>4. BooksShape'
  BY DEF OpenBooks, BooksShape
<1> QED
  BY <1>3, <1>4

\* So it does when it takes up a new generation, or it shows nothing.
LEMMA StatusOfCard ==
    ASSUME CatalogInv, History, Longer, BooksOfCard, HandleStatus PROVE BooksOfCard'
<1>1. BooksShape /\ calls = <<>> /\ ~PageOwed
  BY DEF BooksOfCard, HandleStatus, PageOwed
<1>2. PICK status : status = Head(statuses)
  OBVIOUS
<1>3. status.generation \in Nat
  <2>1. statuses \in Seq(Statuses) /\ statuses # <<>>
    BY DEF CatalogInv, MediaTyped, HandleStatus
  <2>2. status \in Statuses
    BY <1>2, <2>1, HeadTail
  <2> QED
    BY <2>2 DEF Statuses
<1>4. CASE UNCHANGED <<books, calls>>
  <2>1. BooksShape'
    BY <1>1, <1>4 DEF BooksShape
  <2> QED
    BY <1>1, <1>4, <2>1, BooksStay
<1>5. CASE /\ books' = [books EXCEPT !.generation = status.generation]
           /\ calls' = Activate(status.generation) \o Refresh
  <2>1. Activate(status.generation) \in Seq(Accesses)
    BY <1>3, ActivateScript DEF Script
  <2>2. PageOwed'
    BY <1>5, <2>1, RefreshOwesPage DEF PageOwed
  <2>3. BooksShape'
    BY <1>1, <1>5 DEF BooksShape
  <2> QED
    BY <2>2, <2>3, BooksStay
<1>6. CASE books' = [books EXCEPT !.count = 0, !.shown = NoItems]
  <2>1. BooksShape' /\ books'.shown = NoItems
    BY <1>1, <1>6 DEF BooksShape
  <2> QED
    BY <2>1, BooksStay
<1> QED
  BY <1>2, <1>4, <1>5, <1>6 DEF HandleStatus

\* The other handlers leave the items and their generation as they are, or open Books.
LEMMA HandlersOfCard ==
    ASSUME CatalogInv, History, Longer, BooksOfCard, UITask \/ TakeEvent \/ LaunchReader
    PROVE  BooksOfCard'
<1>1. BooksShape
  BY DEF BooksOfCard
<1>2. CASE \E back : OpenBooks(back)
  BY <1>1, <1>2, OpenBooksOwesPage, BooksStay
<1>3. ASSUME calls = <<>>, BooksShape', books'.shown = books.shown,
             books'.generation = books.generation
      PROVE  BooksOfCard'
  <2>1. ~PageOwed
    BY <1>3 DEF PageOwed
  <2> QED
    BY <1>3, <2>1, BooksStay
<1>4. CASE LaunchBooks
  BY <1>2, <1>4 DEF LaunchBooks
<1>5. CASE LeaveBooks
  BY <1>1, <1>3, <1>5 DEF LeaveBooks, InBooks, BooksShape
<1>6. CASE OpenDialog
  BY <1>1, <1>3, <1>6 DEF OpenDialog, InBooks, BooksShape
<1>7. CASE CancelSettings
  BY <1>1, <1>3, <1>7 DEF CancelSettings, InBooks, BooksShape
<1>8. CASE LeaveReader
  <2>1. CASE \E back : OpenBooks(back)
    BY <1>2, <2>1
  <2>2. CASE UNCHANGED books
    BY <1>1, <1>3, <1>8, <2>2 DEF LeaveReader, BooksShape
  <2> QED
    BY <1>8, <2>1, <2>2 DEF LeaveReader
<1>9. CASE \E s \in Choices : ConfirmSettings(s)
  BY <1>1, <1>3, <1>9 DEF ConfirmSettings, InBooks, BooksShape
<1>10. CASE \E b \in Books : SelectBook(b)
  BY <1>1, <1>3, <1>10 DEF SelectBook, InBooks, BooksShape
<1>11. CASE \E b \in Books : LaunchFromFiles(b)
  BY <1>1, <1>3, <1>11 DEF LaunchFromFiles, BooksShape
<1>12. CASE TakeEvent
  <2>1. PICK dirty : dirty = (books.dirty \/ (News /\ books.dialog))
    OBVIOUS
  <2>2. books' = [books EXCEPT !.dirty = dirty]
    BY <1>12, <2>1 DEF TakeEvent
  <2>3. BooksShape' /\ books'.shown = books.shown /\ books'.generation = books.generation
    BY <1>1, <2>2 DEF BooksShape
  <2> QED
    BY <1>3, <1>12, <2>3 DEF TakeEvent, InBooks
<1>13. CASE LaunchReader
  BY <1>1, <1>3, <1>13 DEF LaunchReader, InBooks, BooksShape
<1> QED
  BY <1>4, <1>5, <1>6, <1>7, <1>8, <1>9, <1>10, <1>11, <1>12, <1>13 DEF UITask

\* Nobody but the UI task touches Books or its calls.
LEMMA BooksOfCardStep ==
    ASSUME CatalogInv, History, Longer, WorkerOfCard, BooksOfCard, [Next]_vars
    PROVE  BooksOfCard'
<1>1. CASE UITask \/ UILoop
  BY <1>1, MakeCallOfCard, StatusOfCard, HandlersOfCard DEF UILoop
<1>2. CASE UNCHANGED <<books, calls>>
  <2>1. BooksShape' /\ (PageOwed' <=> PageOwed)
    BY <1>2 DEF BooksOfCard, BooksShape, PageOwed
  <2> QED
    BY <1>2, <2>1, BooksStay DEF BooksOfCard
<1>3. CASE WorkerStep
  <2>1. UNCHANGED <<books, calls>>
    BY <1>3, WorkerElsewhere
  <2> QED
    BY <1>2, <2>1
<1>4. CASE BookWorker \/ RemoveCard \/ PublishState \/ (\E c \in Cards : InsertCard(c))
           \/ UNCHANGED vars
  <2>1. UNCHANGED <<books, calls>>
    BY <1>4 DEF BookWorker, TakeOpen, EndBuild, BookElsewhere, RemoveCard, PublishState,
       InsertCard, uiVars, vars
  <2> QED
    BY <1>2, <2>1
<1> QED
  BY <1>1, <1>3, <1>4 DEF Next

\* At start-up nothing is shown and nothing is listed.
LEMMA ShownInit == ASSUME Init PROVE ShownInv
<1>1. PICK c \in Cards \cup {None} :
        /\ media = [state |-> IF c = None THEN "no_card" ELSE "ready", generation |-> 1,
                    card |-> c, changing |-> FALSE]
        /\ cards = <<c>>
  BY DEF Init
<1>2. History
  BY <1>1 DEF History
<1>3. published.items = NoItems /\ pc = "top"
  BY DEF Init
<1>4. WorkerOfCard
  BY <1>3 DEF WorkerOfCard, FoundOfCard, PublishedOfCard, OfCard
<1>5. BooksOfCard
  BY DEF Init, BooksOfCard, BooksShape, OfCard
<1> QED
  BY <1>2, <1>4, <1>5 DEF ShownInv

\* Whatever cards come and go while the worker scans, and wherever the handlers of Books
\* are cut into the worker's steps: once a handler has made its calls, the books shown
\* under a media generation are books of that generation's card (BooksApp::
\* refresh_catalog and load_page, book_catalog_service_copy_items).
THEOREM BooksShownOfCard == Spec => []ShownOfCard
<1>1. CatalogInv /\ SoundInv /\ ShownInv /\ [Next]_vars => ShownInv'
  BY HistoryStep, WorkerOfCardStep, BooksOfCardStep DEF ShownInv
<1>2. ShownInv => ShownOfCard
  <2> SUFFICES ASSUME ShownInv, calls = <<>>, books.shown # NoItems
               PROVE  /\ books.generation > 0 /\ cards[books.generation] # None
                      /\ DOMAIN books.shown \subseteq Shelf[cards[books.generation]]
    BY DEF ShownOfCard
  <2>1. OfCard(cards, books.shown, books.generation)
    BY DEF ShownInv, BooksOfCard, PageOwed
  <2>2. books.generation \in 1 .. Len(cards) /\ cards[books.generation] \in Cards
    BY <2>1 DEF OfCard
  <2> QED
    BY <2>1, <2>2, ShelfAssumption DEF OfCard, ShownInv, History
<1> QED
  BY <1>1, <1>2, CatalogInit, CatalogStep, SoundInit, SoundStep, ShownInit, PTL DEF Spec

-----------------------------------------------------------------------------
(* What the catalog lists.  While no call to the card fails, a list that   *)
(* is not to be scanned again is the list of a scan of the present card,   *)
(* or of a card that has gone, or it is empty because nothing is selected. *)
(* The worker meets the card at three moments (the check before it reads   *)
(* the file, the state it publishes, the scan it asks for), and between    *)
(* them the card may go; that it cannot come unnoticed rests on every      *)
(* generation the worker is given having begun already.                    *)

StatusesUpTo(n) == [state : States, generation : 0 .. n]
AccessesUpTo(n) ==
    {<<"activation">>, <<"activate">>, <<"deactivate">>, <<"serial">>, <<"snapshot">>, <<"page">>}
        \cup {<<"generation", g>> : g \in 0 .. n}
        \cup {<<"bits", s>> : s \in SUBSET Formats}
DesiredShape ==
    desired = [generation |-> desired.generation, serial |-> desired.serial,
               bits |-> desired.bits]

\* Every generation that is on its way to the worker has begun.
Known ==
    /\ DesiredShape
    /\ desired.generation \in 0 .. media.generation
    /\ worker.generation \in 0 .. media.generation
    /\ statuses \in Seq(StatusesUpTo(media.generation))
    /\ calls \in Seq(AccessesUpTo(media.generation))

\* What was known stays known.
LEMMA UpToGrows ==
    ASSUME NEW n \in Nat, NEW m \in Nat, n <= m
    PROVE  /\ 0 .. n \subseteq 0 .. m
           /\ \A q \in Seq(StatusesUpTo(n)) : q \in Seq(StatusesUpTo(m))
           /\ \A q \in Seq(AccessesUpTo(n)) : q \in Seq(AccessesUpTo(m))
<1>1. 0 .. n \subseteq 0 .. m
  OBVIOUS
<1>2. StatusesUpTo(n) \subseteq StatusesUpTo(m)
  BY <1>1 DEF StatusesUpTo
<1>3. AccessesUpTo(n) \subseteq AccessesUpTo(m)
  BY <1>1 DEF AccessesUpTo
<1>4. ASSUME NEW S, NEW T, S \subseteq T PROVE \A q \in Seq(S) : q \in Seq(T)
  BY <1>4
<1> QED
  BY <1>1, <1>2, <1>3, <1>4

\* The scripts of the handlers, under the generation n.
LEMMA KnownScripts ==
    ASSUME NEW n \in Nat
    PROVE  /\ <<>> \in Seq(AccessesUpTo(n)) /\ Refresh \in Seq(AccessesUpTo(n))
           /\ Pause \in Seq(AccessesUpTo(n)) /\ DirtyRefresh \in Seq(AccessesUpTo(n))
           /\ \A g \in 0 .. n : Activate(g) \o Refresh \in Seq(AccessesUpTo(n))
           /\ \A s \in SUBSET Formats : UpdateSettings(s) \in Seq(AccessesUpTo(n))
<1>1. <<>> \in Seq(AccessesUpTo(n)) /\ Refresh \in Seq(AccessesUpTo(n))
  BY DEF Refresh, AccessesUpTo
<1>2. Pause \in Seq(AccessesUpTo(n))
  BY DEF Pause, AccessesUpTo
<1>3. DirtyRefresh \in Seq(AccessesUpTo(n))
  BY <1>1 DEF DirtyRefresh
<1>4. \A g \in 0 .. n : Activate(g) \o Refresh \in Seq(AccessesUpTo(n))
  <2>1. \A g \in 0 .. n : Activate(g) \in Seq(AccessesUpTo(n))
    BY DEF Activate, AccessesUpTo
  <2> QED
    BY <1>1, <2>1
<1>5. \A s \in SUBSET Formats : UpdateSettings(s) \in Seq(AccessesUpTo(n))
  BY DEF UpdateSettings, AccessesUpTo
<1> QED
  BY <1>1, <1>2, <1>3, <1>4, <1>5

\* The worker takes its generation from what is desired of it, and writes there its
\* settings only.
LEMMA WorkerGeneration ==
    ASSUME WorkerShape, DesiredShape, WorkerStep
    PROVE  /\ worker'.generation \in {worker.generation, desired.generation}
           /\ DesiredShape' /\ desired'.generation = desired.generation
<1>1. CASE SeeActive \/ Acknowledge \/ StartLoading \/ PublishLoaded \/ SettingsSaved
           \/ RemoveCatalog \/ RenameCatalog \/ SaveFails \/ NoMedia \/ StartScan
           \/ NothingToDo \/ AbandonScan
  BY <1>1 DEF SeeActive, Acknowledge, StartLoading, PublishLoaded, SettingsSaved,
     RemoveCatalog, RenameCatalog, SaveFails, NoMedia, StartScan, NothingToDo, AbandonScan,
     shared, DesiredShape
<1>2. CASE ReadContext
  BY <1>2 DEF ReadContext, WorkerShape, shared, DesiredShape
<1>3. CASE AdoptContext
  <2>1. UNCHANGED desired
    BY <1>3 DEF AdoptContext, shared
  <2>2. PICK l : l = (worker.loaded /\ ~Reload)
    OBVIOUS
  <2>3. worker'.generation = worker.generation
    BY <1>3, <2>2 DEF AdoptContext, WorkerShape
  <2> QED
    BY <2>1, <2>3 DEF DesiredShape
<1>4. CASE AdoptSettings
  BY <1>4 DEF AdoptSettings, WorkerShape, DesiredShape
<1>5. CASE CheckMedia \/ LoadCatalog \/ ChangeSettings \/ ScanFails \/ ListDirectories
           \/ PopulateItems \/ ReplaceCatalog \/ OpenEpub \/ BuildEpub \/ AbandonEpub
           \/ PublishCover \/ SaveCovers \/ FinishCatalog \/ Loaded
  <2>1. UNCHANGED desired
    BY <1>5, Zenon DEF CheckMedia, LoadCatalog, ChangeSettings, ScanFails, ListDirectories,
       PopulateItems, ReplaceCatalog, OpenEpub, BuildEpub, AbandonEpub, PublishCover,
       SaveCovers, FinishCatalog, Loaded, shared
  <2>2. worker'.generation = worker.generation
    <3>1. CASE Loaded
      BY <3>1 DEF Loaded, WorkerShape
    <3>2. CASE ChangeSettings
      BY <3>2 DEF ChangeSettings, WorkerShape
    <3>3. CASE OpenEpub \/ BuildEpub \/ SaveCovers
      BY <3>3 DEF OpenEpub, BuildEpub, SaveCovers, WorkerShape
    <3>4. CASE CheckMedia \/ LoadCatalog \/ ScanFails \/ ListDirectories \/ PopulateItems
               \/ ReplaceCatalog \/ AbandonEpub \/ PublishCover \/ FinishCatalog
      BY <3>4 DEF CheckMedia, LoadCatalog, ScanFails, ListDirectories, PopulateItems,
         ReplaceCatalog, AbandonEpub, PublishCover, FinishCatalog, WorkerShape
    <3> QED
      BY <1>5, <3>1, <3>2, <3>3, <3>4
  <2> QED
    BY <2>1, <2>2 DEF DesiredShape
<1> QED
  BY <1>1, <1>2, <1>3, <1>4, <1>5 DEF WorkerStep

\* A step of the worker knows no more than the one before.
LEMMA WorkerKnows == ASSUME SoundInv, Known, WorkerStep PROVE Known'
<1>1. UNCHANGED <<media, statuses, calls>>
  BY WorkerElsewhere
<1>2. /\ worker'.generation \in {worker.generation, desired.generation}
      /\ DesiredShape' /\ desired'.generation = desired.generation
  BY WorkerGeneration DEF SoundInv, Shapes, Known
<1> QED
  BY <1>1, <1>2 DEF Known

\* One access: the generation handed to the worker had begun when the script was made.
LEMMA MakeCallKnows == ASSUME SoundInv, Known, MakeCall PROVE Known'
<1>1. PICK n \in Nat : n = media.generation
  BY DEF SoundInv, Shapes, MediaShape
<1>2. calls \in Seq(AccessesUpTo(n)) /\ calls # <<>> /\ calls' = Tail(calls)
      /\ UNCHANGED <<media, statuses, worker>>
  BY <1>1 DEF Known, MakeCall, Elsewhere2
<1>3. PICK op : op = Head(calls)
  OBVIOUS
<1>4. Tail(calls) \in Seq(AccessesUpTo(n)) /\ op \in AccessesUpTo(n)
  BY <1>2, <1>3, HeadTail
<1>5. DesiredShape' /\ desired'.generation \in 0 .. n
  <2>1. DesiredShape /\ desired.generation \in 0 .. n
    BY <1>1 DEF Known
  <2>2. CASE op[1] = "generation"
    <3>1. op[2] \in 0 .. n
      BY <1>4, <2>2 DEF AccessesUpTo
    <3>2. desired' = [desired EXCEPT !.generation = op[2]]
      BY <1>3, <2>2 DEF MakeCall
    <3> QED
      BY <2>1, <3>1, <3>2 DEF DesiredShape
  <2>3. CASE op[1] = "bits"
    <3>1. desired' = [desired EXCEPT !.bits = op[2]]
      BY <1>3, <2>3 DEF MakeCall
    <3> QED
      BY <2>1, <3>1 DEF DesiredShape
  <2>4. CASE op[1] = "serial"
    <3>1. desired' = [desired EXCEPT !.serial = @ + 1]
      BY <1>3, <2>4 DEF MakeCall
    <3> QED
      BY <2>1, <3>1 DEF DesiredShape
  <2>5. CASE op[1] \notin {"generation", "bits", "serial"}
    <3>1. UNCHANGED desired
      BY <1>3, <2>5 DEF MakeCall, shared
    <3> QED
      BY <2>1, <3>1 DEF DesiredShape
  <2> QED
    BY <2>2, <2>3, <2>4, <2>5
<1>6. calls' \in Seq(AccessesUpTo(n)) /\ worker.generation \in 0 .. n
      /\ statuses \in Seq(StatusesUpTo(n))
  BY <1>1, <1>2, <1>4 DEF Known
<1> QED
  BY <1>1, <1>2, <1>5, <1>6 DEF Known

\* A handler hands on the present generation or one a status has reported.
LEMMA HandlersKnow ==
    ASSUME SoundInv, Known, UITask \/ HandleStatus \/ TakeEvent \/ LaunchReader PROVE Known'
<1>1. PICK n \in Nat : n = media.generation
  BY DEF SoundInv, Shapes, MediaShape
<1>2. UNCHANGED <<media, desired, worker>> /\ calls = <<>>
  BY DEF UITask, LaunchBooks, LeaveBooks, OpenDialog, CancelSettings, LeaveReader, InBooks,
     ConfirmSettings, SelectBook, LaunchFromFiles, HandleStatus, TakeEvent, LaunchReader,
     Elsewhere2, shared
<1>3. n \in 0 .. n
  OBVIOUS
<1>4. statuses' \in Seq(StatusesUpTo(n))
      /\ (HandleStatus => Head(statuses).generation \in 0 .. n)
  <2>1. statuses \in Seq(StatusesUpTo(n))
    BY <1>1 DEF Known
  <2>2. CASE HandleStatus
    <3>1. statuses # <<>> /\ statuses' = Tail(statuses)
      BY <2>2 DEF HandleStatus
    <3>2. Tail(statuses) \in Seq(StatusesUpTo(n)) /\ Head(statuses) \in StatusesUpTo(n)
      BY <2>1, <3>1, HeadTail
    <3> QED
      BY <3>1, <3>2 DEF StatusesUpTo
  <2>3. CASE ~HandleStatus
    <3>1. UNCHANGED statuses
      BY <2>3 DEF UITask, LaunchBooks, LeaveBooks, OpenDialog, CancelSettings, LeaveReader,
         ConfirmSettings, SelectBook, LaunchFromFiles, TakeEvent, LaunchReader
    <3> QED
      BY <2>1, <2>3, <3>1
  <2> QED
    BY <2>2, <2>3
<1>5. calls' \in Seq(AccessesUpTo(n))
  <2>1. CASE \E back : OpenBooks(back)
    <3>1. calls' = Activate(n) \o Refresh
      BY <1>1, <2>1 DEF OpenBooks
    <3> QED
      BY <1>3, <3>1, KnownScripts
  <2>2. CASE calls' \in {<<>>, Pause, Refresh, DirtyRefresh}
    BY <2>2, KnownScripts
  <2>3. CASE HandleStatus
    <3>1. calls' = calls \/ calls' = Activate(Head(statuses).generation) \o Refresh
      BY <2>3 DEF HandleStatus
    <3> QED
      BY <1>2, <1>4, <2>3, <3>1, KnownScripts
  <2>4. CASE \E s \in Choices : ConfirmSettings(s)
    <3>1. PICK s \in Choices : ConfirmSettings(s)
      BY <2>4
    <3>2. s \in SUBSET Formats
      BY CatalogBoundsAssumption
    <3>3. \E u \in {UpdateSettings(s), <<>>} : calls' = u \o DirtyRefresh
      BY <3>1 DEF ConfirmSettings
    <3>4. PICK u \in {UpdateSettings(s), <<>>} : calls' = u \o DirtyRefresh
      BY <3>3
    <3>5. u \in Seq(AccessesUpTo(n)) /\ DirtyRefresh \in Seq(AccessesUpTo(n))
      BY <3>2, KnownScripts
    <3> QED
      BY <3>4, <3>5, ConcatProperties
  <2>5. CASE LaunchBooks \/ LeaveBooks \/ OpenDialog \/ CancelSettings \/ TakeEvent
             \/ LaunchReader
    BY <1>2, <2>1, <2>2, <2>5 DEF LaunchBooks, LeaveBooks, OpenDialog, CancelSettings,
       TakeEvent, LaunchReader
  <2>6. CASE LeaveReader \/ \E b \in Books : SelectBook(b) \/ LaunchFromFiles(b)
    BY <1>2, <2>1, <2>2, <2>6 DEF LeaveReader, SelectBook, LaunchFromFiles
  <2> QED
    BY <2>3, <2>4, <2>5, <2>6 DEF UITask
<1>6. worker.generation \in 0 .. n /\ DesiredShape /\ desired.generation \in 0 .. n
  BY <1>1 DEF Known
<1> QED
  BY <1>1, <1>2, <1>4, <1>5, <1>6 DEF Known, DesiredShape

\* A card that comes or goes begins a generation, and a status reports one that has begun.
LEMMA CardKnows ==
    ASSUME SoundInv, Known, RemoveCard \/ PublishState \/ \E c \in Cards : InsertCard(c)
    PROVE  Known' /\ media'.generation \in {media.generation, media.generation + 1}
<1>1. PICK n \in Nat : n = media.generation
  BY DEF SoundInv, Shapes, MediaShape
<1>2. PICK m \in Nat : m = n + 1
  OBVIOUS
<1>3. UNCHANGED <<desired, worker, calls>>
  BY DEF RemoveCard, PublishState, InsertCard, shared, uiVars
<1>4. /\ DesiredShape /\ desired.generation \in 0 .. n /\ worker.generation \in 0 .. n
      /\ statuses \in Seq(StatusesUpTo(n)) /\ calls \in Seq(AccessesUpTo(n))
  BY <1>1 DEF Known
<1>5. /\ desired.generation \in 0 .. m /\ worker.generation \in 0 .. m
      /\ statuses \in Seq(StatusesUpTo(m)) /\ calls \in Seq(AccessesUpTo(m))
  BY <1>2, <1>4, UpToGrows
<1>6. CASE RemoveCard
  <2>1. media'.generation = m /\ UNCHANGED statuses
    BY <1>1, <1>2, <1>6, RemovalFacts DEF SoundInv, Shapes, RemoveCard
  <2> QED
    BY <1>1, <1>2, <1>3, <1>4, <1>5, <2>1 DEF Known, DesiredShape
<1>7. CASE \E c \in Cards : InsertCard(c)
  <2>1. PICK s : s = [state |-> "mounting", generation |-> m]
    OBVIOUS
  <2>2. media'.generation = m /\ statuses' = Append(statuses, s)
    BY <1>1, <1>2, <1>7, <2>1 DEF InsertCard
  <2>3. s \in StatusesUpTo(m)
    BY <1>2, <2>1 DEF StatusesUpTo, States
  <2>4. statuses' \in Seq(StatusesUpTo(m))
    BY <1>5, <2>2, <2>3
  <2> QED
    BY <1>1, <1>2, <1>3, <1>4, <1>5, <2>2, <2>4 DEF Known, DesiredShape
<1>8. CASE PublishState
  <2>1. PICK st \in IF media.card = None THEN {"no_card"}
                    ELSE {"ready"} \cup (IF Faults THEN {"error"} ELSE {}) :
           /\ media' = [media EXCEPT !.state = st, !.changing = FALSE]
           /\ statuses' = Append(statuses, [state |-> st, generation |-> media.generation])
    BY <1>8 DEF PublishState
  <2>2. st \in States
    BY <2>1 DEF States
  <2>3. PICK s : s = [state |-> st, generation |-> n]
    OBVIOUS
  <2>4. s \in StatusesUpTo(n)
    BY <2>2, <2>3 DEF StatusesUpTo
  <2>5. statuses' \in Seq(StatusesUpTo(n))
    BY <1>1, <1>4, <2>1, <2>3, <2>4
  <2>6. media'.generation = n
    BY <1>1, <2>1 DEF SoundInv, Shapes, MediaShape
  <2> QED
    BY <1>1, <1>3, <1>4, <2>5, <2>6 DEF Known, DesiredShape
<1> QED
  BY <1>6, <1>7, <1>8

-----------------------------------------------------------------------------
(* The list itself.                                                        *)

Loads == {"load", "check", "read", "adopt", "adopted", "loaded"}
Listed == {"save", "replacing", "filtered", "enrich", "build", "enriched", "finish", "finished"}

\* The list is complete: nothing is selected, or a scan has found all there is.
FoundAll ==
    \/ worker.settings = {} /\ DOMAIN published.items = {}
    \/ /\ Seen(worker.current)
       /\ worker.current = media.generation =>
             DOMAIN published.items = Selected(media.card, worker.settings)

Flags ==
    /\ worker.loaded \in BOOLEAN /\ worker.scan \in BOOLEAN /\ worker.enrich \in BOOLEAN
    /\ pc \in Loads => ~worker.loaded
    /\ pc = "settings" => worker.loaded
\* The card was there, or is not, when the state of the loaded list is decided.
NoWindow ==
    pc \in {"adopt", "adopted", "loaded"} /\ worker.current = media.generation
        /\ media.state = "ready" => ~media.changing
LoadedSeen == pc = "loaded" /\ published.state = "ready" => Seen(worker.current)
EnrichSeen == worker.enrich => Seen(worker.current)
FoundExact ==
    pc \in {"populate", "replace"} =>
        /\ Seen(worker.current)
        /\ worker.current = media.generation =>
               worker.found = Selected(media.card, worker.settings)
ListExact ==
    worker.loaded /\ ~worker.scan /\ (worker.enrich \/ published.state = "ready") => FoundAll
WorkExact == pc \in Listed /\ ~worker.scan => FoundAll
Counted == worker.loaded \/ pc = "loaded" => published.count = Cardinality(DOMAIN published.items)

ExactInv ==
    /\ Flags /\ NoWindow /\ LoadedSeen /\ EnrichSeen /\ FoundExact /\ ListExact /\ WorkExact
    /\ Counted

\* A step of the worker that keeps the list, and calls it ready only when it is complete.
LEMMA ListStays ==
    ASSUME ExactInv, UNCHANGED media, published'.items = published.items,
           worker'.current = worker.current, worker'.settings = worker.settings,
           worker'.scan = worker.scan, worker'.loaded \in {worker.loaded, FALSE},
           worker'.enrich \in {worker.enrich, FALSE},
           published'.count \in {published.count, Cardinality(DOMAIN published.items)},
           \/ published'.state = published.state \/ published'.state # "ready"
           \/ pc \in Listed,
           pc' \in Loads => ~worker'.loaded, pc' = "settings" => worker'.loaded,
           pc' \in {"adopt", "adopted"} => pc = "adopt", pc' # "loaded",
           pc' \notin {"populate", "replace"},
           pc' \in Listed => pc \in Listed \/ (worker.loaded /\ worker.enrich)
    PROVE  ExactInv'
<1> USE DEF ExactInv
<1>1. \A g : Seen(g)' <=> Seen(g)
  BY DEF Seen
<1>2. FoundAll => FoundAll'
  BY <1>1 DEF FoundAll, Selected
<1>3. Flags'
  BY DEF Flags
<1>4. NoWindow' /\ LoadedSeen' /\ FoundExact'
  BY DEF NoWindow, LoadedSeen, FoundExact
<1>5. EnrichSeen'
  BY <1>1 DEF EnrichSeen
<1>6. ListExact'
  BY <1>2 DEF Flags, ListExact, WorkExact
<1>7. WorkExact'
  BY <1>2 DEF Flags, ListExact, WorkExact
<1>8. Counted'
  BY DEF Flags, Counted
<1> QED
  BY <1>3, <1>4, <1>5, <1>6, <1>7, <1>8

\* Whoever does not move the worker keeps all this.
LEMMA OthersExact ==
    ASSUME ExactInv, UNCHANGED <<media, published, pc, worker>> PROVE ExactInv'
<1> USE DEF ExactInv
<1>1. \A g : Seen(g)' <=> Seen(g)
  BY DEF Seen
<1>2. FoundAll => FoundAll'
  BY <1>1 DEF FoundAll, Selected
<1>3. Flags' /\ NoWindow' /\ Counted'
  BY DEF Flags, NoWindow, Counted
<1>4. LoadedSeen' /\ EnrichSeen' /\ FoundExact'
  BY <1>1 DEF LoadedSeen, EnrichSeen, FoundExact, Selected
<1>5. ListExact' /\ WorkExact'
  BY <1>2 DEF ListExact, WorkExact
<1> QED
  BY <1>3, <1>4, <1>5

\* A card that comes or goes is not the one the worker has listed, and the one whose state
\* is published nobody has listed yet.
LEMMA CardExact ==
    ASSUME SoundInv, Known, ExactInv,
           RemoveCard \/ PublishState \/ \E c \in Cards : InsertCard(c)
    PROVE  ExactInv'
<1> USE DEF ExactInv
<1>1. UNCHANGED <<published, pc, worker>>
  BY DEF RemoveCard, PublishState, InsertCard
<1>2. ~media'.changing \/ media'.state # "ready" \/ media'.generation = media.generation + 1
  <2>1. CASE RemoveCard
    BY <2>1, RemovalFacts DEF SoundInv, Shapes
  <2>2. CASE \E c \in Cards : InsertCard(c)
    BY <2>2 DEF InsertCard
  <2>3. CASE PublishState
    BY <2>3 DEF PublishState, SoundInv, Shapes, MediaShape
  <2> QED
    BY <2>1, <2>2, <2>3
<1>3. \A g : Seen(g) => Seen(g)' /\ g # media'.generation
  <2>1. CASE RemoveCard
    BY <2>1, RemovalFacts DEF SoundInv, Shapes, MediaShape, Seen
  <2>2. CASE \E c \in Cards : InsertCard(c)
    BY <2>2 DEF InsertCard, SoundInv, Shapes, MediaShape, Seen
  <2>3. CASE PublishState
    <3>1. media.changing /\ media'.generation = media.generation
      BY <2>3 DEF PublishState, SoundInv, Shapes, MediaShape
    <3> QED
      BY <3>1 DEF Seen
  <2> QED
    BY <2>1, <2>2, <2>3
<1>4. pc \in Working \ Prelude => worker.current \in Nat /\ worker.current <= media.generation
  BY DEF SoundInv, OneContext, Known, Shapes, MediaShape
<1>5. FoundAll => FoundAll'
  BY <1>1, <1>3 DEF FoundAll
<1>6. Flags' /\ Counted'
  BY <1>1 DEF Flags, Counted
<1>7. NoWindow'
  BY <1>1, <1>2, <1>4 DEF NoWindow, Working, Prelude, SoundInv, Shapes, MediaShape
<1>8. LoadedSeen' /\ EnrichSeen' /\ FoundExact'
  BY <1>1, <1>3 DEF LoadedSeen, EnrichSeen, FoundExact
<1>9. ListExact' /\ WorkExact'
  BY <1>1, <1>5 DEF ListExact, WorkExact
<1> QED
  BY <1>6, <1>7, <1>8, <1>9

\* Most steps of the worker are of this kind.
LEMMA StaysExact ==
    ASSUME SoundInv, ExactInv,
           \/ SeeActive \/ Acknowledge \/ ReadContext \/ StartLoading \/ AdoptSettings
           \/ SettingsSaved \/ SaveFails \/ NoMedia \/ StartScan \/ NothingToDo \/ AbandonScan
           \/ AbandonEpub \/ SaveCovers \/ FinishCatalog \/ RemoveCatalog \/ RenameCatalog
           \/ OpenEpub \/ BuildEpub
    PROVE  ExactInv'
<1>1. WorkerShape /\ SnapshotShape(published)
      /\ worker.after \in {"top", "filtered", "enrich", "finished"}
  BY DEF SoundInv, Shapes, WorkerShape
<1>2. UNCHANGED media
  BY WorkerElsewhere DEF WorkerStep
<1>3. /\ worker'.current = worker.current /\ worker'.settings = worker.settings
      /\ worker'.scan = worker.scan /\ worker'.loaded = worker.loaded
      /\ worker'.enrich \in {worker.enrich, FALSE}
  <2>1. CASE UNCHANGED worker
    BY <2>1
  <2>2. CASE ReadContext
    BY <1>1, <2>2 DEF ReadContext, WorkerShape
  <2>3. CASE AdoptSettings \/ AbandonEpub \/ FinishCatalog
    BY <1>1, <2>3 DEF AdoptSettings, AbandonEpub, FinishCatalog, WorkerShape
  <2>4. CASE SaveCovers
    BY <1>1, <2>4 DEF SaveCovers, WorkerShape
  <2>5. CASE OpenEpub \/ BuildEpub
    BY <1>1, <2>5 DEF OpenEpub, BuildEpub, WorkerShape
  <2> QED
    BY <2>1, <2>2, <2>3, <2>4, <2>5 DEF SeeActive, Acknowledge, StartLoading, SettingsSaved,
       SaveFails, NoMedia, StartScan, NothingToDo, AbandonScan, RemoveCatalog, RenameCatalog
<1>4. Flags
  BY DEF ExactInv
<1>5. CASE SeeActive \/ Acknowledge \/ ReadContext \/ AdoptSettings \/ SaveFails
           \/ NothingToDo \/ AbandonScan \/ AbandonEpub \/ SaveCovers \/ RemoveCatalog
           \/ RenameCatalog \/ OpenEpub \/ BuildEpub
  <2>1. UNCHANGED published
    BY <1>5, Zenon DEF SeeActive, Acknowledge, ReadContext, AdoptSettings, SaveFails, NothingToDo,
       AbandonScan, AbandonEpub, SaveCovers, RemoveCatalog, RenameCatalog, OpenEpub,
       BuildEpub, Silent
  <2>2. /\ pc' \in Loads => pc = "adopt" /\ pc' = "adopted"
        /\ pc' \notin {"settings", "populate", "replace"}
        /\ pc' \in Listed => pc \in Listed \/ (pc = "settings" /\ worker.enrich)
    BY <1>1, <1>5 DEF SeeActive, Acknowledge, ReadContext, AdoptSettings, SaveFails,
       NothingToDo, SameSettings, AbandonScan, AbandonEpub, SaveCovers, RemoveCatalog,
       RenameCatalog, OpenEpub, BuildEpub, Go, Loads, Listed
  <2>3. pc = "adopt" => ~worker.loaded
    BY <1>4 DEF Flags, Loads
  <2>4. pc = "settings" => worker.loaded
    BY <1>4 DEF Flags
  <2>5. pc' # "loaded" /\ (pc' \in {"adopt", "adopted"} => pc = "adopt")
    BY <2>2 DEF Loads
  <2> QED
    BY <1>2, <1>3, <2>1, <2>2, <2>3, <2>4, <2>5, ListStays
<1>6. CASE StartLoading \/ NoMedia \/ StartScan \/ SettingsSaved \/ FinishCatalog
  <2>1. \/ UNCHANGED published
        \/ \E s : UpdateState(published, s) /\ (s # "ready" \/ pc \in Listed)
    <3>1. CASE StartLoading
      BY <3>1 DEF StartLoading
    <3>2. CASE NoMedia
      BY <3>2 DEF NoMedia
    <3>3. CASE StartScan
      BY <3>3 DEF StartScan
    <3>4. CASE SettingsSaved
      BY <3>4 DEF SettingsSaved, Silent, Listed
    <3>5. CASE FinishCatalog
      BY <3>5 DEF FinishCatalog, Listed
    <3> QED
      BY <1>6, <3>1, <3>2, <3>3, <3>4, <3>5
  <2>2. /\ published'.items = published.items
        /\ published'.count \in {published.count, Cardinality(DOMAIN published.items)}
        /\ \/ published'.state = published.state \/ published'.state # "ready"
           \/ pc \in Listed
    BY <1>1, <2>1, UpdateFacts
  <2>3. /\ pc' \in Loads => pc = "load" /\ pc' = "check"
        /\ pc' \notin {"settings", "populate", "replace"} /\ pc' \notin Listed
    BY <1>6 DEF StartLoading, NoMedia, StartScan, SameSettings, SettingsSaved, FinishCatalog,
       Go, Loads, Listed
  <2>4. pc = "load" => ~worker.loaded
    BY <1>4 DEF Flags, Loads
  <2>5. pc' \notin {"loaded", "adopt", "adopted"}
    BY <2>3 DEF Loads
  <2> QED
    BY <1>2, <1>3, <2>2, <2>3, <2>4, <2>5, ListStays
<1> QED
  BY <1>5, <1>6

\* What does not keep the list while it is being loaded.
LEMMA LoadsExact ==
    ASSUME ExactInv, UNCHANGED media, worker'.current = worker.current,
           Flags', ~worker'.loaded, worker'.enrich = worker.enrich, NoWindow', pc' \in Loads,
           pc' # "loaded"
    PROVE  ExactInv'
<1>1. EnrichSeen'
  BY DEF ExactInv, EnrichSeen, Seen
<1>2. LoadedSeen' /\ FoundExact' /\ ListExact' /\ WorkExact' /\ Counted'
  BY DEF Loads, Listed, LoadedSeen, FoundExact, ListExact, WorkExact, Counted
<1> QED
  BY <1>1, <1>2 DEF ExactInv

\* Another generation, or the same list once more.
LEMMA AdoptContextExact == ASSUME SoundInv, ExactInv, AdoptContext PROVE ExactInv'
<1>1. WorkerShape /\ SnapshotShape(published) /\ UNCHANGED media /\ Flags
  BY DEF SoundInv, Shapes, AdoptContext, Elsewhere, ExactInv
<1>2. pc' = (IF worker'.loaded THEN "settings" ELSE "load")
  BY DEF AdoptContext, Go
<1>3. CASE worker' = [worker EXCEPT !.seenActivation = worker.activation,
                !.current = worker.generation, !.loaded = FALSE, !.scan = FALSE,
                !.enrich = FALSE]
  <2>1. worker'.loaded = FALSE /\ worker'.scan = FALSE /\ worker'.enrich = FALSE
    BY <1>1, <1>3 DEF WorkerShape
  <2>2. pc' = "load"
    BY <1>2, <2>1
  <2> QED
    BY <2>1, <2>2 DEF ExactInv, Flags, NoWindow, LoadedSeen, EnrichSeen, FoundExact, ListExact,
       WorkExact, Counted, Loads, Listed
<1>4. CASE /\ worker' = [worker EXCEPT !.seenActivation = worker.activation,
                                       !.loaded = worker.loaded /\ ~Reload]
           /\ UNCHANGED published
  <2>1. PICK l : l = (worker.loaded /\ ~Reload)
    OBVIOUS
  <2>2. worker' = [worker EXCEPT !.seenActivation = worker.activation, !.loaded = l]
    BY <1>4, <2>1
  <2>3. l \in {worker.loaded, FALSE}
    BY <1>1, <2>1 DEF Flags
  <2>4. /\ worker'.current = worker.current /\ worker'.settings = worker.settings
        /\ worker'.scan = worker.scan /\ worker'.enrich = worker.enrich /\ worker'.loaded = l
    BY <1>1, <2>2 DEF WorkerShape
  <2>5. /\ pc' \in {"load", "settings"} /\ (pc' = "settings" => l) /\ (pc' = "load" => ~l)
        /\ pc' \notin Listed
    BY <1>2, <2>4 DEF Listed
  <2>6. pc' \in Loads => pc' = "load"
    BY <2>5 DEF Loads
  <2> QED
    BY <1>1, <1>4, <2>3, <2>4, <2>5, <2>6, ListStays
<1> QED
  BY <1>3, <1>4 DEF AdoptContext

\* A card that is not there when it is checked is another than the present one.
LEMMA CheckMediaExact == ASSUME SoundInv, ExactInv, CheckMedia PROVE ExactInv'
<1>1. WorkerShape /\ UNCHANGED media /\ Flags /\ pc = "check" /\ pc' \in {"read", "adopt"}
  BY DEF SoundInv, Shapes, CheckMedia, Elsewhere, ExactInv, Go
<1>2. /\ worker'.current = worker.current /\ worker'.loaded = worker.loaded
      /\ worker'.scan = worker.scan /\ worker'.enrich = worker.enrich
  BY <1>1 DEF CheckMedia, WorkerShape
<1>3. ~worker.loaded /\ Flags' /\ pc' \in Loads
  BY <1>1, <1>2 DEF Flags, Loads
<1>4. pc' = "adopt" => ~MediaValid(worker.generation)
  BY DEF CheckMedia, Go
<1>5. worker.generation = worker.current
  BY <1>1 DEF SoundInv, OneContext, Working, Prelude
<1>6. NoWindow'
  BY <1>1, <1>2, <1>4, <1>5 DEF NoWindow, MediaValid
<1> QED
  BY <1>1, <1>2, <1>3, <1>6, LoadsExact

\* The catalog file is read while no card comes or goes.
LEMMA LoadCatalogExact == ASSUME SoundInv, ExactInv, LoadCatalog PROVE ExactInv'
<1>1. WorkerShape /\ UNCHANGED media /\ Flags /\ pc = "read" /\ pc' = "adopt" /\ GateOpen
  BY DEF SoundInv, Shapes, LoadCatalog, Elsewhere, ExactInv, Go
<1>2. /\ worker'.current = worker.current /\ worker'.loaded = worker.loaded
      /\ worker'.scan = worker.scan /\ worker'.enrich = worker.enrich
  BY <1>1 DEF LoadCatalog, WorkerShape
<1>3. ~worker.loaded /\ Flags' /\ pc' \in Loads
  BY <1>1, <1>2 DEF Flags, Loads
<1>4. NoWindow'
  BY <1>1, <1>2 DEF NoWindow, GateOpen
<1> QED
  BY <1>1, <1>2, <1>3, <1>4, LoadsExact

\* The loaded list is called ready while the card is there.
LEMMA PublishLoadedExact == ASSUME SoundInv, ExactInv, PublishLoaded PROVE ExactInv'
<1>1. WorkerShape /\ SnapshotShape(published) /\ UNCHANGED <<media, worker>> /\ Flags
      /\ pc = "adopted" /\ pc' = "loaded"
  BY DEF SoundInv, Shapes, PublishLoaded, Elsewhere, ExactInv, Go
<1>2. PICK p : p = [published EXCEPT !.settings = worker.settings]
  OBVIOUS
<1>3. PICK s : s = IF MediaValid(worker.generation) THEN "ready" ELSE "unavailable"
  OBVIOUS
<1>4. SnapshotShape(p) /\ UpdateState(p, s)
  BY <1>1, <1>2, <1>3 DEF SnapshotShape, PublishLoaded
<1>5. /\ published'.items = p.items /\ published'.state = s
      /\ published'.count = Cardinality(DOMAIN p.items)
  BY <1>4, UpdateFacts
<1>6. Flags' /\ ~worker'.loaded
  BY <1>1 DEF Flags, Loads
<1>7. NoWindow'
  BY <1>1 DEF ExactInv, NoWindow
<1>8. LoadedSeen'
  <2>1. worker.generation = worker.current
    BY <1>1 DEF SoundInv, OneContext, Working, Prelude
  <2>2. published'.state = "ready" => MediaValid(worker.generation)
    BY <1>3, <1>5
  <2> QED
    BY <1>1, <2>1, <2>2 DEF LoadedSeen, Seen, MediaValid, ExactInv, NoWindow, SoundInv, Shapes,
       MediaShape
<1>9. EnrichSeen'
  BY <1>1 DEF ExactInv, EnrichSeen, Seen
<1>10. FoundExact' /\ ListExact' /\ WorkExact'
  BY <1>1, <1>6 DEF FoundExact, ListExact, WorkExact, Listed
<1>11. Counted'
  BY <1>5 DEF Counted
<1> QED
  BY <1>6, <1>7, <1>8, <1>9, <1>10, <1>11 DEF ExactInv

\* Where something is selected and the card is still there, a scan is asked for.
LEMMA LoadedExact == ASSUME SoundInv, ExactInv, Loaded PROVE ExactInv'
<1>1. WorkerShape /\ UNCHANGED <<media, published>> /\ Flags
      /\ pc = "loaded" /\ pc' = "settings"
  BY DEF SoundInv, Shapes, Loaded, Elsewhere, Silent, ExactInv, Go
<1>2. PICK scan \in BOOLEAN : scan = (MediaValid(worker.generation) /\ worker.settings # {})
  OBVIOUS
<1>3. worker' = [worker EXCEPT !.loaded = TRUE, !.scan = scan]
  BY <1>2 DEF Loaded
<1>4. /\ worker'.current = worker.current /\ worker'.loaded = TRUE
      /\ worker'.settings = worker.settings
      /\ worker'.scan = scan /\ worker'.enrich = worker.enrich
  BY <1>1, <1>3 DEF WorkerShape
<1>5. Flags'
  BY <1>1, <1>4 DEF Flags, Loads
<1>6. NoWindow' /\ LoadedSeen' /\ FoundExact' /\ WorkExact'
  BY <1>1 DEF NoWindow, LoadedSeen, FoundExact, WorkExact, Listed
<1>7. EnrichSeen'
  BY <1>1, <1>4 DEF ExactInv, EnrichSeen, Seen
<1>8. Counted'
  BY <1>1 DEF ExactInv, Counted
<1>9. ListExact'
  <2> SUFFICES ASSUME ~scan, worker.enrich \/ published.state = "ready" PROVE FoundAll'
    BY <1>1, <1>4 DEF ListExact
  <2>1. Seen(worker.current)
    BY <1>1 DEF ExactInv, LoadedSeen, EnrichSeen
  <2>2. worker.generation = worker.current
    BY <1>1 DEF SoundInv, OneContext, Working, Prelude
  <2>3. CASE worker.current # media.generation
    BY <1>1, <1>4, <2>1, <2>3 DEF FoundAll, Seen
  <2>4. CASE worker.current = media.generation
    <3>1. MediaValid(worker.generation)
      BY <2>1, <2>2, <2>4 DEF Seen, MediaValid
    <3>2. worker.settings = {}
      BY <1>2, <3>1
    <3>3. DOMAIN published.items = {}
      BY <2>4, <3>2 DEF SoundInv, ItemsSound, Selected
    <3> QED
      BY <1>1, <1>4, <3>2, <3>3 DEF FoundAll
  <2> QED
    BY <2>3, <2>4
<1> QED
  BY <1>5, <1>6, <1>7, <1>8, <1>9 DEF ExactInv

\* Nothing passes a filter that selects nothing.
LEMMA NothingFiltered == \A items : DOMAIN Filter(items, {}) = {}
  BY DEF Filter

\* The settings change: what is selected is scanned anew, and nothing is complete.
LEMMA ChangeSettingsExact == ASSUME SoundInv, ExactInv, ChangeSettings PROVE ExactInv'
<1>1. WorkerShape /\ SnapshotShape(published) /\ UNCHANGED media /\ Flags
      /\ pc = "settings" /\ pc' = "save"
  BY DEF SoundInv, Shapes, ChangeSettings, Elsewhere, ExactInv, Go
<1>2. PICK scan \in BOOLEAN : scan = (desired.bits # {})
  OBVIOUS
<1>3. worker' = [worker EXCEPT !.settings = desired.bits, !.seenSerial = worker.serial,
                    !.scan = scan, !.enrich = FALSE, !.after = "filtered"]
  BY <1>2 DEF ChangeSettings
<1>4. /\ worker'.loaded = worker.loaded /\ worker'.settings = desired.bits
      /\ worker'.scan = scan /\ worker'.enrich = FALSE
  BY <1>1, <1>3 DEF WorkerShape
<1>5. PICK items : items = Filter(published.items, desired.bits)
  OBVIOUS
<1>6. published'.items = items /\ published'.count = Cardinality(DOMAIN items)
  <2>1. PICK n : n = published.revision + 1
    OBVIOUS
  <2>2. PICK k : k = Cardinality(DOMAIN items)
    OBVIOUS
  <2>3. published' = [published EXCEPT !.items = items, !.count = k,
                          !.settings = desired.bits, !.revision = n]
    BY <1>5, <2>1, <2>2 DEF ChangeSettings, Announce, Filtered
  <2> QED
    BY <1>1, <2>2, <2>3 DEF SnapshotShape
<1>7. ~scan => FoundAll'
  <2> SUFFICES ASSUME ~scan PROVE FoundAll'
    OBVIOUS
  <2>1. desired.bits = {}
    BY <1>2
  <2>2. DOMAIN items = {}
    BY <1>5, <2>1, NothingFiltered
  <2> QED
    BY <1>4, <1>6, <2>1, <2>2 DEF FoundAll
<1>8. Flags'
  BY <1>1, <1>4 DEF Flags, Loads
<1>9. NoWindow' /\ LoadedSeen' /\ EnrichSeen' /\ FoundExact'
  BY <1>1, <1>4 DEF NoWindow, LoadedSeen, EnrichSeen, FoundExact
<1>10. ListExact' /\ WorkExact'
  BY <1>4, <1>7 DEF ListExact, WorkExact
<1>11. Counted'
  BY <1>6 DEF Counted
<1> QED
  BY <1>8, <1>9, <1>10, <1>11 DEF ExactInv

\* Without a fault a scan finds the selected books of the card, while it is there.
LEMMA ScanExact ==
    ASSUME Faults = FALSE, SoundInv, ExactInv, ListDirectories \/ PopulateItems PROVE ExactInv'
<1>1. WorkerShape /\ UNCHANGED <<media, published>> /\ Flags
      /\ pc \in Working \ Prelude /\ pc' \in {"populate", "replace"} /\ GateOpen
  BY DEF SoundInv, Shapes, ListDirectories, PopulateItems, Reachable, Elsewhere, Silent,
     ExactInv, Go, Working, Prelude
<1>2. PICK found : worker' = [worker EXCEPT !.found = found]
  BY DEF ListDirectories, PopulateItems
<1>3. /\ worker'.current = worker.current /\ worker'.loaded = worker.loaded
      /\ worker'.settings = worker.settings /\ worker'.found = found
      /\ worker'.scan = worker.scan /\ worker'.enrich = worker.enrich
  BY <1>1, <1>2 DEF WorkerShape
<1>4. /\ Seen(worker.current)
      /\ worker.current = media.generation => found = Selected(media.card, worker.settings)
  <2>1. CASE ListDirectories
    <3>1. found = Selected(media.card, worker.settings) /\ MediaValid(worker.generation)
      BY <1>1, <1>3, <2>1 DEF ListDirectories, WorkerShape, Reachable
    <3> QED
      BY <1>1, <3>1, SeenHere
  <2>2. CASE PopulateItems
    <3>1. /\ Seen(worker.current)
          /\ worker.current = media.generation =>
                 worker.found = Selected(media.card, worker.settings)
      BY <2>2 DEF PopulateItems, ExactInv, FoundExact
    <3>2. found # worker.found => ~MediaValid(worker.generation)
      BY <1>1, <1>3, <2>2 DEF PopulateItems, WorkerShape
    <3>3. worker.generation = worker.current
      BY <1>1 DEF SoundInv, OneContext
    <3> QED
      BY <3>1, <3>2, <3>3 DEF Seen, MediaValid
  <2> QED
    BY <2>1, <2>2
<1>5. Flags' /\ pc' \notin Loads /\ pc' \notin Listed
  BY <1>1, <1>3 DEF Flags, Loads, Listed
<1>6. NoWindow' /\ LoadedSeen' /\ WorkExact'
  BY <1>1, <1>5 DEF NoWindow, LoadedSeen, WorkExact
<1>7. EnrichSeen' /\ FoundExact'
  BY <1>1, <1>3, <1>4 DEF ExactInv, EnrichSeen, FoundExact, Seen, Selected
<1>8. ListExact'
  <2>1. FoundAll => FoundAll'
    BY <1>1, <1>3 DEF FoundAll, Seen, Selected
  <2> QED
    BY <1>1, <1>3, <2>1 DEF ExactInv, ListExact
<1>9. Counted'
  <2>1. pc' # "loaded"
    BY <1>1
  <2> QED
    BY <1>1, <1>3, <2>1 DEF ExactInv, Counted
<1> QED
  BY <1>5, <1>6, <1>7, <1>8, <1>9 DEF ExactInv

\* What it found becomes the list.
LEMMA ReplaceExact == ASSUME SoundInv, ExactInv, ReplaceCatalog PROVE ExactInv'
<1>1. WorkerShape /\ SnapshotShape(published) /\ UNCHANGED media /\ Flags
      /\ pc = "replace" /\ pc' = "save"
  BY DEF SoundInv, Shapes, ReplaceCatalog, Elsewhere, ExactInv, Go
<1>2. /\ worker'.current = worker.current /\ worker'.loaded = worker.loaded
      /\ worker'.settings = worker.settings
      /\ worker'.scan = FALSE /\ worker'.enrich = TRUE
  BY <1>1 DEF ReplaceCatalog, WorkerShape
<1>3. PICK items : items = [b \in worker.found |-> IF b \in Epubs THEN "pending" ELSE "none"]
  OBVIOUS
<1>4. published'.items = items /\ published'.count = Cardinality(worker.found)
  <2>1. PICK n : n = published.revision + 1
    OBVIOUS
  <2>2. PICK k : k = Cardinality(worker.found)
    OBVIOUS
  <2>3. published' = [published EXCEPT !.generation = worker.generation, !.items = items,
                          !.count = k, !.settings = worker.settings,
                          !.state = "enriching", !.revision = n]
    BY <1>3, <2>1, <2>2 DEF ReplaceCatalog, Announce
  <2> QED
    BY <1>1, <2>2, <2>3 DEF SnapshotShape
<1>5. DOMAIN items = worker.found
  BY <1>3
<1>6. /\ Seen(worker.current)
      /\ worker.current = media.generation =>
             worker.found = Selected(media.card, worker.settings)
  BY <1>1 DEF ExactInv, FoundExact
<1>7. FoundAll' /\ EnrichSeen'
  BY <1>1, <1>2, <1>4, <1>5, <1>6 DEF FoundAll, EnrichSeen, Seen, Selected
<1>8. Flags'
  BY <1>1, <1>2 DEF Flags, Loads
<1>9. NoWindow' /\ LoadedSeen' /\ FoundExact'
  BY <1>1 DEF NoWindow, LoadedSeen, FoundExact
<1>10. ListExact' /\ WorkExact' /\ Counted'
  BY <1>4, <1>5, <1>7 DEF ListExact, WorkExact, Counted
<1> QED
  BY <1>7, <1>8, <1>9, <1>10 DEF ExactInv

\* A cover changes no entry's place.
LEMMA PublishCoverExact == ASSUME SoundInv, ExactInv, PublishCover PROVE ExactInv'
<1>1. WorkerShape /\ SnapshotShape(published) /\ UNCHANGED media /\ Flags
      /\ pc = "enriched" /\ pc' = "enrich"
  BY DEF SoundInv, Shapes, PublishCover, Elsewhere, ExactInv, Go
<1>2. /\ worker'.current = worker.current /\ worker'.loaded = worker.loaded
      /\ worker'.settings = worker.settings
      /\ worker'.scan = worker.scan /\ worker'.enrich = worker.enrich
  BY <1>1 DEF PublishCover, WorkerShape
<1>3. PICK v : v = IF worker.item \in Covered THEN worker.cover ELSE "unavailable"
  OBVIOUS
<1>4. PICK items : items = [published.items EXCEPT ![worker.item] = v]
  OBVIOUS
<1>5. /\ published'.items = items /\ published'.count = published.count
      /\ published'.state = published.state
  <2>1. PICK n : n = published.revision + 1
    OBVIOUS
  <2>2. published' = [published EXCEPT !.revision = n, !.items = items]
    BY <1>3, <1>4, <2>1 DEF PublishCover, Announce
  <2> QED
    BY <1>1, <2>2 DEF SnapshotShape
<1>6. DOMAIN items = DOMAIN published.items
  BY <1>4
<1>7. (FoundAll => FoundAll') /\ EnrichSeen'
  BY <1>1, <1>2, <1>5, <1>6 DEF ExactInv, FoundAll, EnrichSeen, Seen, Selected
<1>8. Flags'
  BY <1>1, <1>2 DEF Flags, Loads
<1>9. NoWindow' /\ LoadedSeen' /\ FoundExact'
  BY <1>1 DEF NoWindow, LoadedSeen, FoundExact
<1>10. ListExact' /\ WorkExact'
  BY <1>1, <1>2, <1>5, <1>7 DEF ExactInv, ListExact, WorkExact, Listed
<1>11. Counted'
  BY <1>1, <1>2, <1>5, <1>6 DEF ExactInv, Counted
<1> QED
  BY <1>7, <1>8, <1>9, <1>10, <1>11 DEF ExactInv

\* Without a fault every step keeps what is known of the list.
LEMMA ExactStep ==
    ASSUME Faults = FALSE, SoundInv, Known, ExactInv, [Next]_vars PROVE Known' /\ ExactInv'
<1>1. CASE WorkerStep
  <2>1. ~ScanFails
    BY DEF ScanFails
  <2> QED
    BY <1>1, <2>1, WorkerKnows, StaysExact, AdoptContextExact, CheckMediaExact,
       LoadCatalogExact, PublishLoadedExact, LoadedExact, ChangeSettingsExact, ScanExact,
       ReplaceExact, PublishCoverExact DEF WorkerStep
<1>2. CASE UITask \/ UILoop
  BY <1>2, OthersStill, OthersExact, MakeCallKnows, HandlersKnow DEF UILoop
<1>3. CASE BookWorker \/ UNCHANGED vars
  <2>1. UNCHANGED <<media, published, pc, worker, desired, statuses, calls>>
    BY <1>3 DEF BookWorker, TakeOpen, EndBuild, BookElsewhere, vars, shared
  <2>2. Known'
    BY <2>1 DEF Known, DesiredShape
  <2> QED
    BY <2>1, <2>2, OthersExact
<1>4. CASE RemoveCard \/ PublishState \/ \E c \in Cards : InsertCard(c)
  BY <1>4, CardKnows, CardExact
<1> QED
  BY <1>1, <1>2, <1>3, <1>4 DEF Next

\* At start-up nothing has been loaded.
LEMMA ExactInit == ASSUME Init PROVE Known /\ ExactInv
<1>1. media.generation = 1
  BY DEF Init
<1>2. Known
  BY <1>1 DEF Init, Known, DesiredShape
<1>3. /\ pc = "top" /\ worker.loaded = FALSE /\ worker.scan = FALSE /\ worker.enrich = FALSE
  BY DEF Init
<1>4. ExactInv
  BY <1>3 DEF ExactInv, Flags, NoWindow, LoadedSeen, EnrichSeen, FoundExact, ListExact,
     WorkExact, Counted, Loads, Listed
<1> QED
  BY <1>2, <1>4

\* While no call to the card fails, and whatever cards come and go: a worker that has
\* settled on a catalog, with nothing left to scan, to enrich or to take over, publishes
\* exactly the books of the card in the slot that its settings select, and their number
\* (book_catalog_service::run, load_catalog, scan_books, replace_catalog).
THEOREM CatalogListsAll == ASSUME Faults = FALSE PROVE Spec => []CatalogComplete
<1>1. SoundInv /\ Known /\ ExactInv /\ [Next]_vars => Known' /\ ExactInv'
  BY ExactStep
<1>2. SoundInv /\ ExactInv => CatalogComplete
  <2> SUFFICES ASSUME SoundInv, ExactInv, Settled
               PROVE  /\ DOMAIN published.items = Selected(media.card, worker.settings)
                      /\ published.count = Cardinality(DOMAIN published.items)
    BY DEF CatalogComplete
  <2>1. FoundAll /\ worker.current = media.generation
    BY DEF Settled, ExactInv, ListExact, MediaValid
  <2>2. DOMAIN published.items = Selected(media.card, worker.settings)
    BY <2>1 DEF FoundAll, Selected
  <2> QED
    BY <2>2 DEF Settled, ExactInv, Counted
<1> QED
  BY <1>1, <1>2, SoundInit, SoundStep, ExactInit, PTL DEF Spec
=============================================================================
