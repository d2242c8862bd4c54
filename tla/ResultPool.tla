----------------------------- MODULE ResultPool -----------------------------
(***************************************************************************)
(* The bounded pool through which the storage worker hands directory       *)
(* listings and file chunks to the main loop                               *)
(* (src/services/storage/storage_service.cpp).                             *)
(*                                                                         *)
(* Three owners share a slot without a common lock: the worker that fills  *)
(* it, the result queue and then the dispatcher that received its handle,  *)
(* and FileApp, which retains the listing it shows.  Only the acquire loop *)
(* holds result_pool_mutex; retain and release are compare-and-swap on     *)
(* reference_state, and releasing the last reference merely marks the slot *)
(* for clean-up, which the next acquire performs.                          *)
(***************************************************************************)
EXTENDS Naturals, Sequences

CONSTANTS
    PoolSize,         \* STORAGE_RESULT_POOL_SIZE, also the queue's length
    GenerationLimit,  \* generations wrap here (2^32 in the code)
    ReferenceMask,    \* reference_count_mask (0xffff in the code)
    Contents,         \* the results the worker can produce
    NoContent,        \* an empty storage_directory_result
    NoHandle          \* invalid_result_handle()

ASSUME PoolSizeAssumption == PoolSize \in Nat \ {0}
ASSUME GenerationAssumption == GenerationLimit \in Nat /\ GenerationLimit > 1
ASSUME MaskAssumption == ReferenceMask \in Nat /\ ReferenceMask > 2
ASSUME ContentAssumption == NoContent \notin Contents

Slots == 0 .. PoolSize - 1

Handles == [index : Slots, generation : 1 .. GenerationLimit - 1]

ASSUME HandleAssumption == NoHandle \notin Handles

\* reference_state packs the count and cleanup_pending_flag into one word.
SlotStates ==
    [generation : 0 .. GenerationLimit - 1, references : Nat,
     cleanup : BOOLEAN, filling : BOOLEAN, content : Contents \cup {NoContent}]

VARIABLES
    slot,     \* result_pool
    queue,    \* result_queue: handles on their way to the main loop
    wpc,      \* where the storage worker is
    at,       \* the index its acquire loop looks at next
    mine,     \* the handle it acquired
    mpc,      \* where the main loop is in dispatching a storage_result event
    owner,    \* the handle the dispatcher received and will release
    kept      \* FileApp's directory_handle_

workerVars == <<wpc, at, mine>>
mainVars == <<mpc, owner, kept>>
vars == <<slot, queue, workerVars, mainVars>>

TypeOK ==
    /\ slot \in [Slots -> SlotStates]
    /\ queue \in Seq(Handles)
    /\ wpc \in {"idle", "scanning", "filling", "publishing"}
    /\ at \in 0 .. PoolSize
    /\ mine \in Handles \cup {NoHandle}
    /\ mpc \in {"idle", "dispatch", "retain", "adopt", "release"}
    /\ owner \in Handles \cup {NoHandle}
    /\ kept \in Handles \cup {NoHandle}

Init ==
    /\ slot = [i \in Slots |->
                  [generation |-> 0, references |-> 0, cleanup |-> FALSE,
                   filling |-> FALSE, content |-> NoContent]]
    /\ queue = <<>>
    /\ wpc = "idle" /\ at = 0 /\ mine = NoHandle
    /\ mpc = "idle" /\ owner = NoHandle /\ kept = NoHandle

-----------------------------------------------------------------------------
(* Operations on one slot.                                                 *)

NextGeneration(g) == IF g + 1 = GenerationLimit THEN 1 ELSE g + 1

\* The tests of storage_service_resolve_result and resolve_file_result.
Resolves(h) ==
    /\ h # NoHandle
    /\ slot[h.index].generation = h.generation
    /\ slot[h.index].references > 0
    /\ ~ slot[h.index].filling

\* The loop condition of storage_service_retain_result.
Retainable(h) ==
    /\ ~ slot[h.index].cleanup
    /\ slot[h.index].references > 0
    /\ slot[h.index].references < ReferenceMask

\* Faulty variant: any release frees the slot.
UnreferencedAtOnce(s) == [s EXCEPT !.references = 0, !.cleanup = TRUE]

\* What storage_service_release_result leaves in the slot of h.
Unreferenced(s) ==
    IF s.references = 1 THEN [s EXCEPT !.references = 0, !.cleanup = TRUE]
                        ELSE [s EXCEPT !.references = @ - 1]

CanRelease(h) ==
    /\ h # NoHandle
    /\ slot[h.index].generation = h.generation
    /\ ~ slot[h.index].cleanup
    /\ slot[h.index].references > 0

Released(h) ==
    IF CanRelease(h) THEN [slot EXCEPT ![h.index] = Unreferenced(@)] ELSE slot

-----------------------------------------------------------------------------
(* The storage worker.                                                     *)

\* xQueueReceive on request_queue, then acquire_result_slot starts at slot 0.
StartAcquire ==
    /\ wpc = "idle"
    /\ wpc' = "scanning"
    /\ at' = 0
    /\ UNCHANGED <<slot, queue, mine, mainVars>>

\* A slot whose last reference is gone is emptied by the acquire loop.
CleanUp ==
    /\ wpc = "scanning"
    /\ at < PoolSize
    /\ slot[at].references = 0
    /\ slot[at].cleanup
    /\ slot' = [slot EXCEPT ![at].content = NoContent, ![at].filling = FALSE,
                            ![at].cleanup = FALSE]
    /\ UNCHANGED <<queue, workerVars, mainVars>>

SkipBusySlot ==
    /\ wpc = "scanning"
    /\ at < PoolSize
    /\ ~ (slot[at].references = 0 /\ slot[at].cleanup)
    /\ slot[at].references # 0 \/ slot[at].filling
    /\ at' = at + 1
    /\ UNCHANGED <<slot, queue, wpc, mine, mainVars>>

\* Every slot was busy when looked at: the request is dropped.
PoolExhausted ==
    /\ wpc = "scanning"
    /\ at = PoolSize
    /\ wpc' = "idle"
    /\ UNCHANGED <<slot, queue, at, mine, mainVars>>

ClaimSlot ==
    /\ wpc = "scanning"
    /\ at < PoolSize
    /\ slot[at].references = 0 /\ ~ slot[at].cleanup /\ ~ slot[at].filling
    /\ LET g == NextGeneration(slot[at].generation)
       IN  /\ slot' = [slot EXCEPT ![at] =
                          [generation |-> g, references |-> 1, cleanup |-> FALSE,
                           filling |-> TRUE, content |-> NoContent]]
           /\ mine' = [index |-> at, generation |-> g]
    /\ wpc' = "filling"
    /\ UNCHANGED <<queue, at, mainVars>>

\* The worker reads the directory or the chunk straight into its slot.
FillResult ==
    /\ wpc = "filling"
    /\ \E c \in Contents : slot' = [slot EXCEPT ![mine.index].content = c]
    /\ wpc' = "publishing"
    /\ UNCHANGED <<queue, at, mine, mainVars>>

\* publish_result: finish_result, then queue the handle, or else release it.
PublishResult ==
    /\ wpc = "publishing"
    /\ LET finished == [slot EXCEPT ![mine.index].filling = FALSE]
           queued == Len(queue) < PoolSize
       IN  /\ slot' = IF queued THEN finished
                      ELSE [finished EXCEPT ![mine.index] = Unreferenced(@)]
           /\ queue' = IF queued THEN Append(queue, mine) ELSE queue
    /\ wpc' = "idle"
    /\ mine' = NoHandle
    /\ UNCHANGED <<at, mainVars>>

-----------------------------------------------------------------------------
(* The main loop: dispatcher and FileApp.                                  *)

ReceiveResult ==
    /\ mpc = "idle"
    /\ queue # <<>>
    /\ owner' = Head(queue)
    /\ queue' = Tail(queue)
    /\ mpc' = "dispatch"
    /\ UNCHANGED <<slot, workerVars, kept>>

\* The foreground app has no use for the result or copies what it needs.
ConsumeResult ==
    /\ mpc = "dispatch"
    /\ mpc' = "release"
    /\ UNCHANGED <<slot, queue, workerVars, owner, kept>>

\* FileApp wants the listing: retain first checks the generation ...
RetainCheck ==
    /\ mpc = "dispatch"
    /\ Resolves(owner)
    /\ mpc' = "retain"
    /\ UNCHANGED <<slot, queue, workerVars, owner, kept>>

\* ... and then adds a reference by compare-and-swap, or shows an error.
RetainSwap ==
    /\ mpc = "retain"
    /\ slot' = IF Retainable(owner)
               THEN [slot EXCEPT ![owner.index].references = @ + 1] ELSE slot
    /\ mpc' = IF Retainable(owner) THEN "adopt" ELSE "release"
    /\ UNCHANGED <<queue, workerVars, owner, kept>>

\* Faulty variant: the listing shown before is not given back.
AdoptListingLeaking ==
    /\ mpc = "adopt"
    /\ kept' = owner
    /\ mpc' = "release"
    /\ UNCHANGED <<slot, queue, workerVars, owner>>

\* release_directory_result, then directory_handle_ = event.handle.
AdoptListing ==
    /\ mpc = "adopt"
    /\ slot' = Released(kept)
    /\ kept' = owner
    /\ mpc' = "release"
    /\ UNCHANGED <<queue, workerVars, owner>>

\* FileApp closes, asks for another directory, or sees a failed result.
DropListing ==
    /\ mpc \in {"idle", "dispatch"}
    /\ kept # NoHandle
    /\ slot' = Released(kept)
    /\ kept' = NoHandle
    /\ UNCHANGED <<queue, workerVars, mpc, owner>>

\* The dispatcher gives back the reference that travelled with the event.
ReleaseOwner ==
    /\ mpc = "release"
    /\ slot' = Released(owner)
    /\ owner' = NoHandle
    /\ mpc' = "idle"
    /\ UNCHANGED <<queue, workerVars, kept>>

Worker ==
    StartAcquire \/ CleanUp \/ SkipBusySlot \/ PoolExhausted \/ ClaimSlot
        \/ FillResult \/ PublishResult

MainLoop ==
    ReceiveResult \/ ConsumeResult \/ RetainCheck \/ RetainSwap \/ AdoptListing
        \/ DropListing \/ ReleaseOwner

Next == Worker \/ MainLoop

Spec == Init /\ [][Next]_vars

\* Both tasks are scheduled again and again; nothing makes FileApp let go.
FairSpec == Spec /\ WF_vars(Worker) /\ WF_vars(ReceiveResult)
                 /\ WF_vars(mpc # "idle" /\ MainLoop /\ ~ DropListing)

-----------------------------------------------------------------------------
(* Properties.                                                             *)

HeldAt(h, i) == h # NoHandle /\ h.index = i

QueuedAt(i) == \E k \in 1 .. Len(queue) : queue[k].index = i

One(holds) == IF holds THEN 1 ELSE 0

Users(i) ==
    One(HeldAt(mine, i)) + One(QueuedAt(i)) + One(HeldAt(owner, i))
        + One(HeldAt(kept, i)) + One(HeldAt(owner, i) /\ mpc = "adopt")

\* A slot's count is exactly the number of handles somebody will still give
\* back: the worker's, the queue's or the dispatcher's, FileApp's, and the one
\* retained between retain_result and the assignment to directory_handle_.  One
\* missing frees a listing on the screen; one too many shrinks the pool for good.
RefsExact == \A i \in Slots : slot[i].references = Users(i)

Handed ==
    {queue[k] : k \in 1 .. Len(queue)} \cup ({owner, kept} \ {NoHandle})

\* A handle that left the worker names its result until it is given back, even
\* though acquire, retain and release share no lock: no slot is reused, emptied
\* or refilled under the dispatcher or FileApp, and generations may wrap.
HandlesCurrent == \A h \in Handed : Resolves(h)

\* publish_result always finds room, so the branch that throws a finished
\* result away ("result queue unavailable") never runs: queue and pool are of
\* one length, and a slot's handle is queued at most once.
QueueHasRoom == wpc = "publishing" => Len(queue) < PoolSize

\* What the dispatcher hands to the foreground app can be read and retained until
\* the app is done with it: a listing read without error is never turned into
\* "directory error" because retain_result fails between its check and its swap.
DeliveredUsable ==
    mpc \in {"dispatch", "retain"} => Resolves(owner) /\ Retainable(owner)

\* The strengthening the proofs need: who holds a handle when, that handles do
\* not alias, and that what is handed on is a finished result.
WorkerHolds ==
    /\ mine # NoHandle <=> wpc \in {"filling", "publishing"}
    /\ mine # NoHandle => /\ slot[mine.index].generation = mine.generation
                          /\ slot[mine.index].filling
    /\ wpc = "publishing" => slot[mine.index].content \in Contents

MainHolds == owner # NoHandle <=> mpc # "idle"

Finished(h) ==
    /\ slot[h.index].generation = h.generation
    /\ ~ slot[h.index].filling
    /\ slot[h.index].content \in Contents

HandedFinished ==
    /\ \A k \in 1 .. Len(queue) : Finished(queue[k])
    /\ owner # NoHandle => Finished(owner)
    /\ kept # NoHandle => Finished(kept)

NoAlias ==
    /\ \A j, k \in 1 .. Len(queue) : queue[j].index = queue[k].index => j = k
    /\ \A i \in Slots :
          /\ HeldAt(mine, i) => ~ QueuedAt(i) /\ ~ HeldAt(owner, i) /\ ~ HeldAt(kept, i)
          /\ QueuedAt(i) => ~ HeldAt(owner, i) /\ ~ HeldAt(kept, i)
          /\ HeldAt(owner, i) /\ HeldAt(kept, i) => mpc = "release"

CleanUpUnused == \A i \in Slots : slot[i].cleanup => slot[i].references = 0

\* The inductive invariant of the pool: counts are exact, handles do not alias
\* and name finished results, and only an unreferenced slot awaits clean-up.
PoolInv ==
    /\ TypeOK
    /\ RefsExact
    /\ WorkerHolds
    /\ MainHolds
    /\ HandedFinished
    /\ NoAlias
    /\ CleanUpUnused

\* Whatever the pool's slots and counts go through, the main loop sees a queue
\* of results, each delivered once, in order and unchanged while it is held.
Content(h) == IF h = NoHandle THEN NoContent ELSE slot[h.index].content

Pending == [k \in 1 .. Len(queue) |-> Content(queue[k])]

Store ==
    INSTANCE ResultStore WITH
        Capacity <- PoolSize,
        pending <- Pending,
        current <- Content(owner),
        kept <- Content(kept)

StoreSpec == Store!Spec

\* acquire_result_slot finds a free slot again and again, whatever FileApp
\* keeps: a pool that stays exhausted would drop every request in silence.
PoolRecovers == []<>(\E i \in Slots : slot[i].references = 0)
=============================================================================
