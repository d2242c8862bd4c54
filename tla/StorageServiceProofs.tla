------------------------ MODULE StorageServiceProofs ------------------------
(***************************************************************************)
(* StorageInv is an inductive invariant of StorageService, and with it the *)
(* safety properties its run checks hold for every number of book tasks,   *)
(* every queue length, debounce count and bound on card changes.           *)
(*                                                                         *)
(* Each conjunct has a lemma of its own.  The monitor task and the others  *)
(* touch disjoint parts of the state, so two frame lemmas settle the other *)
(* half of most of them.                                                   *)
(***************************************************************************)
EXTENDS StorageService, SequenceTheorems, TLAPS

\* What neither the apps nor the workers nor the user write: the monitor's own
\* state and what it publishes.
LEMMA OthersFrame ==
    ASSUME MoveCard \/ TakeStatus \/ Client \/ WorkerTask \/ \E t \in BookTasks : Gate(t)
    PROVE  /\ UNCHANGED <<mounted, volumes, state, generation, unmountPending>>
           /\ UNCHANGED monitorVars
<1>1. CASE MoveCard
  BY <1>1 DEF MoveCard, monitorVars
<1>2. CASE TakeStatus
  BY <1>2 DEF TakeStatus, cardVars, monitorVars
<1>3. CASE Client
  BY <1>3 DEF Client, LatchGeneration, StartList, StampList, StartRead, SendRequest,
     cardVars, monitorVars
<1>4. CASE WorkerTask
  BY <1>4 DEF WorkerTask, Dequeue, DropRequest, CheckMedia, OpenDirectory,
     LockVolume, LockFails, ScanCheck, ScanMore, EndScan, ReadChunk, RecheckMedia,
     PublishResult, workerFrame, monitorVars
<1>5. ASSUME NEW t \in BookTasks, Gate(t) PROVE UNCHANGED <<mounted, volumes, state,
          generation, unmountPending, monitorVars>>
  BY <1>5 DEF Gate, GateBegin, GateCheck, GateTake, GateTimeout, GateRecheck,
     GateEnd, gateFrame, cardVars, monitorVars
<1> QED
  BY <1>1, <1>2, <1>3, <1>4, <1>5 DEF monitorVars

\* What the monitor leaves to the workers and the apps.
LEMMA MonitorFrame ==
    ASSUME MonitorTask
    PROVE  /\ UNCHANGED <<present, fs, foreground, requests>>
           /\ UNCHANGED workerVars /\ UNCHANGED clientVars /\ UNCHANGED gateVars
BY DEF MonitorTask, RetryUnmount, SampleFails, Sample, BeginChange, DiscardOldest,
   AnnounceRemoval, Unmount, PrepareMount, StillMounted, AnnounceMounting, Mount,
   AnnounceMount, EndChange, Publish, otherTasks, cardVars, workerVars, clientVars,
   gateVars

\* What the user, the dispatcher and the book tasks leave to the worker and the app.
LEMMA RequestFrame ==
    ASSUME MoveCard \/ TakeStatus \/ \E t \in BookTasks : Gate(t)
    PROVE  /\ UNCHANGED <<fs, foreground, requests>>
           /\ UNCHANGED workerVars /\ UNCHANGED clientVars
BY DEF MoveCard, TakeStatus, Gate, GateBegin, GateCheck, GateTake, GateTimeout,
   GateRecheck, GateEnd, gateFrame, cardVars, workerVars, clientVars

-----------------------------------------------------------------------------
(* Types.                                                                  *)

\* What publish_status leaves behind, whether the event fits or not.
LEMMA PublishType ==
    ASSUME NEW s \in States, NEW next \in {"unmount", "mount", "release"}
    PROVE  TypeOK /\ Publish(s, next) =>
              /\ state' \in States
              /\ statuses' \in Seq(Statuses) /\ Len(statuses') <= StatusQueueLength
              /\ mpc' \in {next, "discard"} /\ after' \in {after, next}
              /\ seen' = seen /\ UNCHANGED debounceVars
<1> SUFFICES ASSUME TypeOK, Publish(s, next)
             PROVE  /\ state' \in States
                    /\ statuses' \in Seq(Statuses) /\ Len(statuses') <= StatusQueueLength
                    /\ mpc' \in {next, "discard"} /\ after' \in {after, next}
                    /\ seen' = seen /\ UNCHANGED debounceVars
  OBVIOUS
<1>1. [state |-> s, generation |-> generation] \in Statuses
  BY DEF TypeOK, Statuses
<1>2. statuses \in Seq(Statuses) /\ Len(statuses) <= StatusQueueLength
  BY DEF TypeOK
<1>3. state' = s /\ seen' = seen /\ UNCHANGED debounceVars
  BY DEF Publish
<1>4. CASE Len(statuses) < StatusQueueLength
  BY <1>1, <1>2, <1>3, <1>4, QueueAssumption DEF Publish
<1>5. CASE ~ (Len(statuses) < StatusQueueLength)
  BY <1>2, <1>3, <1>5 DEF Publish
<1> QED
  BY <1>4, <1>5

\* A step of the monitor keeps the types.
LEMMA TypeMonitor == ASSUME TypeOK, MonitorTask PROVE TypeOK'
<1> USE QueueAssumption, StableAssumption, BoundAssumption
<1>1. CASE RetryUnmount
  BY <1>1 DEF RetryUnmount, CanUnmount, TypeOK, Generations, Statuses, States,
     debounceVars, otherTasks, workerVars, clientVars, gateVars, statusVars,
     cardVars
<1>2. CASE SampleFails
  BY <1>2 DEF SampleFails, TypeOK, Generations, Statuses, States, debounceVars,
     otherTasks, workerVars, clientVars, gateVars, statusVars, cardVars
<1>3. CASE Sample
  <2>1. matching' \in 0 .. StableSamples /\ candidate' \in BOOLEAN
    BY <1>3 DEF Sample, TypeOK
  <2>2. /\ stableInserted' \in BOOLEAN /\ stableKnown' \in BOOLEAN
        /\ mpc' \in {"change", "wait"}
    BY <1>3 DEF Sample, TypeOK
  <2>3. UNCHANGED <<cardVars, media, state, generation, unmountPending, statusVars,
                    after, otherTasks>>
    BY <1>3 DEF Sample
  <2> QED
    BY <2>1, <2>2, <2>3 DEF TypeOK, statusVars, cardVars, otherTasks, workerVars,
       clientVars, gateVars
<1>4. CASE BeginChange
  BY <1>4 DEF BeginChange, TypeOK, Generations, Statuses, States, debounceVars,
     otherTasks, workerVars, clientVars, gateVars, statusVars, cardVars
<1>5. CASE DiscardOldest
  BY <1>5 DEF DiscardOldest, TypeOK, Generations, Statuses, States, debounceVars,
     otherTasks, workerVars, clientVars, gateVars, statusVars, cardVars
<1>6. CASE AnnounceRemoval
  <2> USE <1>6 DEF AnnounceRemoval
  <2>1. /\ state' \in States
        /\ statuses' \in Seq(Statuses) /\ Len(statuses') <= StatusQueueLength
        /\ mpc' \in {"unmount", "discard"} /\ after' \in {after, "unmount"}
        /\ seen' = seen /\ UNCHANGED debounceVars
    BY PublishType DEF States
  <2>2. UNCHANGED <<cardVars, media, generation, unmountPending, otherTasks>>
    OBVIOUS
  <2> HIDE <1>6 DEF AnnounceRemoval
  <2> QED
    BY <2>1, <2>2 DEF TypeOK, debounceVars, cardVars, otherTasks, workerVars,
       clientVars, gateVars
<1>7. CASE Unmount
  BY <1>7 DEF Unmount, CanUnmount, TypeOK, Generations, Statuses, States,
     debounceVars, otherTasks, workerVars, clientVars, gateVars, statusVars,
     cardVars
<1>8. CASE PrepareMount
  <2>1. mounted' \in Generations /\ mpc' = "mounting"
    BY <1>8 DEF PrepareMount, TypeOK, Generations
  <2>0. unmountPending' \in BOOLEAN
    BY <1>8, Zenon DEF PrepareMount
  <2>2. UNCHANGED <<present, volumes, fs, media, state, generation, statusVars, after,
                    debounceVars, otherTasks>>
    BY <1>8 DEF PrepareMount
  <2> QED
    BY <2>1, <2>0, <2>2 DEF TypeOK, statusVars, debounceVars, otherTasks,
       workerVars, clientVars, gateVars
<1>9. CASE StillMounted
  <2> USE <1>9 DEF StillMounted
  <2>1. /\ state' \in States
        /\ statuses' \in Seq(Statuses) /\ Len(statuses') <= StatusQueueLength
        /\ mpc' \in {"release", "discard"} /\ after' \in {after, "release"}
        /\ seen' = seen /\ UNCHANGED debounceVars
    BY PublishType DEF States
  <2>2. UNCHANGED <<cardVars, media, generation, unmountPending, otherTasks>>
    OBVIOUS
  <2> HIDE <1>9 DEF StillMounted
  <2> QED
    BY <2>1, <2>2 DEF TypeOK, debounceVars, cardVars, otherTasks, workerVars,
       clientVars, gateVars
<1>10. CASE AnnounceMounting
  <2> USE <1>10 DEF AnnounceMounting
  <2>1. /\ state' \in States
        /\ statuses' \in Seq(Statuses) /\ Len(statuses') <= StatusQueueLength
        /\ mpc' \in {"mount", "discard"} /\ after' \in {after, "mount"}
        /\ seen' = seen /\ UNCHANGED debounceVars
    BY PublishType DEF States
  <2>2. UNCHANGED <<cardVars, media, generation, unmountPending, otherTasks>>
    OBVIOUS
  <2> HIDE <1>10 DEF AnnounceMounting
  <2> QED
    BY <2>1, <2>2 DEF TypeOK, debounceVars, cardVars, otherTasks, workerVars,
       clientVars, gateVars
<1>11. CASE Mount
  BY <1>11 DEF Mount, TypeOK, Generations, Statuses, States, debounceVars,
     otherTasks, workerVars, clientVars, gateVars, statusVars, cardVars
<1>12. CASE AnnounceMount
  <2> USE <1>12 DEF AnnounceMount
  <2>1. /\ state' \in States
        /\ statuses' \in Seq(Statuses) /\ Len(statuses') <= StatusQueueLength
        /\ mpc' \in {"release", "discard"} /\ after' \in {after, "release"}
        /\ seen' = seen /\ UNCHANGED debounceVars
    BY PublishType DEF States
  <2>2. UNCHANGED <<cardVars, media, generation, unmountPending, otherTasks>>
    OBVIOUS
  <2> HIDE <1>12 DEF AnnounceMount
  <2> QED
    BY <2>1, <2>2 DEF TypeOK, debounceVars, cardVars, otherTasks, workerVars,
       clientVars, gateVars
<1>13. CASE EndChange
  BY <1>13 DEF EndChange, TypeOK, Generations, Statuses, States, debounceVars,
     otherTasks, workerVars, clientVars, gateVars, statusVars, cardVars
<1> QED
  BY <1>1, <1>2, <1>3, <1>4, <1>5, <1>6, <1>7, <1>8, <1>9, <1>10, <1>11, <1>12,
     <1>13 DEF MonitorTask

\* So do the user, the dispatcher and the app ...
LEMMA TypeUser ==
    ASSUME TypeOK, MoveCard \/ TakeStatus \/ Client, ForegroundExact
    PROVE  TypeOK'
<1>1. CASE MoveCard
  BY <1>1 DEF MoveCard, TypeOK, statusVars, monitorVars, workerVars, clientVars,
     gateVars
<1>2. CASE TakeStatus
  <2>1. /\ statuses \in Seq(Statuses) /\ statuses # <<>>
        /\ Len(statuses) <= StatusQueueLength
    BY <1>2 DEF TakeStatus, TypeOK
  <2>2. /\ Head(statuses) \in Statuses /\ Tail(statuses) \in Seq(Statuses)
        /\ Len(Tail(statuses)) <= StatusQueueLength
    BY <2>1, QueueAssumption
  <2>3. /\ seen' \in Statuses /\ statuses' \in Seq(Statuses)
        /\ Len(statuses') <= StatusQueueLength
    BY <1>2, <2>2 DEF TakeStatus
  <2> QED
    BY <1>2, <2>3 DEF TakeStatus, TypeOK, cardVars, monitorVars, workerVars,
       clientVars, gateVars
<1>3. CASE Client
  <2> USE <1>3
  <2>1. CASE LatchGeneration
    BY <2>1, QueueAssumption, BoundAssumption DEF LatchGeneration, TypeOK, Requests,
       Operations, Generations, cardVars, statusVars, monitorVars, workerVars,
       clientVars, gateVars
  <2>2. CASE StartList
    BY <2>2, QueueAssumption, BoundAssumption DEF StartList, TypeOK, Requests,
       Operations, Generations, cardVars, statusVars, monitorVars, workerVars,
       clientVars, gateVars
  <2>3. CASE StampList
    BY <2>3, QueueAssumption, BoundAssumption DEF StampList, TypeOK, Requests,
       Operations, Generations, cardVars, statusVars, monitorVars, workerVars,
       clientVars, gateVars
  <2>4. CASE StartRead
    BY <2>4, QueueAssumption, BoundAssumption DEF StartRead, Current, TypeOK,
       Requests, Operations, Generations, cardVars, statusVars, monitorVars,
       workerVars, clientVars, gateVars
  <2>5. CASE SendRequest
    <3>1. /\ requests \in Seq(Requests) /\ Len(requests) <= RequestQueueLength
          /\ asked \in Requests /\ foreground \in Nat
      BY DEF TypeOK
    <3>2. requests' \in Seq(Requests) /\ Len(requests') <= RequestQueueLength
      BY <2>5, <3>1, QueueAssumption DEF SendRequest
    <3>3. foreground' \in Nat
      BY <2>5, <3>1 DEF SendRequest, ForegroundExact
    <3>4. asked' \in Requests /\ cpc' = "idle"
      BY <2>5, BoundAssumption DEF SendRequest, NoRequest, Requests, Operations,
         Generations
    <3> QED
      BY <2>5, <3>2, <3>3, <3>4 DEF SendRequest, TypeOK, cardVars, statusVars,
         monitorVars, workerVars, gateVars
  <2> QED
    BY <2>1, <2>2, <2>3, <2>4, <2>5 DEF Client
<1> QED
  BY <1>1, <1>2, <1>3

\* ... the worker ...
LEMMA TypeWorker ==
    ASSUME TypeOK, WorkerTask, ForegroundExact
    PROVE  TypeOK'
<1>1. CASE Dequeue
  <2>1. /\ requests \in Seq(Requests) /\ Len(requests) <= RequestQueueLength
        /\ requests # <<>>
    BY <1>1 DEF Dequeue, TypeOK
  <2>2. /\ Head(requests) \in Requests /\ Tail(requests) \in Seq(Requests)
        /\ Len(Tail(requests)) <= RequestQueueLength
    BY <2>1, QueueAssumption
  <2>3. /\ request' \in Requests /\ requests' \in Seq(Requests)
        /\ Len(requests') <= RequestQueueLength /\ wpc' = "check"
    BY <1>1, <2>2 DEF Dequeue
  <2> QED
    BY <1>1, <2>3 DEF Dequeue, TypeOK, workerFrame, statusVars, monitorVars,
       clientVars, gateVars
<1>2. CASE DropRequest
  BY <1>2, QueueAssumption, BoundAssumption DEF DropRequest, NoRequest,
     ForegroundExact, TypeOK, Requests, Operations, Generations, Codes, workerFrame,
     statusVars, monitorVars, clientVars, gateVars
<1>3. CASE CheckMedia
  BY <1>3, QueueAssumption, BoundAssumption DEF CheckMedia, Current, TypeOK,
     Requests, Operations, Generations, Codes, workerFrame, statusVars, monitorVars,
     clientVars, gateVars
<1>4. CASE OpenDirectory
  BY <1>4, QueueAssumption, BoundAssumption DEF OpenDirectory, TypeOK, Requests,
     Operations, Generations, Codes, workerFrame, statusVars, monitorVars,
     clientVars, gateVars
<1>5. CASE LockVolume
  BY <1>5, QueueAssumption, BoundAssumption DEF LockVolume, TypeOK, Requests,
     Operations, Generations, Codes, workerFrame, statusVars, monitorVars,
     clientVars, gateVars
<1>6. CASE LockFails
  BY <1>6, QueueAssumption, BoundAssumption DEF LockFails, TypeOK, Requests,
     Operations, Generations, Codes, workerFrame, statusVars, monitorVars,
     clientVars, gateVars
<1>7. CASE ScanCheck
  BY <1>7, QueueAssumption, BoundAssumption DEF ScanCheck, Current, TypeOK,
     Requests, Operations, Generations, Codes, workerFrame, statusVars, monitorVars,
     clientVars, gateVars
<1>8. CASE ScanMore
  BY <1>8, QueueAssumption, BoundAssumption DEF ScanMore, TypeOK, Requests,
     Operations, Generations, Codes, workerFrame, statusVars, monitorVars,
     clientVars, gateVars
<1>9. CASE EndScan
  BY <1>9, QueueAssumption, BoundAssumption DEF EndScan, TypeOK, Requests,
     Operations, Generations, Codes, workerFrame, statusVars, monitorVars,
     clientVars, gateVars
<1>10. CASE ReadChunk
  BY <1>10, QueueAssumption, BoundAssumption DEF ReadChunk, TypeOK, Requests,
     Operations, Generations, Codes, workerFrame, statusVars, monitorVars,
     clientVars, gateVars
<1>11. CASE RecheckMedia
  BY <1>11, QueueAssumption, BoundAssumption DEF RecheckMedia, Current, TypeOK,
     Requests, Operations, Generations, Codes, workerFrame, statusVars, monitorVars,
     clientVars, gateVars
<1>12. CASE PublishResult
  <2>1. foreground' \in Nat
    BY <1>12 DEF PublishResult, ForegroundExact, TypeOK
  <2>2. /\ request' \in Requests /\ code' \in Codes /\ volume' \in Generations
        /\ wpc' = "idle"
    BY <1>12, BoundAssumption DEF PublishResult, NoRequest, Requests, Operations,
       Generations, Codes
  <2> QED
    BY <1>12, <2>1, <2>2 DEF PublishResult, TypeOK, workerFrame, statusVars,
       monitorVars, clientVars, gateVars
<1> QED
  BY <1>1, <1>2, <1>3, <1>4, <1>5, <1>6, <1>7, <1>8, <1>9, <1>10, <1>11, <1>12 DEF
     WorkerTask

\* ... and the book tasks.
LEMMA TypeGate ==
    ASSUME TypeOK, NEW t \in BookTasks, Gate(t)
    PROVE  TypeOK'
<1>1. CASE GateBegin(t)
  BY <1>1, BoundAssumption DEF GateBegin, TypeOK, Generations, gateFrame, cardVars,
     statusVars, monitorVars, workerVars, clientVars
<1>2. CASE GateCheck(t)
  <2>1. gate' \in [BookTasks -> {"idle", "check", "take", "recheck", "holding"}]
    BY <1>2 DEF GateCheck, Return, TypeOK
  <2>2. wanted' \in [BookTasks -> Generations]
    BY <1>2, BoundAssumption DEF GateCheck, Return, TypeOK, Generations
  <2> QED
    BY <1>2, <2>1, <2>2 DEF GateCheck, TypeOK, gateFrame, cardVars, statusVars,
       monitorVars, workerVars, clientVars
<1>3. CASE GateTake(t)
  BY <1>3, BoundAssumption DEF GateTake, TypeOK, Generations, gateFrame, cardVars,
     statusVars, monitorVars, workerVars, clientVars
<1>4. CASE GateTimeout(t)
  BY <1>4, BoundAssumption DEF GateTimeout, TypeOK, Generations, gateFrame,
     cardVars, statusVars, monitorVars, workerVars, clientVars
<1>5. CASE GateRecheck(t)
  BY <1>5, BoundAssumption DEF GateRecheck, Return, Current, TypeOK, Generations,
     gateFrame, cardVars, statusVars, monitorVars, workerVars, clientVars
<1>6. CASE GateEnd(t)
  BY <1>6, BoundAssumption DEF GateEnd, Return, TypeOK, Generations, gateFrame,
     cardVars, statusVars, monitorVars, workerVars, clientVars
<1> QED
  BY <1>1, <1>2, <1>3, <1>4, <1>5, <1>6 DEF Gate


-----------------------------------------------------------------------------
(* The conjuncts of StorageInv.                                         *)

\* The mutexes stay with those whose place in the code says so.
LEMMA LockKept ==
    ASSUME TypeOK, LockInv, Next
    PROVE  LockInv'
<1> USE TaskAssumption
<1>1. CASE MonitorTask
  <2>1. UNCHANGED <<fs, wpc, gate>>
    BY <1>1, MonitorFrame DEF workerVars, gateVars
  <2> USE <2>1
  <2>2. CASE RetryUnmount
    BY <2>2 DEF RetryUnmount, CanUnmount, LockInv, TypeOK
  <2>3. CASE SampleFails
    BY <2>3 DEF SampleFails, LockInv, TypeOK
  <2>4. CASE Sample
    BY <2>4 DEF Sample, LockInv, TypeOK
  <2>5. CASE BeginChange
    BY <2>5 DEF BeginChange, LockInv, TypeOK
  <2>6. CASE DiscardOldest
    BY <2>6 DEF DiscardOldest, LockInv, TypeOK
  <2>7. CASE AnnounceRemoval
    BY <2>7 DEF AnnounceRemoval, Publish, LockInv, TypeOK
  <2>8. CASE Unmount
    BY <2>8 DEF Unmount, CanUnmount, LockInv, TypeOK
  <2>9. CASE PrepareMount
    BY <2>9 DEF PrepareMount, CanUnmount, LockInv, TypeOK
  <2>10. CASE StillMounted
    BY <2>10 DEF StillMounted, Publish, CanUnmount, LockInv, TypeOK
  <2>11. CASE AnnounceMounting
    BY <2>11 DEF AnnounceMounting, Publish, LockInv, TypeOK
  <2>12. CASE Mount
    BY <2>12 DEF Mount, LockInv, TypeOK
  <2>13. CASE AnnounceMount
    BY <2>13 DEF AnnounceMount, Publish, LockInv, TypeOK
  <2>14. CASE EndChange
    BY <2>14 DEF EndChange, LockInv, TypeOK
  <2> QED
    BY <2>2, <2>3, <2>4, <2>5, <2>6, <2>7, <2>8, <2>9, <2>10, <2>11, <2>12,
       <2>13, <2>14, <1>1 DEF MonitorTask
<1>2. CASE MoveCard \/ TakeStatus \/ Client
  BY <1>2 DEF MoveCard, TakeStatus, Client, LatchGeneration, StartList, StampList,
     StartRead, SendRequest, LockInv, cardVars, monitorVars, workerVars, gateVars
<1>3. CASE WorkerTask
  BY <1>3 DEF WorkerTask, Dequeue, DropRequest, CheckMedia, OpenDirectory,
     LockVolume, LockFails, ScanCheck, ScanMore, EndScan, ReadChunk, RecheckMedia,
     PublishResult, LockInv, workerFrame, monitorVars, gateVars
<1>4. ASSUME NEW t \in BookTasks, Gate(t) PROVE LockInv'
  <2>1. CASE GateBegin(t)
    BY <2>1 DEF GateBegin, LockInv, TypeOK, gateFrame, cardVars, monitorVars,
       workerVars
  <2>2. CASE GateCheck(t)
    BY <2>2 DEF GateCheck, Return, Current, LockInv, TypeOK, gateFrame, cardVars,
       monitorVars, workerVars
  <2>3. CASE GateTake(t)
    BY <2>3 DEF GateTake, LockInv, TypeOK, gateFrame, cardVars, monitorVars,
       workerVars
  <2>4. CASE GateTimeout(t)
    BY <2>4 DEF GateTimeout, LockInv, TypeOK, gateFrame, cardVars, monitorVars,
       workerVars
  <2>5. CASE GateRecheck(t)
    BY <2>5 DEF GateRecheck, Return, Current, LockInv, TypeOK, gateFrame, cardVars,
       monitorVars, workerVars
  <2>6. CASE GateEnd(t)
    BY <2>6 DEF GateEnd, Return, LockInv, TypeOK, gateFrame, cardVars, monitorVars,
       workerVars
  <2> QED
    BY <2>1, <2>2, <2>3, <2>4, <2>5, <2>6, <1>4 DEF Gate
<1> QED
  BY <1>1, <1>2, <1>3, <1>4 DEF Next

\* Only the monitor can disturb what is known of the mounted volume.
LEMMA MountKept ==
    ASSUME TypeOK, LockInv, MountInv, Next
    PROVE  MountInv'
<1> USE TaskAssumption
<1>1. CASE MonitorTask
  <2>1. CASE RetryUnmount
    BY <2>1 DEF RetryUnmount, CanUnmount, MountInv, Towards, TypeOK, States,
       LockInv, debounceVars, cardVars
  <2>2. CASE SampleFails
    BY <2>2 DEF SampleFails, MountInv, Towards, TypeOK, States, LockInv,
       debounceVars, cardVars
  <2>3. CASE Sample
    BY <2>3 DEF Sample, MountInv, Towards, TypeOK, States, LockInv, debounceVars,
       cardVars
  <2>4. CASE BeginChange
    BY <2>4 DEF BeginChange, MountInv, Towards, TypeOK, States, LockInv,
       debounceVars, cardVars
  <2>5. CASE DiscardOldest
    BY <2>5 DEF DiscardOldest, MountInv, Towards, TypeOK, States, LockInv,
       debounceVars, cardVars
  <2>6. CASE AnnounceRemoval
    BY <2>6 DEF AnnounceRemoval, Publish, MountInv, Towards, TypeOK, States,
       LockInv, debounceVars, cardVars
  <2>7. CASE Unmount
    BY <2>7 DEF Unmount, CanUnmount, MountInv, Towards, TypeOK, States, LockInv,
       debounceVars, cardVars
  <2>8. CASE PrepareMount
    BY <2>8 DEF PrepareMount, CanUnmount, MountInv, Towards, TypeOK, States,
       LockInv, debounceVars, cardVars
  <2>9. CASE StillMounted
    BY <2>9 DEF StillMounted, Publish, CanUnmount, MountInv, Towards, TypeOK,
       States, LockInv, debounceVars, cardVars
  <2>10. CASE AnnounceMounting
    BY <2>10 DEF AnnounceMounting, Publish, MountInv, Towards, TypeOK, States,
       LockInv, debounceVars, cardVars
  <2>11. CASE Mount
    BY <2>11 DEF Mount, MountInv, Towards, TypeOK, States, LockInv, debounceVars,
       cardVars
  <2>12. CASE AnnounceMount
    BY <2>12 DEF AnnounceMount, Publish, MountInv, Towards, TypeOK, States, LockInv,
       debounceVars, cardVars
  <2>13. CASE EndChange
    BY <2>13 DEF EndChange, MountInv, Towards, TypeOK, States, LockInv,
       debounceVars, cardVars
  <2> QED
    BY <2>1, <2>2, <2>3, <2>4, <2>5, <2>6, <2>7, <2>8, <2>9, <2>10, <2>11,
       <2>12, <2>13, <1>1 DEF MonitorTask
<1>2. CASE ~ MonitorTask
  BY <1>2, OthersFrame DEF Next, MountInv, Towards, monitorVars
<1> QED
  BY <1>1, <1>2

\* The newest status stays the last one.
LEMMA NewestKept ==
    ASSUME TypeOK, NewestInv, Next
    PROVE  NewestInv'
<1>1. CASE MonitorTask
  <2>1. CASE RetryUnmount
    BY <2>1 DEF RetryUnmount, CanUnmount, NewestInv, TypeOK, Generations, statusVars
  <2>2. CASE SampleFails
    BY <2>2 DEF SampleFails, NewestInv, TypeOK, Generations, statusVars
  <2>3. CASE Sample
    BY <2>3 DEF Sample, NewestInv, TypeOK, Generations, statusVars
  <2>4. CASE BeginChange
    BY <2>4 DEF BeginChange, NewestInv, TypeOK, Generations, statusVars
  <2>5. CASE DiscardOldest
    BY <2>5 DEF DiscardOldest, NewestInv, TypeOK, Generations, statusVars
  <2>6. CASE AnnounceRemoval
    BY <2>6 DEF AnnounceRemoval, Publish, NewestInv, TypeOK, Generations, statusVars
  <2>7. CASE Unmount
    BY <2>7 DEF Unmount, CanUnmount, NewestInv, TypeOK, Generations, statusVars
  <2>8. CASE PrepareMount
    BY <2>8 DEF PrepareMount, CanUnmount, NewestInv, TypeOK, Generations, statusVars
  <2>9. CASE StillMounted
    BY <2>9 DEF StillMounted, Publish, CanUnmount, NewestInv, TypeOK, Generations,
       statusVars
  <2>10. CASE AnnounceMounting
    BY <2>10 DEF AnnounceMounting, Publish, NewestInv, TypeOK, Generations,
       statusVars
  <2>11. CASE Mount
    BY <2>11 DEF Mount, NewestInv, TypeOK, Generations, statusVars
  <2>12. CASE AnnounceMount
    BY <2>12 DEF AnnounceMount, Publish, NewestInv, TypeOK, Generations, statusVars
  <2>13. CASE EndChange
    BY <2>13 DEF EndChange, NewestInv, TypeOK, Generations, statusVars
  <2> QED
    BY <2>1, <2>2, <2>3, <2>4, <2>5, <2>6, <2>7, <2>8, <2>9, <2>10, <2>11,
       <2>12, <2>13, <1>1 DEF MonitorTask
<1>2. CASE TakeStatus
  <2>1. /\ statuses \in Seq(Statuses) /\ statuses # <<>>
        /\ UNCHANGED <<state, generation, mpc>>
        /\ seen' = Head(statuses) /\ statuses' = Tail(statuses)
    BY <1>2 DEF TakeStatus, TypeOK, monitorVars
  <2>2. IF Tail(statuses) = <<>> THEN Head(statuses) = statuses[Len(statuses)]
        ELSE Tail(statuses)[Len(Tail(statuses))] = statuses[Len(statuses)]
    BY <2>1
  <2> QED
    BY <2>1, <2>2 DEF NewestInv
<1>3. CASE ~ MonitorTask /\ ~ TakeStatus
  <2>1. UNCHANGED <<statusVars, state, generation, mpc>>
    BY <1>3, OthersFrame DEF Next, MoveCard, Client, WorkerTask, Gate,
       LatchGeneration, StartList, StampList, StartRead, SendRequest, Dequeue,
       DropRequest, CheckMedia, OpenDirectory, LockVolume, LockFails, ScanCheck,
       ScanMore, EndScan, ReadChunk, RecheckMedia, PublishResult, GateBegin,
       GateCheck, GateTake, GateTimeout, GateRecheck, GateEnd, workerFrame,
       gateFrame, monitorVars, statusVars
  <2> QED
    BY <2>1 DEF NewestInv, statusVars
<1> QED
  BY <1>1, <1>2, <1>3

\* The counter of foreground requests follows the requests.
LEMMA ForegroundKept ==
    ASSUME TypeOK, ForegroundExact, Next
    PROVE  ForegroundExact'
<1> USE QueueAssumption
<1>0. /\ requests \in Seq(Requests) /\ Len(requests) \in Nat
      /\ foreground \in Nat
  BY DEF TypeOK
<1>1. CASE MonitorTask
  BY <1>1, MonitorFrame DEF ForegroundExact, workerVars, clientVars
<1>2. CASE MoveCard \/ TakeStatus \/ \E t \in BookTasks : Gate(t)
  BY <1>2, RequestFrame DEF ForegroundExact, workerVars, clientVars
<1>3. CASE Client
  <2>1. CASE LatchGeneration
    BY <2>1, <1>0 DEF LatchGeneration, ForegroundExact, workerVars
  <2>2. CASE StartList
    BY <2>2, <1>0 DEF StartList, ForegroundExact, workerVars
  <2>3. CASE StampList
    BY <2>3, <1>0 DEF StampList, ForegroundExact, workerVars
  <2>4. CASE StartRead
    BY <2>4, <1>0 DEF StartRead, Current, ForegroundExact, workerVars
  <2>5. CASE SendRequest
    BY <2>5, <1>0 DEF SendRequest, NoRequest, ForegroundExact, workerVars
  <2> QED
    BY <2>1, <2>2, <2>3, <2>4, <2>5, <1>3 DEF Client
<1>4. CASE WorkerTask
  <2>1. CASE Dequeue
    BY <2>1, <1>0 DEF Dequeue, ForegroundExact, workerFrame, clientVars
  <2>2. CASE DropRequest
    BY <2>2, <1>0 DEF DropRequest, NoRequest, ForegroundExact, workerFrame,
       clientVars
  <2>3. CASE CheckMedia
    BY <2>3, <1>0 DEF CheckMedia, Current, ForegroundExact, workerFrame, clientVars
  <2>4. CASE OpenDirectory
    BY <2>4, <1>0 DEF OpenDirectory, ForegroundExact, workerFrame, clientVars
  <2>5. CASE LockVolume
    BY <2>5, <1>0 DEF LockVolume, ForegroundExact, workerFrame, clientVars
  <2>6. CASE LockFails
    BY <2>6, <1>0 DEF LockFails, ForegroundExact, workerFrame, clientVars
  <2>7. CASE ScanCheck
    BY <2>7, <1>0 DEF ScanCheck, Current, ForegroundExact, workerFrame, clientVars
  <2>8. CASE ScanMore
    BY <2>8, <1>0 DEF ScanMore, ForegroundExact, workerFrame, clientVars
  <2>9. CASE EndScan
    BY <2>9, <1>0 DEF EndScan, ForegroundExact, workerFrame, clientVars
  <2>10. CASE ReadChunk
    BY <2>10, <1>0 DEF ReadChunk, ForegroundExact, workerFrame, clientVars
  <2>11. CASE RecheckMedia
    BY <2>11, <1>0 DEF RecheckMedia, Current, ForegroundExact, workerFrame,
       clientVars
  <2>12. CASE PublishResult
    BY <2>12, <1>0 DEF PublishResult, NoRequest, ForegroundExact, workerFrame,
       clientVars
  <2> QED
    BY <2>1, <2>2, <2>3, <2>4, <2>5, <2>6, <2>7, <2>8, <2>9, <2>10, <2>11,
       <2>12, <1>4 DEF WorkerTask
<1> QED
  BY <1>1, <1>2, <1>3, <1>4 DEF Next

\* No one but the holder of media_access_mutex moves the card under it.
LEMMA GateKept ==
    ASSUME TypeOK, LockInv, MountInv, GateProtects, Next
    PROVE  GateProtects'
<1> USE TaskAssumption
<1>1. CASE MonitorTask
  <2>1. UNCHANGED <<gate, wanted>>
    BY <1>1, MonitorFrame DEF gateVars
  <2> USE <2>1
  <2>2. CASE RetryUnmount
    BY <2>2 DEF RetryUnmount, CanUnmount, GateProtects, Current, LockInv, TypeOK,
       cardVars
  <2>3. CASE SampleFails
    BY <2>3 DEF SampleFails, GateProtects, Current, LockInv, TypeOK, cardVars
  <2>4. CASE Sample
    BY <2>4 DEF Sample, GateProtects, Current, LockInv, TypeOK, cardVars
  <2>5. CASE BeginChange
    BY <2>5 DEF BeginChange, GateProtects, Current, LockInv, TypeOK, cardVars
  <2>6. CASE DiscardOldest
    BY <2>6 DEF DiscardOldest, GateProtects, Current, LockInv, TypeOK, cardVars
  <2>7. CASE AnnounceRemoval
    BY <2>7 DEF AnnounceRemoval, Publish, GateProtects, Current, LockInv, TypeOK,
       cardVars
  <2>8. CASE Unmount
    BY <2>8 DEF Unmount, CanUnmount, GateProtects, Current, LockInv, TypeOK,
       cardVars
  <2>9. CASE PrepareMount
    BY <2>9 DEF PrepareMount, CanUnmount, GateProtects, Current, LockInv, TypeOK,
       cardVars
  <2>10. CASE StillMounted
    BY <2>10 DEF StillMounted, Publish, CanUnmount, GateProtects, Current, LockInv,
       TypeOK, cardVars
  <2>11. CASE AnnounceMounting
    BY <2>11 DEF AnnounceMounting, Publish, GateProtects, Current, LockInv, TypeOK,
       cardVars
  <2>12. CASE Mount
    BY <2>12 DEF Mount, GateProtects, Current, LockInv, TypeOK, cardVars
  <2>13. CASE AnnounceMount
    BY <2>13 DEF AnnounceMount, Publish, GateProtects, Current, LockInv, TypeOK,
       cardVars
  <2>14. CASE EndChange
    BY <2>14 DEF EndChange, GateProtects, Current, LockInv, TypeOK, cardVars
  <2> QED
    BY <2>2, <2>3, <2>4, <2>5, <2>6, <2>7, <2>8, <2>9, <2>10, <2>11, <2>12,
       <2>13, <2>14, <1>1 DEF MonitorTask
<1>2. CASE MoveCard \/ TakeStatus \/ Client \/ WorkerTask
  <2>1. UNCHANGED <<mounted, state, generation>>
    BY <1>2, OthersFrame
  <2>2. UNCHANGED <<media, gate, wanted>>
    BY <1>2 DEF MoveCard, TakeStatus, Client, WorkerTask, LatchGeneration,
       StartList, StampList, StartRead, SendRequest, Dequeue, DropRequest,
       CheckMedia, OpenDirectory, LockVolume, LockFails, ScanCheck, ScanMore,
       EndScan, ReadChunk, RecheckMedia, PublishResult, workerFrame, gateVars
  <2> QED
    BY <2>1, <2>2 DEF GateProtects, Current
<1>3. ASSUME NEW t \in BookTasks, Gate(t) PROVE GateProtects'
  <2>1. UNCHANGED <<mounted, state, generation>>
    BY <1>3, OthersFrame
  <2> USE <2>1
  <2>2. CASE GateBegin(t)
    BY <2>2 DEF GateBegin, GateProtects, Current, LockInv, TypeOK
  <2>3. CASE GateCheck(t)
    BY <2>3 DEF GateCheck, Return, Current, GateProtects, LockInv, MountInv, TypeOK
  <2>4. CASE GateTake(t)
    BY <2>4 DEF GateTake, GateProtects, LockInv, MountInv, TypeOK
  <2>5. CASE GateTimeout(t)
    BY <2>5 DEF GateTimeout, GateProtects, Current, LockInv, TypeOK
  <2>6. CASE GateRecheck(t)
    BY <2>6 DEF GateRecheck, Return, Current, GateProtects, LockInv, MountInv,
       TypeOK
  <2>7. CASE GateEnd(t)
    BY <2>7 DEF GateEnd, Return, GateProtects, LockInv, MountInv, TypeOK
  <2> QED
    BY <2>2, <2>3, <2>4, <2>5, <2>6, <2>7, <1>3 DEF Gate
<1> QED
  BY <1>1, <1>2, <1>3 DEF Next

\* A generation without a card never gets one: only BeginChange leads to a
\* mount, and it moves on to a new generation.
LEMMA DeadStays ==
    ASSUME TypeOK, MountInv, Next, NEW g \in Generations, Dead(g)
    PROVE  Dead(g)'
<1> USE DEF Dead, Towards
<1>0. generation \in Nat /\ g \in Nat
  BY BoundAssumption DEF TypeOK, Generations
<1>1. CASE MonitorTask
  <2>1. CASE RetryUnmount
    BY <2>1, <1>0 DEF RetryUnmount, CanUnmount, MountInv, cardVars
  <2>2. CASE SampleFails
    BY <2>2, <1>0 DEF SampleFails, MountInv, cardVars
  <2>3. CASE Sample
    BY <2>3, <1>0 DEF Sample, MountInv, cardVars
  <2>4. CASE BeginChange
    BY <2>4, <1>0 DEF BeginChange, MountInv, cardVars
  <2>5. CASE DiscardOldest
    BY <2>5, <1>0 DEF DiscardOldest, TypeOK, cardVars
  <2>6. CASE AnnounceRemoval
    BY <2>6, <1>0 DEF AnnounceRemoval, Publish, MountInv, cardVars
  <2>7. CASE Unmount
    BY <2>7, <1>0 DEF Unmount, CanUnmount, MountInv, cardVars
  <2>8. CASE PrepareMount
    BY <2>8, <1>0 DEF PrepareMount, CanUnmount, MountInv, cardVars
  <2>9. CASE StillMounted
    BY <2>9, <1>0 DEF StillMounted, Publish, CanUnmount, MountInv, cardVars
  <2>10. CASE AnnounceMounting
    BY <2>10, <1>0 DEF AnnounceMounting, Publish, MountInv, cardVars
  <2>11. CASE Mount
    BY <2>11, <1>0 DEF Mount, MountInv, cardVars
  <2>12. CASE AnnounceMount
    BY <2>12, <1>0 DEF AnnounceMount, Publish, MountInv, cardVars
  <2>13. CASE EndChange
    BY <2>13, <1>0 DEF EndChange, MountInv, cardVars
  <2> QED
    BY <2>1, <2>2, <2>3, <2>4, <2>5, <2>6, <2>7, <2>8, <2>9, <2>10, <2>11,
       <2>12, <2>13, <1>1 DEF MonitorTask
<1>2. CASE ~ MonitorTask
  BY <1>2, OthersFrame DEF Next, monitorVars
<1> QED
  BY <1>1, <1>2

\* While filesystem_mutex is taken the volume stays mounted.
LEMMA VolumePinned ==
    ASSUME TypeOK, LockInv, Next, wpc \in {"scan", "read"}, mounted # 0
    PROVE  mounted' = mounted
<1>0. fs # Nobody
  BY TaskAssumption DEF LockInv
<1>1. CASE MonitorTask
  <2>1. CASE RetryUnmount
    BY <2>1, <1>0 DEF RetryUnmount, CanUnmount, cardVars
  <2>2. CASE SampleFails
    BY <2>2, <1>0 DEF SampleFails, cardVars
  <2>3. CASE Sample
    BY <2>3, <1>0 DEF Sample, cardVars
  <2>4. CASE BeginChange
    BY <2>4, <1>0 DEF BeginChange, cardVars
  <2>5. CASE DiscardOldest
    BY <2>5, <1>0 DEF DiscardOldest, cardVars
  <2>6. CASE AnnounceRemoval
    BY <2>6, <1>0 DEF AnnounceRemoval, Publish, cardVars
  <2>7. CASE Unmount
    BY <2>7, <1>0 DEF Unmount, CanUnmount, cardVars
  <2>8. CASE PrepareMount
    BY <2>8, <1>0 DEF PrepareMount, CanUnmount, cardVars
  <2>9. CASE StillMounted
    BY <2>9, <1>0 DEF StillMounted, Publish, CanUnmount, cardVars
  <2>10. CASE AnnounceMounting
    BY <2>10, <1>0 DEF AnnounceMounting, Publish, cardVars
  <2>11. CASE Mount
    BY <2>11, <1>0 DEF Mount, cardVars
  <2>12. CASE AnnounceMount
    BY <2>12, <1>0 DEF AnnounceMount, Publish, cardVars
  <2>13. CASE EndChange
    BY <2>13, <1>0 DEF EndChange, cardVars
  <2> QED
    BY <2>1, <2>2, <2>3, <2>4, <2>5, <2>6, <2>7, <2>8, <2>9, <2>10, <2>11,
       <2>12, <2>13, <1>1 DEF MonitorTask
<1>2. CASE ~ MonitorTask
  BY <1>2, OthersFrame DEF Next
<1> QED
  BY <1>1, <1>2

\* A generation that is ready stays so until the generation moves on.
LEMMA CurrentStays ==
    ASSUME TypeOK, MountInv, Next, NEW g \in Generations,
           (Current(g) /\ mpc # "removed") \/ g < generation
    PROVE  (Current(g) /\ mpc # "removed")' \/ g < generation'
<1> USE DEF Current
<1>0. generation \in Nat /\ g \in Nat
  BY BoundAssumption DEF TypeOK, Generations
<1>1. CASE MonitorTask
  <2>1. CASE RetryUnmount
    BY <2>1, <1>0 DEF RetryUnmount, CanUnmount, MountInv, Towards
  <2>2. CASE SampleFails
    BY <2>2, <1>0 DEF SampleFails, MountInv, Towards
  <2>3. CASE Sample
    BY <2>3, <1>0 DEF Sample, MountInv, Towards
  <2>4. CASE BeginChange
    BY <2>4, <1>0 DEF BeginChange, MountInv, Towards
  <2>5. CASE DiscardOldest
    BY <2>5, <1>0 DEF DiscardOldest, MountInv, Towards
  <2>6. CASE AnnounceRemoval
    BY <2>6, <1>0 DEF AnnounceRemoval, Publish, MountInv, Towards
  <2>7. CASE Unmount
    BY <2>7, <1>0 DEF Unmount, CanUnmount, MountInv, Towards
  <2>8. CASE PrepareMount
    BY <2>8, <1>0 DEF PrepareMount, CanUnmount, MountInv, Towards
  <2>9. CASE StillMounted
    BY <2>9, <1>0 DEF StillMounted, Publish, CanUnmount, MountInv, Towards
  <2>10. CASE AnnounceMounting
    BY <2>10, <1>0 DEF AnnounceMounting, Publish, MountInv, Towards
  <2>11. CASE Mount
    BY <2>11, <1>0 DEF Mount, MountInv, Towards
  <2>12. CASE AnnounceMount
    BY <2>12, <1>0 DEF AnnounceMount, Publish, MountInv, Towards
  <2>13. CASE EndChange
    BY <2>13, <1>0 DEF EndChange, MountInv, Towards
  <2> QED
    BY <2>1, <2>2, <2>3, <2>4, <2>5, <2>6, <2>7, <2>8, <2>9, <2>10, <2>11,
       <2>12, <2>13, <1>1 DEF MonitorTask
<1>2. CASE ~ MonitorTask
  BY <1>2, OthersFrame DEF Next, monitorVars
<1> QED
  BY <1>1, <1>2

\* Volumes are named by the generations that have passed.
LEMMA VolumesKept ==
    ASSUME TypeOK, MountInv, ReadInv, Next
    PROVE  /\ volumes' \subseteq 1 .. generation'
           /\ mpc' = "removed" => generation' \notin volumes'
<1>0. generation \in Nat /\ mounted \in Nat
  BY BoundAssumption DEF TypeOK, Generations
<1>1. /\ volumes \subseteq 1 .. generation
      /\ mpc = "removed" => generation \notin volumes
  BY DEF ReadInv
<1>2. CASE MonitorTask
  <2>1. CASE RetryUnmount
    BY <2>1, <1>0, <1>1 DEF RetryUnmount, CanUnmount, cardVars, MountInv, Towards
  <2>2. CASE SampleFails
    BY <2>2, <1>0, <1>1 DEF SampleFails, cardVars, MountInv, Towards
  <2>3. CASE Sample
    BY <2>3, <1>0, <1>1 DEF Sample, cardVars, MountInv, Towards
  <2>4. CASE BeginChange
    BY <2>4, <1>0, <1>1 DEF BeginChange, cardVars, MountInv, Towards
  <2>5. CASE DiscardOldest
    BY <2>5, <1>0, <1>1 DEF DiscardOldest, TypeOK, cardVars
  <2>6. CASE AnnounceRemoval
    BY <2>6, <1>0, <1>1 DEF AnnounceRemoval, Publish, cardVars, MountInv, Towards
  <2>7. CASE Unmount
    BY <2>7, <1>0, <1>1 DEF Unmount, CanUnmount, cardVars, MountInv, Towards
  <2>8. CASE PrepareMount
    BY <2>8, <1>0, <1>1 DEF PrepareMount, CanUnmount, cardVars, MountInv, Towards
  <2>9. CASE StillMounted
    BY <2>9, <1>0, <1>1 DEF StillMounted, Publish, CanUnmount, cardVars, MountInv,
       Towards
  <2>10. CASE AnnounceMounting
    BY <2>10, <1>0, <1>1 DEF AnnounceMounting, Publish, cardVars, MountInv, Towards
  <2>11. CASE Mount
    BY <2>11, <1>0, <1>1 DEF Mount, cardVars, MountInv, Towards
  <2>12. CASE AnnounceMount
    BY <2>12, <1>0, <1>1 DEF AnnounceMount, Publish, cardVars, MountInv, Towards
  <2>13. CASE EndChange
    BY <2>13, <1>0, <1>1 DEF EndChange, cardVars, MountInv, Towards
  <2> QED
    BY <2>1, <2>2, <2>3, <2>4, <2>5, <2>6, <2>7, <2>8, <2>9, <2>10, <2>11,
       <2>12, <2>13, <1>2 DEF MonitorTask
<1>3. CASE ~ MonitorTask
  BY <1>1, <1>3, OthersFrame DEF Next, monitorVars
<1> QED
  BY <1>2, <1>3

\* The tests the worker has made still mean what they meant.
LEMMA ReadKept ==
    ASSUME TypeOK, LockInv, MountInv, ReadInv, Next
    PROVE  ReadInv'
<1> DEFINE g == request.generation
<1>0. /\ g \in Generations /\ generation \in Nat /\ generation' \in Nat
      /\ g \in Nat /\ request.operation \in Operations /\ generation <= generation'
  <2>1. generation' \in {generation, generation + 1}
    BY OthersFrame DEF Next, MonitorTask, Publish, RetryUnmount, SampleFails,
       Sample, BeginChange, DiscardOldest, AnnounceRemoval, Unmount, PrepareMount,
       StillMounted, AnnounceMounting, Mount, AnnounceMount, EndChange
  <2> QED
    BY <2>1, BoundAssumption DEF TypeOK, Requests, Generations
<1>1. /\ volumes' \subseteq 1 .. generation'
      /\ mpc' = "removed" => generation' \notin volumes'
  BY VolumesKept
<1>2. \A r \in Generations : Dead(r) => Dead(r)'
  <2> TAKE r \in Generations
  <2> HAVE Dead(r)
  <2> QED
    BY DeadStays
<1>3. \A r \in Generations :
          (Current(r) /\ mpc # "removed") \/ r < generation =>
              (Current(r) /\ mpc # "removed")' \/ r < generation'
  <2> TAKE r \in Generations
  <2> HAVE (Current(r) /\ mpc # "removed") \/ r < generation
  <2> QED
    BY CurrentStays
<1>4. wpc \in {"scan", "read"} => mounted # 0 /\ mounted' = mounted /\ volume = mounted
  BY VolumePinned DEF ReadInv
<1>6. CASE ~ WorkerTask
  <2>1. UNCHANGED workerVars
    BY <1>6, MonitorFrame, RequestFrame DEF Next, Client, workerVars,
       LatchGeneration, StartList, StampList, StartRead, SendRequest
  <2>2. UNCHANGED <<wpc, request, code, volume>>
    BY <2>1 DEF workerVars
  <2> QED
    BY <2>2, <1>0, <1>1, <1>2, <1>3, <1>4 DEF ReadInv, Dead, Current
<1>7. CASE WorkerTask
  <2>0. UNCHANGED <<mounted, volumes, state, generation, mpc, after>>
    BY <1>7, OthersFrame DEF monitorVars
  <2> USE <2>0 DEF ReadInv, Dead, Towards
  <2>1. CASE Dequeue
    BY <2>1, <1>0 DEF Dequeue, MountInv, Operations, Current
  <2>2. CASE DropRequest
    BY <2>2, <1>0 DEF DropRequest, NoRequest, MountInv, Operations, Current
  <2>3. CASE CheckMedia
    BY <2>3, <1>0 DEF CheckMedia, MountInv, Operations, Current
  <2>4. CASE OpenDirectory
    BY <2>4, <1>0 DEF OpenDirectory, MountInv, Operations, Current
  <2>5. CASE LockVolume
    BY <2>5, <1>0 DEF LockVolume, MountInv, Operations, Current
  <2>6. CASE LockFails
    BY <2>6, <1>0 DEF LockFails, MountInv, Operations, Current
  <2>7. CASE ScanCheck
    BY <2>7, <1>0 DEF ScanCheck, MountInv, Operations, Current
  <2>8. CASE ScanMore
    BY <2>8, <1>0 DEF ScanMore, MountInv, Operations, Current
  <2>9. CASE EndScan
    BY <2>9, <1>0 DEF EndScan, MountInv, Operations, Current
  <2>10. CASE ReadChunk
    BY <2>10, <1>0 DEF ReadChunk, MountInv, Operations, Current
  <2>11. CASE RecheckMedia
    BY <2>11, <1>0 DEF RecheckMedia, MountInv, Operations, Current
  <2>12. CASE PublishResult
    BY <2>12, <1>0 DEF PublishResult, NoRequest, MountInv, Operations, Current
  <2> QED
    BY <2>1, <2>2, <2>3, <2>4, <2>5, <2>6, <2>7, <2>8, <2>9, <2>10, <2>11,
       <2>12, <1>7 DEF WorkerTask
<1> QED
  BY <1>6, <1>7

-----------------------------------------------------------------------------
(* The theorems.                                                          *)

\* The start-up state has no card mounted, nobody at the gate and no request.
LEMMA StorageInit == Init => StorageInv
<1> SUFFICES ASSUME Init PROVE StorageInv
  OBVIOUS
<1> USE TaskAssumption, QueueAssumption, StableAssumption, BoundAssumption DEF Init
<1>1. TypeOK
  <2>1. /\ unmountPending \in BOOLEAN /\ stableInserted \in BOOLEAN
        /\ stableKnown \in BOOLEAN /\ candidate \in BOOLEAN
    BY Zenon
  <2>2. seen \in Statuses /\ request \in Requests /\ asked \in Requests
    BY DEF Statuses, States, Requests, Operations, Generations, NoRequest
  <2>3. requests = <<>> /\ statuses = <<>>
    OBVIOUS
  <2>4. /\ requests \in Seq(Requests) /\ Len(requests) <= RequestQueueLength
        /\ statuses \in Seq(Statuses) /\ Len(statuses) <= StatusQueueLength
    BY <2>3
  <2> QED
    BY <2>1, <2>2, <2>4 DEF TypeOK, Generations, States, Codes
<1>2. LockInv /\ MountInv
  BY DEF LockInv, MountInv, Towards
<1>3. ReadInv
  BY DEF ReadInv, NoRequest
<1>4. NewestInv /\ GateProtects /\ ForegroundExact
  BY DEF NewestInv, GateProtects, ForegroundExact
<1> QED
  BY <1>1, <1>2, <1>3, <1>4 DEF StorageInv

\* Every step of every task keeps the invariant.
LEMMA StorageStep == StorageInv /\ [Next]_vars => StorageInv'
<1> SUFFICES ASSUME StorageInv, [Next]_vars PROVE StorageInv'
  OBVIOUS
<1> USE DEF StorageInv
<1>1. CASE Next
  <2>1. TypeOK'
    BY <1>1, TypeMonitor, TypeUser, TypeWorker, TypeGate DEF Next
  <2> QED
    BY <1>1, <2>1, LockKept, MountKept, ReadKept, NewestKept, GateKept,
       ForegroundKept
<1>2. CASE UNCHANGED vars
  <2> USE <1>2 DEF vars, cardVars, statusVars, monitorVars, workerVars, clientVars, gateVars
  <2>1. TypeOK'
    BY DEF TypeOK
  <2>2. LockInv' /\ MountInv' /\ ReadInv'
    BY DEF LockInv, MountInv, Towards, ReadInv, Dead, Current
  <2>3. NewestInv' /\ GateProtects' /\ ForegroundExact'
    BY DEF NewestInv, GateProtects, Current, ForegroundExact
  <2> QED
    BY <2>1, <2>2, <2>3
<1> QED
  BY <1>1, <1>2

\* The inductive invariant holds in every reachable state of the storage service.
THEOREM StorageInvariant == Spec => []StorageInv
<1> QED
  BY StorageInit, StorageStep, PTL DEF Spec

\* Every variable of the storage service keeps its type, queue lengths included.
THEOREM StorageTypeOK == Spec => []TypeOK
<1>1. StorageInv => TypeOK
  BY DEF StorageInv
<1> QED
  BY <1>1, StorageInvariant, PTL

\* However many book tasks use storage_book_access_begin, the card of the one
\* inside stays ready, mounted and of the generation it asked for.
THEOREM StorageGateProtects == Spec => []GateProtects
<1>1. StorageInv => GateProtects
  BY DEF StorageInv
<1> QED
  BY <1>1, StorageInvariant, PTL

\* foreground_requests is the number of requests that still await an answer.
THEOREM StorageForegroundExact == Spec => []ForegroundExact
<1>1. StorageInv => ForegroundExact
  BY DEF StorageInv
<1> QED
  BY <1>1, StorageInvariant, PTL

\* Outside a card change "ready" means that the current card's volume is mounted.
THEOREM StorageReadyIsMounted == Spec => []ReadyIsMounted
<1>1. StorageInv => ReadyIsMounted
  <2> SUFFICES ASSUME StorageInv, state = "ready", media # Monitor
               PROVE  mounted = generation
    BY DEF ReadyIsMounted
  <2>1. mpc # "removed"
    BY DEF StorageInv, LockInv
  <2> QED
    BY <2>1 DEF StorageInv, MountInv
<1> QED
  BY <1>1, StorageInvariant, PTL

\* A scan or a chunk that is reported as read under a card's generation was read
\* from that card, whatever was pulled and pushed meanwhile.
THEOREM StorageNoCrossCardResult == Spec => []NoCrossCardResult
<1>1. StorageInv => NoCrossCardResult
  BY DEF StorageInv, NoCrossCardResult, ReadInv, Dead
<1> QED
  BY <1>1, StorageInvariant, PTL

\* With the status queue drained, the last status delivered is the current one.
THEOREM StorageStatusCatchesUp == Spec => []StatusCatchesUp
<1>1. StorageInv => StatusCatchesUp
  BY DEF StorageInv, NewestInv, StatusCatchesUp
<1> QED
  BY <1>1, StorageInvariant, PTL
=============================================================================
