--------------------------- MODULE CTWatcherProofs ---------------------------
(***************************************************************************)
(* Proofs about the CT watcher model, for every value of the constants    *)
(* that satisfies ConstantsAssumption.                                     *)
(***************************************************************************)
EXTENDS CTWatcher, FiniteSetTheorems, TLAPS

USE ConstantsAssumption

(* Replacing one worker of a worker sequence by a worker record keeps it a *)
(* sequence of workers.                                                    *)
LEMMA UpdateWorkerType ==
    ASSUME NEW ws \in Seq(Worker), NEW i \in 1..Len(ws), NEW r \in Worker
    PROVE  [ws EXCEPT ![i] = r] \in Seq(Worker)
BY DEF Worker

(* A step that replaces worker i by a worker record keeps the worker      *)
(* sequence typed.                                                         *)
LEMMA UpdateWType ==
    ASSUME TypeOK, NEW i \in 1..Len(workers), NEW r \in Worker, UpdateW(i, r)
    PROVE  workers' \in Seq(Worker)
BY UpdateWorkerType DEF TypeOK, UpdateW

(* The worker of a log URL built by a sweep is a worker record.            *)
LEMMA NewWorkerType ==
    ASSUME NEW u \in URL
    PROVE  NewWorker(u) \in Worker
BY DEF NewWorker, Worker, WorkerPC, Kinds

(* The URL a worker rewrites its ctURL to is again a URL.                  *)
LEMMA WorkerNormalizeType ==
    ASSUME NEW u \in URL
    PROVE  WorkerNormalize(u) \in URL
BY DEF WorkerNormalize, URL, Schemes

(* The field updates the worker goroutine makes to its own record (pc,     *)
(* pos, kind, and the normalised url) keep it a worker record.             *)
LEMMA WorkerUpdate ==
    ASSUME NEW w \in Worker
    PROVE  /\ \A p \in WorkerPC : [w EXCEPT !.pc = p] \in Worker
           /\ \A p \in WorkerPC, n \in Nat :
                 [w EXCEPT !.pc = p, !.pos = n] \in Worker
           /\ \A p \in WorkerPC, k \in Kinds :
                 [w EXCEPT !.pc = p, !.kind = k] \in Worker
           /\ \A n \in Nat : [w EXCEPT !.pos = n] \in Worker
           /\ \A u \in URL :
                 [w EXCEPT !.url = u, !.running = TRUE, !.pc = "run"] \in Worker
           /\ w.pos \in Nat /\ w.url \in URL /\ w.kind \in Kinds
<1>1. \A p \in WorkerPC : [w EXCEPT !.pc = p] \in Worker
  BY DEF Worker
<1>2. \A p \in WorkerPC, n \in Nat : [w EXCEPT !.pc = p, !.pos = n] \in Worker
  BY DEF Worker
<1>3. \A p \in WorkerPC, k \in Kinds :
         [w EXCEPT !.pc = p, !.kind = k] \in Worker
  BY DEF Worker
<1>4. \A n \in Nat : [w EXCEPT !.pos = n] \in Worker
  BY DEF Worker
<1>5. \A u \in URL :
         [w EXCEPT !.url = u, !.running = TRUE, !.pc = "run"] \in Worker
  BY DEF Worker, WorkerPC
<1>6. w.pos \in Nat /\ w.url \in URL /\ w.kind \in Kinds
  BY DEF Worker
<1>7. QED
  BY <1>1, <1>2, <1>3, <1>4, <1>5, <1>6

(* The catalog refresh and the log list download leave the catalog, the    *)
(* pending list and the panic state in their types.                        *)
LEMMA SweepFetchType ==
    ASSUME SweepFetch
    PROVE  /\ caOwners' \in {"empty", "nil", "ccadb"}
           /\ pending' \in Seq(URL)
           /\ panicked' \in Panics \/ panicked' = panicked
<1>1. caOwners' \in {"empty", "nil", "ccadb"}
  BY DEF SweepFetch, RefreshCatalog
<1>2. FetchLogList
  BY DEF SweepFetch
<1>3. CASE \E l \in LogLists : pending' = l /\ UNCHANGED panicked
  <2>1. PICK l \in LogLists : pending' = l /\ UNCHANGED panicked
    BY <1>3
  <2>2. l \in Seq(URL)
    BY ConstantsAssumption
  <2>3. QED
    BY <1>1, <2>1, <2>2
<1>4. CASE pending' = <<>> /\ (panicked' = "loglist_read" \/ UNCHANGED panicked)
  BY <1>1, <1>4 DEF Panics
<1>5. QED
  BY <1>1, <1>2, <1>3, <1>4 DEF FetchLogList

(* The initial state of NewWatcher and the globals is typed.              *)
LEMMA TypeInit == Init => TypeOK
<1> SUFFICES ASSUME Init PROVE TypeOK
  OBVIOUS
<1>1. /\ processed \in 0..(ExampleEvery - 1)
      /\ example \in Entry \cup {ZeroEntry}
      /\ processedCount \in [Kinds -> Nat]
  BY DEF Init
<1>2. /\ bcast \in [Hosts -> Seq(Nat)]
      /\ workers \in Seq(Worker) /\ pending \in Seq(URL)
      /\ chan \in Seq(Entry) /\ Len(chan) <= ChanCap
  BY DEF Init
<1>3. /\ sweeps \in 0..MaxSweeps /\ errors \in 0..MaxErrors
      /\ panicked \in Panics
  BY DEF Init, Panics
<1>4. QED
  BY <1>1, <1>2, <1>3 DEF Init, TypeOK

(* Every step keeps TypeOK (the inductive step of TypeCorrect).           *)
LEMMA TypeStep == TypeOK /\ [Next]_vars => TypeOK'
<1> SUFFICES ASSUME TypeOK, [Next]_vars PROVE TypeOK'
  OBVIOUS
<1>1. CASE Start
  <2>1. panicked \in Panics
    BY DEF TypeOK
  <2>2. QED
    BY <1>1, <2>1, SweepFetchType DEF Start, TypeOK
<1>2. CASE SweepItem
  <2>1. Head(pending) \in URL /\ Tail(pending) \in Seq(URL)
    BY <1>2 DEF SweepItem, TypeOK
  <2>2. workers' \in Seq(Worker)
    <3>1. NewWorker(Head(pending)) \in Worker
      BY <2>1, NewWorkerType
    <3>2. Append(workers, NewWorker(Head(pending))) \in Seq(Worker)
      BY <3>1 DEF TypeOK
    <3>3. QED
      BY <1>2, <3>2 DEF SweepItem, TypeOK
  <2>3. QED
    BY <1>2, <2>1, <2>2 DEF SweepItem, TypeOK
<1>3. CASE StartResume
  BY <1>3 DEF StartResume, TypeOK
<1>4. CASE WaitReturn
  BY <1>4 DEF WaitReturn, TypeOK
<1>5. CASE CloseChan
  BY <1>5 DEF CloseChan, TypeOK
<1>6. CASE Tick
  <2>1. panicked \in Panics /\ sweeps + 1 \in 0..MaxSweeps
    BY <1>6 DEF Tick, TypeOK
  <2>2. QED
    BY <1>6, <2>1, SweepFetchType DEF Tick, TypeOK
<1>7. CASE WatcherResume
  BY <1>7 DEF WatcherResume, TypeOK
<1>8. CASE WatcherExit
  BY <1>8 DEF WatcherExit, TypeOK
<1>9. CASE Stop
  BY <1>9 DEF Stop, TypeOK
<1>10. CASE StopBeforeStart
  BY <1>10 DEF StopBeforeStart, TypeOK, Panics
<1>11. CASE PumpReceive
  <2>1. Head(chan) \in Entry /\ Tail(chan) \in Seq(Entry)
        /\ Len(Tail(chan)) <= ChanCap
    BY <1>11 DEF PumpReceive, TypeOK
  <2>2. processed' \in 0..(ExampleEvery - 1)
        /\ example' \in Entry \cup {ZeroEntry}
    BY <1>11, <2>1 DEF PumpReceive, Broadcast, TypeOK
  <2>3. bcast' \in [Hosts -> Seq(Nat)]
    <3>1. Head(chan).host \in Hosts /\ Head(chan).idx \in Nat
      BY <2>1 DEF Entry
    <3>2. Append(bcast[Head(chan).host], Head(chan).idx) \in Seq(Nat)
      BY <3>1 DEF TypeOK
    <3>3. bcast' = [bcast EXCEPT ![Head(chan).host] =
                       Append(bcast[Head(chan).host], Head(chan).idx)]
      BY <1>11 DEF PumpReceive
    <3>4. QED
      BY <3>1, <3>2, <3>3 DEF TypeOK
  <2>4. QED
    BY <1>11, <2>1, <2>2, <2>3 DEF PumpReceive, TypeOK
<1>12. CASE PumpReceiveClosed
  <2>1. processed' \in 0..(ExampleEvery - 1)
        /\ example' \in Entry \cup {ZeroEntry}
    BY <1>12 DEF PumpReceiveClosed, Broadcast, TypeOK
  <2>2. QED
    BY <1>12, <2>1 DEF PumpReceiveClosed, TypeOK
<1>13. ASSUME NEW i \in 1..Len(workers), StartDownloadingCerts(i)
       PROVE  TypeOK'
  <2>1. workers[i] \in Worker
    BY DEF TypeOK
  <2>2. WorkerNormalize(workers[i].url) \in URL
    BY <2>1, WorkerUpdate, WorkerNormalizeType
  <2>3. [workers[i] EXCEPT !.url = WorkerNormalize(@), !.running = TRUE,
                           !.pc = "run"] \in Worker
    BY <2>1, <2>2, WorkerUpdate
  <2>4. workers' \in Seq(Worker)
    BY <1>13, <2>3, UpdateWType DEF StartDownloadingCerts
  <2>5. QED
    BY <1>13, <2>4 DEF StartDownloadingCerts, TypeOK
<1>14. ASSUME NEW i \in 1..Len(workers), RunWorker(i)
       PROVE  TypeOK'
  <2>1. workers[i] \in Worker
    BY DEF TypeOK
  <2>2. HostOf(i) \in Hosts
    BY <2>1 DEF HostOf, Worker, URL
  <2>3. logSize[HostOf(i)] \in Nat
    BY <2>2 DEF TypeOK
  <2>4. /\ [workers[i] EXCEPT !.pc = "done"] \in Worker
        /\ [workers[i] EXCEPT !.pc = "scan", !.pos = logSize[HostOf(i)]]
              \in Worker
    BY <2>1, <2>3, WorkerUpdate DEF WorkerPC
  <2>5. workers' \in Seq(Worker)
    <3>1. CASE UNCHANGED workers
      BY <3>1 DEF TypeOK
    <3>2. CASE UpdateW(i, [workers[i] EXCEPT !.pc = "done"])
      BY <3>2, <2>4, UpdateWType
    <3>3. CASE UpdateW(i, [workers[i] EXCEPT !.pc = "scan",
                                             !.pos = logSize[HostOf(i)]])
      BY <3>3, <2>4, UpdateWType
    <3>4. QED
      BY <1>14, <3>1, <3>2, <3>3 DEF RunWorker
  <2>6. panicked' \in Panics
    BY <1>14 DEF RunWorker, TypeOK, Panics
  <2>7. QED
    BY <1>14, <2>5, <2>6 DEF RunWorker, TypeOK
<1>15. ASSUME NEW i \in 1..Len(workers), ScanDeliver(i)
       PROVE  TypeOK'
  <2>1. workers[i] \in Worker
    BY DEF TypeOK
  <2>2. workers[i].pos + 1 \in Nat
    BY <2>1 DEF Worker
  <2>3. /\ [workers[i] EXCEPT !.pos = workers[i].pos + 1] \in Worker
        /\ \A k \in Kinds :
              [workers[i] EXCEPT !.pc = "send", !.kind = k] \in Worker
    BY <2>1, <2>2 DEF Worker, WorkerPC
  <2>4. workers' \in Seq(Worker)
    BY <1>15, <2>3, UpdateWType DEF ScanDeliver
  <2>5. QED
    BY <1>15, <2>4 DEF ScanDeliver, TypeOK
<1>16. ASSUME NEW i \in 1..Len(workers), SendEntry(i)
       PROVE  TypeOK'
  <2>1. workers[i] \in Worker
    BY DEF TypeOK
  <2>2. workers[i].pos \in Nat /\ workers[i].kind \in Kinds
        /\ HostOf(i) \in Hosts
    BY <2>1 DEF HostOf, Worker, URL
  <2>3. [workers[i] EXCEPT !.pc = "scan", !.pos = workers[i].pos + 1]
          \in Worker
    <3>1. workers[i].pos + 1 \in Nat
      BY <2>2
    <3>2. QED
      BY <2>1, <3>1 DEF Worker, WorkerPC
  <2>4. workers' \in Seq(Worker)
    <3>1. UpdateW(i, [workers[i] EXCEPT !.pc = "scan",
                                        !.pos = workers[i].pos + 1])
      BY <1>16 DEF SendEntry
    <3>2. QED
      BY <2>3, <3>1, UpdateWType
  <2>5. [host |-> HostOf(i), idx |-> workers[i].pos] \in Entry
    BY <2>2 DEF Entry
  <2>6. chan' \in Seq(Entry) /\ Len(chan') <= ChanCap
    BY <1>16, <2>5 DEF SendEntry, TypeOK
  <2>7. processedCount' \in [Kinds -> Nat]
    <3>1. processedCount[workers[i].kind] + 1 \in Nat
      BY <2>2 DEF TypeOK
    <3>2. QED
      BY <1>16, <2>2, <3>1 DEF SendEntry, TypeOK
  <2>8. QED
    BY <1>16, <2>4, <2>6, <2>7 DEF SendEntry, TypeOK
<1>17. ASSUME NEW i \in 1..Len(workers), SendOnClosed(i)
       PROVE  TypeOK'
  BY <1>17 DEF SendOnClosed, TypeOK, Panics
<1>18. ASSUME NEW i \in 1..Len(workers), ScanCancelled(i)
       PROVE  TypeOK'
  <2>1. workers[i] \in Worker
    BY DEF TypeOK
  <2>2. [workers[i] EXCEPT !.pc = "done"] \in Worker
    BY <2>1, WorkerUpdate DEF WorkerPC
  <2>3. workers' \in Seq(Worker)
    BY <1>18, <2>2, UpdateWType DEF ScanCancelled
  <2>4. QED
    BY <1>18, <2>3 DEF ScanCancelled, TypeOK
<1>19. ASSUME NEW i \in 1..Len(workers), ScanFail(i)
       PROVE  TypeOK'
  <2>1. workers[i] \in Worker
    BY DEF TypeOK
  <2>2. /\ [workers[i] EXCEPT !.pc = "done"] \in Worker
        /\ [workers[i] EXCEPT !.pc = IF cancelled THEN "done" ELSE "sleep"]
              \in Worker
    BY <2>1, WorkerUpdate DEF WorkerPC
  <2>3. workers' \in Seq(Worker)
    BY <1>19, <2>2, UpdateWType DEF ScanFail
  <2>4. errors' \in 0..MaxErrors
    <3>1. errors \in 0..MaxErrors
      BY DEF TypeOK
    <3>2. errors < MaxErrors /\ errors' = errors + 1
      BY <1>19 DEF ScanFail
    <3>3. QED
      BY <3>1, <3>2
  <2>5. UNCHANGED <<supervisor, watcher, cancelled, pending, caOwners,
                    logSize, chan, closed, pump, bcast, phantom, processed,
                    example, processedCount, sweeps, panicked>>
    BY <1>19 DEF ScanFail
  <2>6. QED
    BY <2>3, <2>4, <2>5 DEF TypeOK
<1>20. ASSUME NEW h \in Hosts, AppendEntry(h)
       PROVE  TypeOK'
  BY <1>20 DEF AppendEntry, TypeOK
<1>21. CASE UNCHANGED vars
  BY <1>21 DEF vars, TypeOK
<1>22. QED
  BY <1>1, <1>2, <1>3, <1>4, <1>5, <1>6, <1>7, <1>8, <1>9, <1>10, <1>11,
     <1>12, <1>13, <1>14, <1>15, <1>16, <1>17, <1>18, <1>19, <1>20, <1>21
  DEF Next, WorkerStep

(* The init state and every step of the watcher, its workers and its pump  *)
(* keep every variable in its type, and the fan-in channel within its      *)
(* capacity (the send blocks on a full channel).                           *)
THEOREM TypeCorrect == Spec => []TypeOK
BY TypeInit, TypeStep, PTL DEF Spec

-----------------------------------------------------------------------------
(* The faults under which the channel can be closed while the watcher is   *)
(* still running: an empty or failed log list download, and a worker that  *)
(* returns on a GetSTH or DNS error. Without them every worker returns     *)
(* only after Stop.                                                        *)
DrainFaults == {"list", "listread", "sth", "dns"}

NoDrainAssumption ==
    /\ \A l \in LogLists : l # <<>>
    /\ Faults \cap DrainFaults = {}

(* The strengthening of NoSendOnClosedChannel that is inductive: the       *)
(* channel is only closed by a supervisor that has seen every worker       *)
(* return after Stop; from then on no worker is past runWorker's check of  *)
(* ctx; and before Stop no worker has returned and the worker set is never *)
(* empty once the first sweep is over.                                     *)
ClosedOnlyWhenReturned == closed => supervisor = "returned"

DrainedAfterStop ==
    supervisor \in {"closing", "returned"} =>
        /\ cancelled
        /\ \A i \in 1..Len(workers) : workers[i].pc \in {"idle", "run", "done"}

NoReturnBeforeStop ==
    ~cancelled => \A i \in 1..Len(workers) : workers[i].pc # "done"

FirstSweepSpawns == supervisor = "sweep" => Len(workers) > 0 \/ pending # <<>>

WorkersAfterSweep ==
    supervisor \in {"wait", "closing", "returned"} => Len(workers) > 0

WatcherAfterStart ==
    watcher # "off" => supervisor \in {"wait", "closing", "returned"}

SendSafeInv ==
    /\ TypeOK
    /\ ClosedOnlyWhenReturned
    /\ DrainedAfterStop
    /\ NoReturnBeforeStop
    /\ FirstSweepSpawns
    /\ WorkersAfterSweep
    /\ WatcherAfterStart
    /\ NoSendOnClosedChannel

(* A step that replaces worker i keeps the other workers and the length.  *)
LEMMA UpdateWFacts ==
    ASSUME TypeOK, NEW i \in 1..Len(workers), NEW r \in Worker, UpdateW(i, r)
    PROVE  /\ Len(workers') = Len(workers)
           /\ workers'[i] = r
           /\ \A j \in 1..Len(workers) \ {i} : workers'[j] = workers[j]
BY DEF TypeOK, UpdateW

(* A WaitGroup counter of zero means every spawned worker goroutine has    *)
(* returned.                                                               *)
LEMMA WaitGroupDrained ==
    ASSUME TypeOK, WaitGroupCount = 0
    PROVE  \A i \in 1..Len(workers) : workers[i].pc = "done"
<1> DEFINE Live == {i \in 1..Len(workers) : workers[i].pc # "done"}
<1>1. IsFiniteSet(1..Len(workers))
  BY FS_Interval DEF TypeOK
<1>2. IsFiniteSet(Live)
  BY <1>1, FS_Subset
<1>3. Live = {}
  BY <1>2, FS_EmptySet DEF WaitGroupCount
<1>4. QED
  BY <1>3

(* A step of worker i that rewrites only its own record keeps the          *)
(* strengthened invariant, provided it does not return before Stop and    *)
(* does not get past runWorker's ctx check once the supervisor is closing. *)
LEMMA WorkerOwnStep ==
    ASSUME SendSafeInv, TypeOK',
           NEW i \in 1..Len(workers), NEW r \in Worker, UpdateW(i, r),
           UNCHANGED <<supervisor, watcher, cancelled, pending, closed,
                       panicked>>,
           r.pc = "done" => cancelled,
           supervisor \in {"closing", "returned"} =>
               r.pc \in {"idle", "run", "done"}
    PROVE  SendSafeInv'
<1>1. /\ Len(workers') = Len(workers)
      /\ workers'[i] = r
      /\ \A j \in 1..Len(workers) \ {i} : workers'[j] = workers[j]
  BY UpdateWFacts DEF SendSafeInv
<1>2. DrainedAfterStop'
  <2> SUFFICES ASSUME supervisor' \in {"closing", "returned"}
               PROVE  /\ cancelled'
                      /\ \A j \in 1..Len(workers') :
                            workers'[j].pc \in {"idle", "run", "done"}
    BY DEF DrainedAfterStop
  <2>1. cancelled' /\ \A j \in 1..Len(workers) :
                          workers[j].pc \in {"idle", "run", "done"}
    BY DEF SendSafeInv, DrainedAfterStop
  <2>2. QED
    BY <1>1, <2>1
<1>3. NoReturnBeforeStop'
  <2> SUFFICES ASSUME ~cancelled'
               PROVE  \A j \in 1..Len(workers') : workers'[j].pc # "done"
    BY DEF NoReturnBeforeStop
  <2>1. \A j \in 1..Len(workers) : workers[j].pc # "done"
    BY DEF SendSafeInv, NoReturnBeforeStop
  <2>2. QED
    BY <1>1, <2>1
<1>4. /\ ClosedOnlyWhenReturned' /\ FirstSweepSpawns' /\ WorkersAfterSweep'
      /\ WatcherAfterStart' /\ NoSendOnClosedChannel'
  BY <1>1 DEF SendSafeInv, ClosedOnlyWhenReturned, FirstSweepSpawns,
           WorkersAfterSweep, WatcherAfterStart, NoSendOnClosedChannel
<1>5. QED
  BY <1>2, <1>3, <1>4 DEF SendSafeInv

(* The initial state satisfies the strengthened invariant.                 *)
LEMMA SendSafeInit == Init => SendSafeInv
BY TypeInit DEF Init, ClosedOnlyWhenReturned, DrainedAfterStop,
      NoReturnBeforeStop, FirstSweepSpawns, WorkersAfterSweep,
      WatcherAfterStart, NoSendOnClosedChannel, SendSafeInv

(* Without the draining faults, every step keeps the strengthened          *)
(* invariant.                                                              *)
LEMMA SendSafeStep ==
    ASSUME NoDrainAssumption
    PROVE  SendSafeInv /\ [Next]_vars => SendSafeInv'
<1> SUFFICES ASSUME SendSafeInv, [Next]_vars PROVE SendSafeInv'
  OBVIOUS
<1>0. TypeOK'
  BY TypeStep DEF SendSafeInv
<1>1. CASE Start
  BY <1>0, <1>1, NoDrainAssumption DEF Start, SweepFetch, FetchLogList,
     RefreshCatalog, NoDrainAssumption, DrainFaults, TypeOK, SendSafeInv,
     ClosedOnlyWhenReturned, DrainedAfterStop, NoReturnBeforeStop,
     FirstSweepSpawns, WorkersAfterSweep, WatcherAfterStart,
     NoSendOnClosedChannel
<1>2. CASE SweepItem
  <2> DEFINE u == Head(pending)
  <2>1. CASE \E j \in 1..Len(workers) :
                NormalizeCtlogURL(workers[j].url) = NormalizeCtlogURL(u)
    BY <1>0, <1>2, <2>1 DEF SweepItem, TypeOK, SendSafeInv,
       ClosedOnlyWhenReturned, DrainedAfterStop, NoReturnBeforeStop,
       FirstSweepSpawns, WorkersAfterSweep, WatcherAfterStart,
       NoSendOnClosedChannel
  <2>2. CASE ~\E j \in 1..Len(workers) :
                NormalizeCtlogURL(workers[j].url) = NormalizeCtlogURL(u)
    <3>1. workers' = Append(workers, NewWorker(u))
      BY <1>2, <2>2 DEF SweepItem
    <3>2. /\ Len(workers') = Len(workers) + 1
          /\ \A j \in 1..Len(workers) : workers'[j] = workers[j]
          /\ workers'[Len(workers) + 1].pc = "idle"
      BY <3>1 DEF SendSafeInv, TypeOK, NewWorker
    <3>3. UNCHANGED <<supervisor, watcher, cancelled, closed, panicked>>
      BY <1>2 DEF SweepItem
    <3>4. DrainedAfterStop' /\ NoReturnBeforeStop'
      BY <3>2, <3>3 DEF SendSafeInv, DrainedAfterStop, NoReturnBeforeStop
    <3>5. QED
      BY <1>0, <1>2, <3>2, <3>3, <3>4 DEF SweepItem, SendSafeInv,
         ClosedOnlyWhenReturned, FirstSweepSpawns, WorkersAfterSweep,
         WatcherAfterStart, NoSendOnClosedChannel
  <2>3. QED
    BY <2>1, <2>2
<1>3. CASE StartResume
  BY <1>0, <1>3, NoDrainAssumption DEF StartResume, NoDrainAssumption,
     DrainFaults, TypeOK, SendSafeInv, ClosedOnlyWhenReturned,
     DrainedAfterStop, NoReturnBeforeStop, FirstSweepSpawns,
     WorkersAfterSweep, WatcherAfterStart, NoSendOnClosedChannel
<1>4. CASE WaitReturn
  <2>1. \A j \in 1..Len(workers) : workers[j].pc = "done"
    BY <1>4, WaitGroupDrained DEF WaitReturn, SendSafeInv
  <2>2. Len(workers) > 0
    BY <1>4 DEF WaitReturn, SendSafeInv, WorkersAfterSweep
  <2>3. cancelled
    BY <2>1, <2>2 DEF SendSafeInv, NoReturnBeforeStop
  <2>4. QED
    BY <1>0, <1>4, <2>1, <2>3 DEF WaitReturn, TypeOK, SendSafeInv,
       ClosedOnlyWhenReturned, DrainedAfterStop, NoReturnBeforeStop,
       FirstSweepSpawns, WorkersAfterSweep, WatcherAfterStart,
       NoSendOnClosedChannel
<1>5. CASE CloseChan
  BY <1>0, <1>5, NoDrainAssumption DEF CloseChan, NoDrainAssumption,
     DrainFaults, TypeOK, SendSafeInv, ClosedOnlyWhenReturned,
     DrainedAfterStop, NoReturnBeforeStop, FirstSweepSpawns,
     WorkersAfterSweep, WatcherAfterStart, NoSendOnClosedChannel
<1>6. CASE Tick
  BY <1>0, <1>6, NoDrainAssumption DEF Tick, SweepFetch, FetchLogList,
     RefreshCatalog, NoDrainAssumption, DrainFaults, TypeOK, SendSafeInv,
     ClosedOnlyWhenReturned, DrainedAfterStop, NoReturnBeforeStop,
     FirstSweepSpawns, WorkersAfterSweep, WatcherAfterStart,
     NoSendOnClosedChannel
<1>7. CASE WatcherResume
  BY <1>0, <1>7, NoDrainAssumption DEF WatcherResume, NoDrainAssumption,
     DrainFaults, TypeOK, SendSafeInv, ClosedOnlyWhenReturned,
     DrainedAfterStop, NoReturnBeforeStop, FirstSweepSpawns,
     WorkersAfterSweep, WatcherAfterStart, NoSendOnClosedChannel
<1>8. CASE WatcherExit
  BY <1>0, <1>8, NoDrainAssumption DEF WatcherExit, NoDrainAssumption,
     DrainFaults, TypeOK, SendSafeInv, ClosedOnlyWhenReturned,
     DrainedAfterStop, NoReturnBeforeStop, FirstSweepSpawns,
     WorkersAfterSweep, WatcherAfterStart, NoSendOnClosedChannel
<1>9. CASE Stop
  BY <1>0, <1>9, NoDrainAssumption DEF Stop, NoDrainAssumption, DrainFaults,
     TypeOK, SendSafeInv, ClosedOnlyWhenReturned, DrainedAfterStop,
     NoReturnBeforeStop, FirstSweepSpawns, WorkersAfterSweep,
     WatcherAfterStart, NoSendOnClosedChannel
<1>10. CASE StopBeforeStart
  BY <1>0, <1>10, NoDrainAssumption DEF StopBeforeStart, NoDrainAssumption,
     DrainFaults, TypeOK, SendSafeInv, ClosedOnlyWhenReturned,
     DrainedAfterStop, NoReturnBeforeStop, FirstSweepSpawns,
     WorkersAfterSweep, WatcherAfterStart, NoSendOnClosedChannel
<1>11. CASE PumpReceive
  BY <1>0, <1>11, NoDrainAssumption DEF PumpReceive, Broadcast,
     NoDrainAssumption, DrainFaults, TypeOK, SendSafeInv,
     ClosedOnlyWhenReturned, DrainedAfterStop, NoReturnBeforeStop,
     FirstSweepSpawns, WorkersAfterSweep, WatcherAfterStart,
     NoSendOnClosedChannel
<1>12. CASE PumpReceiveClosed
  BY <1>0, <1>12, NoDrainAssumption DEF PumpReceiveClosed, Broadcast,
     NoDrainAssumption, DrainFaults, TypeOK, SendSafeInv,
     ClosedOnlyWhenReturned, DrainedAfterStop, NoReturnBeforeStop,
     FirstSweepSpawns, WorkersAfterSweep, WatcherAfterStart,
     NoSendOnClosedChannel
<1>13. ASSUME NEW i \in 1..Len(workers), StartDownloadingCerts(i)
       PROVE  SendSafeInv'
  <2> DEFINE r == [workers[i] EXCEPT !.url = WorkerNormalize(workers[i].url),
                                     !.running = TRUE, !.pc = "run"]
  <2>1. workers[i] \in Worker
    BY DEF SendSafeInv, TypeOK
  <2>2. r \in Worker
    BY <2>1, WorkerUpdate, WorkerNormalizeType
  <2>3. r.pc = "run"
    BY <2>1 DEF Worker
  <2>4. UpdateW(i, r)
    BY <1>13 DEF StartDownloadingCerts
  <2>5. UNCHANGED <<supervisor, watcher, cancelled, pending, closed,
                    panicked>>
    BY <1>13 DEF StartDownloadingCerts
  <2>6. /\ r.pc = "done" => cancelled
        /\ supervisor \in {"closing", "returned"} =>
              r.pc \in {"idle", "run", "done"}
    BY <2>3
  <2> HIDE DEF r
  <2>7. QED
    BY <1>0, <2>2, <2>4, <2>5, <2>6, WorkerOwnStep
<1>14. ASSUME NEW i \in 1..Len(workers), RunWorker(i)
       PROVE  SendSafeInv'
  <2>1. workers[i] \in Worker
    BY DEF SendSafeInv, TypeOK
  <2>2. UNCHANGED <<supervisor, watcher, cancelled, pending, closed>>
    BY <1>14 DEF RunWorker
  <2>3. CASE (cancelled \/ "sth" \in Faults)
              /\ UpdateW(i, [workers[i] EXCEPT !.pc = "done"])
              /\ UNCHANGED panicked
    <3>1. cancelled
      BY <2>3, NoDrainAssumption DEF NoDrainAssumption, DrainFaults
    <3>2. [workers[i] EXCEPT !.pc = "done"] \in Worker
      BY <2>1 DEF Worker, WorkerPC
    <3>3. UNCHANGED <<supervisor, watcher, cancelled, pending, closed,
                      panicked>>
      BY <2>2, <2>3
    <3>4. UpdateW(i, [workers[i] EXCEPT !.pc = "done"])
      BY <2>3
    <3>5. [workers[i] EXCEPT !.pc = "done"].pc = "done"
      BY <2>1 DEF Worker
    <3>6. QED
      BY <1>0, <3>1, <3>2, <3>3, <3>4, <3>5, WorkerOwnStep
  <2>4. CASE ~cancelled /\ StartIndexMatch(i)
              /\ panicked' = "index_out_of_range" /\ UNCHANGED workers
    BY <1>0, <2>2, <2>4 DEF TypeOK, SendSafeInv, ClosedOnlyWhenReturned,
       DrainedAfterStop, NoReturnBeforeStop, FirstSweepSpawns,
       WorkersAfterSweep, WatcherAfterStart, NoSendOnClosedChannel
  <2>5. CASE ~cancelled /\ ~StartIndexMatch(i)
              /\ UpdateW(i, [workers[i] EXCEPT !.pc = "scan",
                                               !.pos = logSize[HostOf(i)]])
              /\ UNCHANGED panicked
    <3>1. supervisor \notin {"closing", "returned"}
      BY <2>5 DEF SendSafeInv, DrainedAfterStop
    <3>2. logSize[HostOf(i)] \in Nat
      <4>1. HostOf(i) \in Hosts
        BY <2>1 DEF HostOf, Worker, URL
      <4>2. QED
        BY <4>1 DEF SendSafeInv, TypeOK
    <3>3. [workers[i] EXCEPT !.pc = "scan", !.pos = logSize[HostOf(i)]]
            \in Worker
      BY <2>1, <3>2 DEF Worker, WorkerPC
    <3>4. [workers[i] EXCEPT !.pc = "scan", !.pos = logSize[HostOf(i)]].pc
            = "scan"
      BY <2>1 DEF Worker
    <3>5. UNCHANGED <<supervisor, watcher, cancelled, pending, closed,
                      panicked>>
      BY <2>2, <2>5
    <3>6. UpdateW(i, [workers[i] EXCEPT !.pc = "scan",
                                        !.pos = logSize[HostOf(i)]])
      BY <2>5
    <3>7. QED
      BY <1>0, <3>1, <3>3, <3>4, <3>5, <3>6, WorkerOwnStep
  <2>6. QED
    BY <1>14, <2>3, <2>4, <2>5 DEF RunWorker
<1>15. ASSUME NEW i \in 1..Len(workers), ScanDeliver(i)
       PROVE  SendSafeInv'
  <2>1. workers[i] \in Worker /\ workers[i].pos + 1 \in Nat
    <3>1. workers[i] \in Worker
      BY DEF SendSafeInv, TypeOK
    <3>2. QED
      BY <3>1 DEF Worker
  <2>2. UNCHANGED <<supervisor, watcher, cancelled, pending, closed, panicked>>
    BY <1>15 DEF ScanDeliver
  <2>3. supervisor \notin {"closing", "returned"}
    BY <1>15 DEF ScanDeliver, SendSafeInv, DrainedAfterStop
  <2>4. CASE UpdateW(i, [workers[i] EXCEPT !.pos = workers[i].pos + 1])
    <3>1. [workers[i] EXCEPT !.pos = workers[i].pos + 1] \in Worker
      BY <2>1 DEF Worker
    <3>2. [workers[i] EXCEPT !.pos = workers[i].pos + 1].pc = "scan"
      BY <1>15, <2>1 DEF ScanDeliver, Worker
    <3>3. QED
      BY <1>0, <2>2, <2>3, <2>4, <3>1, <3>2, WorkerOwnStep
  <2>5. ASSUME NEW k \in Kinds,
               UpdateW(i, [workers[i] EXCEPT !.pc = "send", !.kind = k])
        PROVE  SendSafeInv'
    <3>1. [workers[i] EXCEPT !.pc = "send", !.kind = k] \in Worker
      BY <2>1 DEF Worker, WorkerPC
    <3>2. [workers[i] EXCEPT !.pc = "send", !.kind = k].pc = "send"
      BY <2>1 DEF Worker
    <3>3. QED
      BY <1>0, <2>2, <2>3, <2>5, <3>1, <3>2, WorkerOwnStep
  <2>6. QED
    BY <1>15, <2>4, <2>5 DEF ScanDeliver
<1>16. ASSUME NEW i \in 1..Len(workers), SendEntry(i)
       PROVE  SendSafeInv'
  <2>1. workers[i] \in Worker /\ workers[i].pos + 1 \in Nat
    <3>1. workers[i] \in Worker
      BY DEF SendSafeInv, TypeOK
    <3>2. QED
      BY <3>1 DEF Worker
  <2>2. UNCHANGED <<supervisor, watcher, cancelled, pending, closed, panicked>>
    BY <1>16 DEF SendEntry
  <2>3. supervisor \notin {"closing", "returned"}
    BY <1>16 DEF SendEntry, SendSafeInv, DrainedAfterStop
  <2>4. UpdateW(i, [workers[i] EXCEPT !.pc = "scan",
                                      !.pos = workers[i].pos + 1])
    BY <1>16 DEF SendEntry
  <2>5. [workers[i] EXCEPT !.pc = "scan", !.pos = workers[i].pos + 1]
          \in Worker
    BY <2>1 DEF Worker, WorkerPC
  <2>6. [workers[i] EXCEPT !.pc = "scan", !.pos = workers[i].pos + 1].pc
          = "scan"
    BY <2>1 DEF Worker
  <2>7. QED
    BY <1>0, <2>2, <2>3, <2>4, <2>5, <2>6, WorkerOwnStep
<1>17. ASSUME NEW i \in 1..Len(workers), SendOnClosed(i)
       PROVE  SendSafeInv'
  BY <1>0, <1>17, NoDrainAssumption DEF SendOnClosed, NoDrainAssumption,
     DrainFaults, TypeOK, SendSafeInv, ClosedOnlyWhenReturned,
     DrainedAfterStop, NoReturnBeforeStop, FirstSweepSpawns,
     WorkersAfterSweep, WatcherAfterStart, NoSendOnClosedChannel
<1>18. ASSUME NEW i \in 1..Len(workers), ScanCancelled(i)
       PROVE  SendSafeInv'
  <2>1. workers[i] \in Worker
    BY DEF SendSafeInv, TypeOK
  <2>2. UNCHANGED <<supervisor, watcher, cancelled, pending, closed, panicked>>
    BY <1>18 DEF ScanCancelled
  <2>3. cancelled
    BY <1>18 DEF ScanCancelled
  <2>4. UpdateW(i, [workers[i] EXCEPT !.pc = "done"])
    BY <1>18 DEF ScanCancelled
  <2>5. [workers[i] EXCEPT !.pc = "done"] \in Worker
    BY <2>1 DEF Worker, WorkerPC
  <2>6. [workers[i] EXCEPT !.pc = "done"].pc = "done"
    BY <2>1 DEF Worker
  <2>7. QED
    BY <1>0, <2>2, <2>3, <2>4, <2>5, <2>6, WorkerOwnStep
<1>19. ASSUME NEW i \in 1..Len(workers), ScanFail(i)
       PROVE  SendSafeInv'
  <2>1. workers[i] \in Worker
    BY DEF SendSafeInv, TypeOK
  <2>2. UNCHANGED <<supervisor, watcher, cancelled, pending, closed, panicked>>
    BY <1>19 DEF ScanFail
  <2>3. supervisor \notin {"closing", "returned"}
    BY <1>19 DEF ScanFail, SendSafeInv, DrainedAfterStop
  <2>4. "transient" \in Faults
        /\ UpdateW(i, [workers[i] EXCEPT
                          !.pc = IF cancelled THEN "done" ELSE "sleep"])
    BY <1>19, NoDrainAssumption DEF ScanFail, NoDrainAssumption, DrainFaults
  <2>5. [workers[i] EXCEPT !.pc = IF cancelled THEN "done" ELSE "sleep"]
          \in Worker
    BY <2>1 DEF Worker, WorkerPC
  <2>6. [workers[i] EXCEPT !.pc = IF cancelled THEN "done" ELSE "sleep"].pc
          = "done" => cancelled
    BY <2>1 DEF Worker
  <2>7. QED
    BY <1>0, <2>2, <2>3, <2>4, <2>5, <2>6, WorkerOwnStep
<1>20. ASSUME NEW h \in Hosts, AppendEntry(h)
       PROVE  SendSafeInv'
  BY <1>0, <1>20, NoDrainAssumption DEF AppendEntry, NoDrainAssumption,
     DrainFaults, TypeOK, SendSafeInv, ClosedOnlyWhenReturned,
     DrainedAfterStop, NoReturnBeforeStop, FirstSweepSpawns,
     WorkersAfterSweep, WatcherAfterStart, NoSendOnClosedChannel
<1>21. CASE UNCHANGED vars
  BY <1>0, <1>21, NoDrainAssumption DEF vars, NoDrainAssumption, DrainFaults,
     TypeOK, SendSafeInv, ClosedOnlyWhenReturned, DrainedAfterStop,
     NoReturnBeforeStop, FirstSweepSpawns, WorkersAfterSweep,
     WatcherAfterStart, NoSendOnClosedChannel
<1>22. QED
  BY <1>1, <1>2, <1>3, <1>4, <1>5, <1>6, <1>7, <1>8, <1>9, <1>10, <1>11,
     <1>12, <1>13, <1>14, <1>15, <1>16, <1>17, <1>18, <1>19, <1>20, <1>21
  DEF Next, WorkerStep

(* Without an empty or failed log list download and without a worker that *)
(* returns on its own on a GetSTH or DNS error, no worker ever sends on    *)
(* the fan-in channel after Start has closed it: Start's wg.Wait only      *)
(* returns after Stop, and a worker spawned by a later sweep sees the      *)
(* cancelled context before it reaches the send.                           *)
THEOREM NoSendOnClosed ==
    ASSUME NoDrainAssumption
    PROVE  Spec => []NoSendOnClosedChannel
<1>1. Init => SendSafeInv
  BY SendSafeInit
<1>2. SendSafeInv /\ [Next]_vars => SendSafeInv'
  BY SendSafeStep
<1>3. SendSafeInv => NoSendOnClosedChannel
  BY DEF SendSafeInv
<1>4. QED
  BY <1>1, <1>2, <1>3, PTL DEF Spec

=============================================================================
