-------------------------- MODULE CTWatcherScanProofs --------------------------
(***************************************************************************)
(* Proof that no worker moves its scan position back (NoRewind), for every *)
(* value of the constants.  The step that could rewind is runWorker's      *)
(* restart after the sleep; it starts at the tree size, and ScanInv says   *)
(* that no worker is beyond the tree size of its log.                      *)
(***************************************************************************)
EXTENDS CTWatcherProofs

(* Every worker is at most at the tree size of its log, and strictly      *)
(* before it while it sends.                                               *)
PosBound ==
    \A i \in 1..Len(workers) :
        /\ workers[i].pos <= logSize[HostOf(i)]
        /\ workers[i].pc = "send" => workers[i].pos < logSize[HostOf(i)]

ScanInv == TypeOK /\ PosBound

(* Every worker's position is a natural number.                           *)
LEMMA PosNat ==
    ASSUME TypeOK
    PROVE  \A j \in 1..Len(workers) : workers[j].pos \in Nat
<1> SUFFICES ASSUME NEW j \in 1..Len(workers) PROVE workers[j].pos \in Nat
  OBVIOUS
<1>1. workers[j] \in Worker
  BY DEF TypeOK
<1>2. QED
  BY <1>1 DEF Worker

(* The step of NoRewind.                                                   *)
NoRewindStep == \A i \in 1..Len(workers) : workers'[i].pos >= workers[i].pos

-----------------------------------------------------------------------------
(* A step in which worker i replaces its own record, keeping its log,     *)
(* never going back and staying within the tree size, keeps PosBound and   *)
(* moves no worker back.                                                   *)
LEMMA WorkerPosStep ==
    ASSUME ScanInv, TypeOK',
           NEW i \in 1..Len(workers), NEW r \in Worker, UpdateW(i, r),
           UNCHANGED logSize,
           r.url.host = workers[i].url.host,
           r.pos >= workers[i].pos,
           r.pos <= logSize[r.url.host],
           r.pc = "send" => r.pos < logSize[r.url.host]
    PROVE  PosBound' /\ NoRewindStep
<1>1. /\ Len(workers') = Len(workers)
      /\ workers'[i] = r
      /\ \A j \in 1..Len(workers) \ {i} : workers'[j] = workers[j]
  BY UpdateWFacts DEF ScanInv
<1>2. PosBound'
  BY <1>1 DEF ScanInv, PosBound, HostOf
<1>3. NoRewindStep
  <2>1. \A j \in 1..Len(workers) : workers[j].pos \in Nat
    BY PosNat DEF ScanInv
  <2>2. QED
    BY <1>1, <2>1 DEF NoRewindStep
<1>4. QED
  BY <1>2, <1>3

(* A step that changes neither the workers nor the tree sizes.             *)
LEMMA PosFrameStep ==
    ASSUME ScanInv, UNCHANGED <<workers, logSize>>
    PROVE  PosBound' /\ NoRewindStep
<1>1. \A i \in 1..Len(workers) : workers[i].pos \in Nat
  BY PosNat DEF ScanInv
<1>2. QED
  BY <1>1 DEF ScanInv, PosBound, HostOf, NoRewindStep

(* A worker step that only sets the pc to a state other than send.        *)
LEMMA WorkerParkPos ==
    ASSUME ScanInv, TypeOK', NEW i \in 1..Len(workers),
           NEW pc \in {"run", "sleep", "done"},
           UpdateW(i, [workers[i] EXCEPT !.pc = pc]), UNCHANGED logSize
    PROVE  PosBound' /\ NoRewindStep
<1> DEFINE r == [workers[i] EXCEPT !.pc = pc]
<1>1. workers[i] \in Worker
  BY DEF ScanInv, TypeOK
<1>2. r \in Worker /\ r.url = workers[i].url /\ r.pos = workers[i].pos
      /\ r.pc = pc
  BY <1>1 DEF Worker, WorkerPC
<1>3. workers[i].pos <= logSize[workers[i].url.host] /\ workers[i].pos \in Nat
  BY <1>1 DEF ScanInv, PosBound, HostOf, Worker
<1>4. UpdateW(i, r)
  OBVIOUS
<1> HIDE DEF r
<1>5. /\ r.url.host = workers[i].url.host
      /\ r.pos >= workers[i].pos
      /\ r.pos <= logSize[r.url.host]
      /\ r.pc = "send" => r.pos < logSize[r.url.host]
  BY <1>2, <1>3
<1>6. QED
  BY <1>2, <1>4, <1>5, WorkerPosStep

(* A log growing keeps every worker within its tree size.                  *)
LEMMA AppendEntryPos ==
    ASSUME ScanInv, NEW h \in Hosts, AppendEntry(h)
    PROVE  PosBound' /\ NoRewindStep
<1>1. UNCHANGED workers
  BY DEF AppendEntry
<1>2. \A x \in Hosts : logSize'[x] >= logSize[x]
  BY DEF AppendEntry, ScanInv, TypeOK
<1>3. \A j \in 1..Len(workers) : HostOf(j) \in Hosts /\ workers[j].pos \in Nat
  <2> SUFFICES ASSUME NEW j \in 1..Len(workers)
               PROVE  HostOf(j) \in Hosts /\ workers[j].pos \in Nat
    OBVIOUS
  <2>1. workers[j] \in Worker
    BY DEF ScanInv, TypeOK
  <2>2. QED
    BY <2>1 DEF Worker, URL, HostOf
<1>4. logSize \in [Hosts -> Nat] /\ logSize' \in [Hosts -> Nat]
  BY DEF AppendEntry, ScanInv, TypeOK
<1>5. QED
  BY <1>1, <1>2, <1>3, <1>4 DEF ScanInv, PosBound, HostOf, NoRewindStep

(* A sweep that appends a new worker: it starts idle at position 0.        *)
LEMMA SweepItemPos ==
    ASSUME ScanInv, SweepItem
    PROVE  PosBound' /\ NoRewindStep
<1>1. UNCHANGED logSize
  BY DEF SweepItem
<1>2. CASE UNCHANGED workers
  BY <1>1, <1>2, PosFrameStep
<1>3. CASE workers' = Append(workers, NewWorker(Head(pending)))
  <2> DEFINE u == Head(pending)
  <2>1. u \in URL
    BY DEF SweepItem, ScanInv, TypeOK
  <2>2. NewWorker(u).pos = 0 /\ NewWorker(u).pc = "idle"
        /\ NewWorker(u).url.host \in Hosts
    BY <2>1 DEF NewWorker, URL
  <2>3. logSize[NewWorker(u).url.host] \in Nat
    BY <2>2 DEF ScanInv, TypeOK
  <2>4. /\ Len(workers') = Len(workers) + 1
        /\ workers'[Len(workers) + 1] = NewWorker(u)
        /\ \A j \in 1..Len(workers) : workers'[j] = workers[j]
    BY <1>3 DEF ScanInv, TypeOK
  <2>5. \A j \in 1..Len(workers) : workers[j].pos \in Nat
    BY PosNat DEF ScanInv
  <2>6. PosBound'
    <3> SUFFICES ASSUME NEW j \in 1..Len(workers')
                 PROVE  /\ workers'[j].pos <= logSize'[HostOf(j)']
                        /\ workers'[j].pc = "send"
                           => workers'[j].pos < logSize'[HostOf(j)']
      BY DEF PosBound
    <3>1. CASE j \in 1..Len(workers)
      BY <1>1, <2>4, <3>1 DEF ScanInv, PosBound, HostOf
    <3>2. CASE j = Len(workers) + 1
      BY <1>1, <2>2, <2>3, <2>4, <3>2 DEF HostOf
    <3>3. QED
      BY <2>4, <3>1, <3>2 DEF ScanInv, TypeOK
  <2>7. NoRewindStep
    BY <2>4, <2>5 DEF NoRewindStep
  <2>8. QED
    BY <2>6, <2>7
<1>4. QED
  BY <1>2, <1>3 DEF SweepItem

(* The steps of worker i keep PosBound and move no worker back.            *)
LEMMA WorkerStepPos ==
    ASSUME ScanInv, TypeOK', NEW i \in 1..Len(workers),
           WorkerStep(i) \/ ScanFail(i)
    PROVE  PosBound' /\ NoRewindStep
<1> DEFINE g == HostOf(i)
           p == workers[i].pos
<1>0. /\ workers[i] \in Worker /\ g \in Hosts /\ p \in Nat
      /\ logSize[g] \in Nat
      /\ p <= logSize[g]
      /\ workers[i].pc = "send" => p < logSize[g]
  <2>1. workers[i] \in Worker
    BY DEF ScanInv, TypeOK
  <2>2. g \in Hosts /\ p \in Nat
    BY <2>1 DEF Worker, URL, HostOf
  <2>3. QED
    BY <2>1, <2>2 DEF ScanInv, TypeOK, PosBound
<1>1. CASE StartDownloadingCerts(i)
  <2> DEFINE r == [workers[i] EXCEPT !.url = WorkerNormalize(workers[i].url),
                                     !.running = TRUE, !.pc = "run"]
  <2>1. workers[i].url \in URL
    BY <1>0 DEF Worker
  <2>2. WorkerNormalize(workers[i].url) \in URL
        /\ WorkerNormalize(workers[i].url).host = g
    BY <2>1, WorkerNormalizeType DEF WorkerNormalize, HostOf, URL, Schemes
  <2>3. r \in Worker /\ r.url.host = g /\ r.pos = p /\ r.pc = "run"
    BY <1>0, <2>2 DEF Worker, WorkerPC
  <2>4. UpdateW(i, r) /\ UNCHANGED logSize
    BY <1>1 DEF StartDownloadingCerts
  <2> HIDE DEF r
  <2>5. /\ r.url.host = workers[i].url.host
        /\ r.pos >= workers[i].pos
        /\ r.pos <= logSize[r.url.host]
        /\ r.pc = "send" => r.pos < logSize[r.url.host]
    BY <1>0, <2>3 DEF HostOf
  <2>6. QED
    BY <2>3, <2>4, <2>5, WorkerPosStep
<1>2. CASE RunWorker(i)
  <2> DEFINE r == [workers[i] EXCEPT !.pc = "scan", !.pos = logSize[g]]
  <2>1. UNCHANGED logSize
    BY <1>2 DEF RunWorker
  <2>2. CASE UpdateW(i, [workers[i] EXCEPT !.pc = "done"])
    BY <2>1, <2>2, WorkerParkPos
  <2>3. CASE UNCHANGED workers
    BY <2>1, <2>3, PosFrameStep
  <2>4. CASE UpdateW(i, r)
    <3>1. r \in Worker /\ r.url = workers[i].url /\ r.pc = "scan"
          /\ r.pos = logSize[g]
      BY <1>0 DEF Worker, WorkerPC
    <3> HIDE DEF r
    <3>2. /\ r.url.host = workers[i].url.host
          /\ r.pos >= workers[i].pos
          /\ r.pos <= logSize[r.url.host]
          /\ r.pc = "send" => r.pos < logSize[r.url.host]
      BY <1>0, <3>1 DEF HostOf
    <3>3. QED
      BY <2>1, <2>4, <3>1, <3>2, WorkerPosStep
  <2>5. QED
    BY <1>2, <2>2, <2>3, <2>4 DEF RunWorker
<1>3. CASE ScanDeliver(i)
  <2>1. UNCHANGED logSize /\ workers[i].pc = "scan" /\ p < logSize[g]
    BY <1>3 DEF ScanDeliver
  <2>2. CASE UpdateW(i, [workers[i] EXCEPT !.pos = p + 1])
    <3> DEFINE r == [workers[i] EXCEPT !.pos = p + 1]
    <3>1. r \in Worker /\ r.url = workers[i].url /\ r.pc = "scan"
          /\ r.pos = p + 1
      BY <1>0, <2>1 DEF Worker
    <3>2. UpdateW(i, r)
      BY <2>2
    <3> HIDE DEF r
    <3>3. /\ r.url.host = workers[i].url.host
          /\ r.pos >= workers[i].pos
          /\ r.pos <= logSize[r.url.host]
          /\ r.pc = "send" => r.pos < logSize[r.url.host]
      BY <1>0, <2>1, <3>1 DEF HostOf
    <3>4. QED
      BY <2>1, <3>1, <3>2, <3>3, WorkerPosStep
  <2>3. ASSUME NEW kd \in Kinds,
               UpdateW(i, [workers[i] EXCEPT !.pc = "send", !.kind = kd])
        PROVE  PosBound' /\ NoRewindStep
    <3> DEFINE r == [workers[i] EXCEPT !.pc = "send", !.kind = kd]
    <3>1. r \in Worker /\ r.url = workers[i].url /\ r.pc = "send"
          /\ r.pos = p
      BY <1>0 DEF Worker, WorkerPC
    <3>2. UpdateW(i, r)
      BY <2>3
    <3> HIDE DEF r
    <3>3. /\ r.url.host = workers[i].url.host
          /\ r.pos >= workers[i].pos
          /\ r.pos <= logSize[r.url.host]
          /\ r.pc = "send" => r.pos < logSize[r.url.host]
      BY <1>0, <2>1, <3>1 DEF HostOf
    <3>4. QED
      BY <2>1, <3>1, <3>2, <3>3, WorkerPosStep
  <2>4. QED
    BY <1>3, <2>2, <2>3 DEF ScanDeliver
<1>4. CASE SendEntry(i)
  <2> DEFINE r == [workers[i] EXCEPT !.pc = "scan", !.pos = p + 1]
  <2>1. UNCHANGED logSize /\ workers[i].pc = "send" /\ UpdateW(i, r)
    BY <1>4 DEF SendEntry
  <2>2. r \in Worker /\ r.url = workers[i].url /\ r.pc = "scan"
        /\ r.pos = p + 1
    <3>1. \A pc \in WorkerPC, n \in Nat :
             [workers[i] EXCEPT !.pc = pc, !.pos = n] \in Worker
      BY <1>0, WorkerUpdate
    <3>2. "scan" \in WorkerPC /\ p + 1 \in Nat
      BY <1>0 DEF WorkerPC
    <3>3. r \in Worker
      BY <3>1, <3>2, Zenon
    <3>4. QED
      BY <1>0, <3>3 DEF Worker
  <2> HIDE DEF r
  <2>3. /\ r.url.host = workers[i].url.host
        /\ r.pos >= workers[i].pos
        /\ r.pos <= logSize[r.url.host]
        /\ r.pc = "send" => r.pos < logSize[r.url.host]
    BY <1>0, <2>1, <2>2 DEF HostOf
  <2>4. QED
    BY <2>1, <2>2, <2>3, WorkerPosStep
<1>5. CASE SendOnClosed(i)
  BY <1>5, PosFrameStep DEF SendOnClosed
<1>6. CASE ScanCancelled(i)
  <2>1. UpdateW(i, [workers[i] EXCEPT !.pc = "done"]) /\ UNCHANGED logSize
    BY <1>6 DEF ScanCancelled
  <2>2. QED
    BY <2>1, WorkerParkPos
<1>7. CASE ScanFail(i)
  <2>1. UNCHANGED logSize
    BY <1>7 DEF ScanFail
  <2>2. CASE UpdateW(i, [workers[i] EXCEPT !.pc = "done"])
    BY <2>1, <2>2, WorkerParkPos
  <2>3. CASE UpdateW(i, [workers[i] EXCEPT
                           !.pc = IF cancelled THEN "done" ELSE "sleep"])
    <3>1. CASE cancelled
      <4>1. UpdateW(i, [workers[i] EXCEPT !.pc = "done"])
        BY <2>3, <3>1
      <4>2. QED
        BY <2>1, <4>1, WorkerParkPos
    <3>2. CASE ~cancelled
      <4>1. UpdateW(i, [workers[i] EXCEPT !.pc = "sleep"])
        BY <2>3, <3>2
      <4>2. QED
        BY <2>1, <4>1, WorkerParkPos
    <3>3. QED
      BY <3>1, <3>2
  <2>4. QED
    BY <1>7, <2>2, <2>3 DEF ScanFail
<1>8. QED
  BY <1>1, <1>2, <1>3, <1>4, <1>5, <1>6, <1>7 DEF WorkerStep

(* Every step keeps ScanInv and moves no worker back.                      *)
LEMMA ScanStep == ScanInv /\ [Next]_vars => ScanInv' /\ NoRewindStep
<1> SUFFICES ASSUME ScanInv, [Next]_vars PROVE ScanInv' /\ NoRewindStep
  OBVIOUS
<1>0. TypeOK'
  BY TypeStep DEF ScanInv
<1>1. PosBound' /\ NoRewindStep
  <2>1. CASE \/ Start \/ Tick \/ StartResume \/ WaitReturn \/ CloseChan
             \/ WatcherResume \/ WatcherExit \/ Stop \/ StopBeforeStart
             \/ PumpReceive \/ PumpReceiveClosed \/ UNCHANGED vars
    <3>1. UNCHANGED <<workers, logSize>>
      BY <2>1 DEF Start, Tick, StartResume, WaitReturn, CloseChan,
         WatcherResume, WatcherExit, Stop, StopBeforeStart, PumpReceive,
         PumpReceiveClosed, vars
    <3>2. QED
      BY <3>1, PosFrameStep
  <2>2. CASE SweepItem
    BY <2>2, SweepItemPos
  <2>3. ASSUME NEW h \in Hosts, AppendEntry(h) PROVE PosBound' /\ NoRewindStep
    BY <2>3, AppendEntryPos
  <2>4. ASSUME NEW i \in 1..Len(workers), WorkerStep(i) \/ ScanFail(i)
        PROVE  PosBound' /\ NoRewindStep
    BY <1>0, <2>4, WorkerStepPos
  <2>5. QED
    BY <2>1, <2>2, <2>3, <2>4 DEF Next
<1>2. QED
  BY <1>0, <1>1 DEF ScanInv

LEMMA ScanInit == Init => ScanInv
BY TypeInit DEF Init, ScanInv, PosBound

(* NoRewind for every value of the constants: no worker ever moves its     *)
(* scan position back, across transient errors, the sleep and the restart  *)
(* of runWorker at the tree size, because no worker is ever beyond the     *)
(* tree size of its log and tree sizes only grow.                          *)
THEOREM NoRewindHolds == Spec => NoRewind
<1>1. ScanInv /\ [Next]_vars => [NoRewindStep]_vars
  BY ScanStep
<1>2. Spec => []ScanInv
  BY ScanInit, ScanStep, PTL DEF Spec
<1>3. QED
  BY <1>1, <1>2, PTL DEF Spec, NoRewind, NoRewindStep

=============================================================================
