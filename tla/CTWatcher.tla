------------------------------ MODULE CTWatcher ------------------------------
(***************************************************************************)
(* The CT log watcher of certstream-server-go                              *)
(* (src/internal/certificatetransparency/ct-watcher.go).                   *)
(*                                                                         *)
(* Processes modelled, each as the goroutine the code starts:              *)
(*   - the supervisor: Watcher.Start, which runs the first discovery       *)
(*     sweep, starts the pump and the rediscovery goroutine, waits on the  *)
(*     WaitGroup of the workers and then closes the fan-in channel;        *)
(*   - the rediscovery goroutine: watchNewLogs, a ticker loop that runs a  *)
(*     sweep on every tick until the context is cancelled;                 *)
(*   - one worker per discovered log: startDownloadingCerts/runWorker and  *)
(*     the scanner callbacks, which send entries on the fan-in channel;    *)
(*   - the pump: certHandler, the single consumer of the channel;          *)
(*   - the caller of Stop, and the CT logs themselves (entries appended),  *)
(*     as the environment.                                                 *)
(*                                                                         *)
(* A URL is abstracted to its parts that the string functions of the code  *)
(* act on: the log it names (host), its scheme prefix and its number of    *)
(* trailing slashes.  An entry is the log it came from and its index.      *)
(***************************************************************************)
EXTENDS Naturals, Sequences, FiniteSets

CONSTANTS
    Hosts,            \* the CT logs (model values)
    LogLists,         \* the sequences of raw log URLs the log list may hold
    StartIndexConfig, \* config.AppConfig.CTLogs.StartIndex, as elements
    Faults,           \* the failures the environment may produce
    MaxIndex,         \* bound on the size of every CT log
    ChanCap,          \* capacity of the fan-in channel (5000 in the code)
    ExampleEvery,     \* every n-th entry is the example cert (1000)
    MaxSweeps,        \* bound on the rediscovery ticks
    MaxErrors         \* bound on the scan errors of all workers together

(* The string prefixes normalizeCtlogURL and startDownloadingCerts test.   *)
Schemes == {"https", "http", "none"}

(* A raw log URL as the log list or a worker holds it.                     *)
URL == [host : Hosts, scheme : Schemes, slashes : Nat]

(* An element of the StartIndex list: "<sub> <idx>" when hasIndex, else    *)
(* the bare "<sub>".                                                       *)
StartIndexElement == [sub : Hosts, hasIndex : BOOLEAN, idx : Nat]

FaultKinds ==
    { "csv",        \* DownloadAndParseCSV returns an error
      "list",       \* getAllLogs returns an error (HTTP error, status)
      "listread",   \* io.ReadAll of the log list fails: log.Panic
      "sth",        \* client.New or GetSTH fails
      "dns",        \* a scan error containing "no such host"
      "transient",  \* any other scan error
      "parse",      \* parseCertstreamEntry returns an error
      "early_stop"  \* Stop is called before Start assigned cancelFunc
    }

ASSUME ConstantsAssumption ==
    /\ Hosts # {}
    /\ LogLists \subseteq Seq(URL)
    /\ StartIndexConfig \subseteq StartIndexElement
    /\ Faults \subseteq FaultKinds
    /\ MaxIndex \in Nat
    /\ ChanCap \in Nat \ {0}
    /\ ExampleEvery \in Nat \ {0}
    /\ MaxSweeps \in Nat
    /\ MaxErrors \in Nat

(* The two scanner callbacks: foundCertCallback, foundPrecertCallback.     *)
Kinds == {"cert", "precert"}

(* A published entry: Data.Source.NormalizedURL and Data.CertIndex.  The   *)
(* zero Entry has the empty normalized URL.                                *)
Entry == [host : Hosts, idx : Nat]
ZeroEntry == [host |-> "", idx |-> 0]

WorkerPC == {"idle", "run", "scan", "send", "sleep", "done"}
Worker == [url : URL, running : BOOLEAN, pc : WorkerPC, pos : Nat, kind : Kinds]

Panics == {"none", "send_on_closed", "index_out_of_range", "loglist_read",
           "nil_cancel"}

VARIABLES
    supervisor,     \* where Watcher.Start is
    watcher,        \* where the watchNewLogs goroutine is
    cancelled,      \* the context of the watcher is cancelled
    pending,        \* log URLs of the running sweep not yet looked at
    caOwners,       \* the CAOwners map: "empty", "nil" or the CCADB data
    workers,        \* Watcher.workers, in the order they were appended
    logSize,        \* the tree size of each CT log
    chan,           \* the buffered fan-in channel certChan
    closed,         \* certChan has been closed
    pump,           \* certHandler has been started
    bcast,          \* per log, the indices the pump broadcast, in order
    phantom,        \* the pump broadcast a zero Entry
    processed,      \* certHandler's counter, modulo ExampleEvery
    example,        \* the entry last given to web.SetExampleCert
    processedCount, \* processedCerts and processedPrecerts
    sweeps,         \* ticks of the rediscovery ticker so far
    errors,         \* scan errors so far
    panicked        \* the panic that ended the process, or "none"

vars == <<supervisor, watcher, cancelled, pending, caOwners, workers,
          logSize, chan, closed, pump, bcast, phantom, processed, example,
          processedCount, sweeps, errors, panicked>>

-----------------------------------------------------------------------------
(* String helpers of the code, on the abstract URL.                        *)

(* normalizeCtlogURL: TrimPrefix "https://", TrimPrefix "http://",        *)
(* TrimSuffix "/": the scheme goes and at most one trailing slash.         *)
NormalizeCtlogURL(u) ==
    [host |-> u.host, slashes |-> IF u.slashes > 0 THEN u.slashes - 1 ELSE 0]

(* The normalisation at the top of startDownloadingCerts: TrimRight "/"    *)
(* removes every trailing slash, and "https://" is prepended when the URL  *)
(* has neither scheme.                                                     *)
WorkerNormalize(u) ==
    [u EXCEPT !.slashes = 0,
              !.scheme = IF @ = "none" THEN "https" ELSE @]

(* strings.Contains(w.ctURL, element): a URL holds no space, so an element *)
(* "<sub> <idx>" is never a substring of it; a bare "<sub>" is when it     *)
(* names the log.                                                          *)
Contains(u, e) == ~e.hasIndex /\ e.sub = u.host

(* The worker struct built in addNewlyAvailableLogs.                       *)
NewWorker(u) ==
    [url |-> u, running |-> FALSE, pc |-> "idle", pos |-> 0, kind |-> "cert"]

(* The counter of the WaitGroup: Add(1) per spawned worker, Done when its  *)
(* goroutine returns.                                                      *)
WaitGroupCount ==
    Cardinality({i \in 1..Len(workers) : workers[i].pc # "done"})

HostOf(i) == workers[i].url.host

(* Some StartIndex element is contained in worker i's URL.                 *)
StartIndexMatch(i) == \E e \in StartIndexConfig : Contains(workers[i].url, e)

-----------------------------------------------------------------------------
Init ==
    /\ supervisor = "init"
    /\ watcher = "off"
    /\ cancelled = FALSE
    /\ pending = <<>>
    /\ caOwners = "empty"
    /\ workers = <<>>
    /\ logSize \in [Hosts -> 0..MaxIndex]
    /\ chan = <<>>
    /\ closed = FALSE
    /\ pump = FALSE
    /\ bcast = [h \in Hosts |-> <<>>]
    /\ phantom = FALSE
    /\ processed = 0
    /\ example = ZeroEntry
    /\ processedCount = [k \in Kinds |-> 0]
    /\ sweeps = 0
    /\ errors = 0
    /\ panicked = "none"

-----------------------------------------------------------------------------
(* The first half of addNewlyAvailableLogs: refresh CAOwners from CCADB,   *)
(* then fetch the log list.  The sweep itself is SweepItem, one step per   *)
(* log of the list.                                                        *)

(* CAOwners, _ = DownloadAndParseCSV(...): the map on success, nil after   *)
(* three failed attempts or a malformed CSV.                               *)
RefreshCatalog ==
    \/ caOwners' = "ccadb"
    \/ "csv" \in Faults /\ caOwners' = "nil"

(* getAllLogs: the list, an error (sweep skipped) or log.Panic.            *)
FetchLogList ==
    \/ \E l \in LogLists : pending' = l /\ UNCHANGED panicked
    \/ "list" \in Faults /\ pending' = <<>> /\ UNCHANGED panicked
    \/ "listread" \in Faults /\ pending' = <<>> /\ panicked' = "loglist_read"

SweepFetch == RefreshCatalog /\ FetchLogList

Start ==
    /\ supervisor = "init"
    /\ supervisor' = "sweep"
    /\ SweepFetch
    /\ UNCHANGED <<watcher, cancelled, workers, logSize, chan, closed, pump,
                   bcast, phantom, processed, example, processedCount,
                   sweeps, errors>>

(* Mutant: the registered URL is compared without normalizeCtlogURL.     *)
SweepItemRawCompare ==
    /\ pending # <<>>
    /\ supervisor = "sweep" \/ watcher = "sweep"
    /\ LET u == Head(pending) IN
       /\ pending' = Tail(pending)
       /\ IF \E i \in 1..Len(workers) :
                workers[i].url = u
          THEN UNCHANGED workers
          ELSE workers' = Append(workers, NewWorker(u))
    /\ UNCHANGED <<supervisor, watcher, cancelled, caOwners, logSize, chan,
                   closed, pump, bcast, phantom, processed, example,
                   processedCount, sweeps, errors, panicked>>

(* One log of the list: spawn a worker unless one is registered whose      *)
(* normalised URL equals the log's.  A worker's URL is read as it is now,  *)
(* before or after the worker normalised it.                               *)
SweepItem ==
    /\ pending # <<>>
    /\ supervisor = "sweep" \/ watcher = "sweep"
    /\ LET u == Head(pending) IN
       /\ pending' = Tail(pending)
       /\ IF \E i \in 1..Len(workers) :
                NormalizeCtlogURL(workers[i].url) = NormalizeCtlogURL(u)
          THEN UNCHANGED workers
          ELSE workers' = Append(workers, NewWorker(u))
    /\ UNCHANGED <<supervisor, watcher, cancelled, caOwners, logSize, chan,
                   closed, pump, bcast, phantom, processed, example,
                   processedCount, sweeps, errors, panicked>>

(* The first sweep is over: go certHandler, go watchNewLogs, wg.Wait().    *)
StartResume ==
    /\ supervisor = "sweep"
    /\ pending = <<>>
    /\ supervisor' = "wait"
    /\ pump' = TRUE
    /\ watcher' = "idle"
    /\ UNCHANGED <<cancelled, pending, caOwners, workers, logSize, chan,
                   closed, bcast, phantom, processed, example,
                   processedCount, sweeps, errors, panicked>>

(* wg.Wait() returns once the counter is zero.                             *)
WaitReturn ==
    /\ supervisor = "wait"
    /\ WaitGroupCount = 0
    /\ supervisor' = "closing"
    /\ UNCHANGED <<watcher, cancelled, pending, caOwners, workers, logSize,
                   chan, closed, pump, bcast, phantom, processed, example,
                   processedCount, sweeps, errors, panicked>>

(* close(w.certChan); Start returns.                                       *)
CloseChan ==
    /\ supervisor = "closing"
    /\ supervisor' = "returned"
    /\ closed' = TRUE
    /\ UNCHANGED <<watcher, cancelled, pending, caOwners, workers, logSize,
                   chan, pump, bcast, phantom, processed, example,
                   processedCount, sweeps, errors, panicked>>

(* watchNewLogs: the ticker fires and a sweep starts.                      *)
Tick ==
    /\ watcher = "idle"
    /\ sweeps < MaxSweeps
    /\ sweeps' = sweeps + 1
    /\ watcher' = "sweep"
    /\ SweepFetch
    /\ UNCHANGED <<supervisor, cancelled, workers, logSize, chan, closed,
                   pump, bcast, phantom, processed, example, processedCount,
                   errors>>

(* watchNewLogs: the sweep is over, back to the select.                    *)
WatcherResume ==
    /\ watcher = "sweep"
    /\ pending = <<>>
    /\ watcher' = "idle"
    /\ UNCHANGED <<supervisor, cancelled, pending, caOwners, workers,
                   logSize, chan, closed, pump, bcast, phantom, processed,
                   example, processedCount, sweeps, errors, panicked>>

(* watchNewLogs: <-w.context.Done() is selected.                           *)
WatcherExit ==
    /\ watcher = "idle"
    /\ cancelled
    /\ watcher' = "exited"
    /\ UNCHANGED <<supervisor, cancelled, pending, caOwners, workers,
                   logSize, chan, closed, pump, bcast, phantom, processed,
                   example, processedCount, sweeps, errors, panicked>>

(* Stop: w.cancelFunc().  A second call changes nothing.                   *)
Stop ==
    /\ supervisor # "init"
    /\ ~cancelled
    /\ cancelled' = TRUE
    /\ UNCHANGED <<supervisor, watcher, pending, caOwners, workers, logSize,
                   chan, closed, pump, bcast, phantom, processed, example,
                   processedCount, sweeps, errors, panicked>>

(* Stop before Start assigned w.cancelFunc: a call of a nil func.          *)
StopBeforeStart ==
    /\ supervisor = "init"
    /\ "early_stop" \in Faults
    /\ panicked' = "nil_cancel"
    /\ UNCHANGED <<supervisor, watcher, cancelled, pending, caOwners,
                   workers, logSize, chan, closed, pump, bcast, phantom,
                   processed, example, processedCount, sweeps, errors>>

-----------------------------------------------------------------------------
(* Workers.  Worker i is workers[i]; UpdateW(i, r) updates its fields.     *)

UpdateW(i, r) == workers' = [workers EXCEPT ![i] = r]

(* startDownloadingCerts up to the loop: normalise w.ctURL, then set       *)
(* running under w.mu unless it is already set.                            *)
StartDownloadingCerts(i) ==
    /\ workers[i].pc = "idle"
    /\ ~workers[i].running
    /\ UpdateW(i, [workers[i] EXCEPT !.url = WorkerNormalize(workers[i].url),
                                     !.running = TRUE, !.pc = "run"])
    /\ UNCHANGED <<supervisor, watcher, cancelled, pending, caOwners,
                   logSize, chan, closed, pump, bcast, phantom, processed,
                   example, processedCount, sweeps, errors, panicked>>

(* Mutant: GetSTH succeeds on a cancelled context.                         *)
RunWorkerIgnoresCancel(i) ==
    /\ workers[i].pc \in {"run", "sleep"}
    /\ \/ "sth" \in Faults /\ UpdateW(i, [workers[i] EXCEPT !.pc = "done"])
          /\ UNCHANGED panicked
       \/ StartIndexMatch(i)
          /\ panicked' = "index_out_of_range" /\ UNCHANGED workers
       \/ ~StartIndexMatch(i)
          /\ UpdateW(i, [workers[i] EXCEPT !.pc = "scan",
                                           !.pos = logSize[HostOf(i)]])
          /\ UNCHANGED panicked
    /\ UNCHANGED <<supervisor, watcher, cancelled, pending, caOwners,
                   logSize, chan, closed, pump, bcast, phantom, processed,
                   example, processedCount, sweeps, errors>>

(* Mutant: a restarted scan starts at the beginning of the log.            *)
RunWorkerFromZero(i) ==
    /\ workers[i].pc \in {"run", "sleep"}
    /\ \/ (cancelled \/ "sth" \in Faults)
          /\ UpdateW(i, [workers[i] EXCEPT !.pc = "done"])
          /\ UNCHANGED panicked
       \/ ~cancelled /\ StartIndexMatch(i)
          /\ panicked' = "index_out_of_range" /\ UNCHANGED workers
       \/ ~cancelled /\ ~StartIndexMatch(i)
          /\ UpdateW(i, [workers[i] EXCEPT !.pc = "scan",
                    !.pos = IF workers[i].pc = "sleep" THEN 0
                            ELSE logSize[HostOf(i)]])
          /\ UNCHANGED panicked
    /\ UNCHANGED <<supervisor, watcher, cancelled, pending, caOwners,
                   logSize, chan, closed, pump, bcast, phantom, processed,
                   example, processedCount, sweeps, errors>>

(* Mutant: a failed GetSTH is retried after the sleep like a scan error.  *)
RunWorkerRetriesSTH(i) ==
    /\ workers[i].pc \in {"run", "sleep"}
    /\ \/ (cancelled \/ "sth" \in Faults)
          /\ UpdateW(i, [workers[i] EXCEPT !.pc = "sleep"])
          /\ UNCHANGED panicked
       \/ ~cancelled /\ StartIndexMatch(i)
          /\ panicked' = "index_out_of_range" /\ UNCHANGED workers
       \/ ~cancelled /\ ~StartIndexMatch(i)
          /\ UpdateW(i, [workers[i] EXCEPT !.pc = "scan",
                                           !.pos = logSize[HostOf(i)]])
          /\ UNCHANGED panicked
    /\ UNCHANGED <<supervisor, watcher, cancelled, pending, caOwners,
                   logSize, chan, closed, pump, bcast, phantom, processed,
                   example, processedCount, sweeps, errors>>

(* runWorker, entered first from "run" and after the 5 s sleep from        *)
(* "sleep".  client.New or GetSTH failing (always so on a cancelled        *)
(* context) ends the worker.  Otherwise the scan starts at the tree size,  *)
(* unless a StartIndex element is contained in the URL: then               *)
(* strings.Split(element, " ")[1] is read, and an element contained in a   *)
(* URL has no space, so the index is out of range and the process panics.  *)
RunWorker(i) ==
    /\ workers[i].pc \in {"run", "sleep"}
    /\ \/ (cancelled \/ "sth" \in Faults)
          /\ UpdateW(i, [workers[i] EXCEPT !.pc = "done"])
          /\ UNCHANGED panicked
       \/ ~cancelled /\ StartIndexMatch(i)
          /\ panicked' = "index_out_of_range" /\ UNCHANGED workers
       \/ ~cancelled /\ ~StartIndexMatch(i)
          /\ UpdateW(i, [workers[i] EXCEPT !.pc = "scan",
                                           !.pos = logSize[HostOf(i)]])
          /\ UNCHANGED panicked
    /\ UNCHANGED <<supervisor, watcher, cancelled, pending, caOwners,
                   logSize, chan, closed, pump, bcast, phantom, processed,
                   example, processedCount, sweeps, errors>>

(* Mutant: the scanner also hands over the index equal to the tree size.   *)
ScanDeliverOffByOne(i) ==
    /\ workers[i].pc = "scan"
    /\ workers[i].pos <= logSize[HostOf(i)]
    /\ \/ "parse" \in Faults
          /\ UpdateW(i, [workers[i] EXCEPT !.pos = workers[i].pos + 1])
       \/ \E k \in Kinds :
          UpdateW(i, [workers[i] EXCEPT !.pc = "send", !.kind = k])
    /\ UNCHANGED <<supervisor, watcher, cancelled, pending, caOwners,
                   logSize, chan, closed, pump, bcast, phantom, processed,
                   example, processedCount, sweeps, errors, panicked>>

(* The scanner hands entry pos to foundCertCallback or                     *)
(* foundPrecertCallback; the callback parses it and drops it on a parse    *)
(* error, or goes on to send it.                                           *)
ScanDeliver(i) ==
    /\ workers[i].pc = "scan"
    /\ workers[i].pos < logSize[HostOf(i)]
    /\ \/ "parse" \in Faults
          /\ UpdateW(i, [workers[i] EXCEPT !.pos = workers[i].pos + 1])
       \/ \E k \in Kinds :
          UpdateW(i, [workers[i] EXCEPT !.pc = "send", !.kind = k])
    /\ UNCHANGED <<supervisor, watcher, cancelled, pending, caOwners,
                   logSize, chan, closed, pump, bcast, phantom, processed,
                   example, processedCount, sweeps, errors, panicked>>

(* Mutant: the send does not wait for room in the channel.                 *)
SendEntryNoBackpressure(i) ==
    /\ workers[i].pc = "send"
    /\ ~closed
    /\ chan' = Append(chan, [host |-> HostOf(i), idx |-> workers[i].pos])
    /\ UpdateW(i, [workers[i] EXCEPT !.pc = "scan", !.pos = @ + 1])
    /\ processedCount' = [processedCount EXCEPT ![workers[i].kind] = @ + 1]
    /\ UNCHANGED <<supervisor, watcher, cancelled, pending, caOwners,
                   logSize, closed, pump, bcast, phantom, processed, example,
                   sweeps, errors, panicked>>

(* w.entryChan <- entry blocks while the channel is full; then the atomic  *)
(* counter of the callback's kind is incremented.                          *)
SendEntry(i) ==
    /\ workers[i].pc = "send"
    /\ ~closed
    /\ Len(chan) < ChanCap
    /\ chan' = Append(chan, [host |-> HostOf(i), idx |-> workers[i].pos])
    /\ UpdateW(i, [workers[i] EXCEPT !.pc = "scan",
                                     !.pos = workers[i].pos + 1])
    /\ processedCount' = [processedCount EXCEPT ![workers[i].kind] =
                                          processedCount[workers[i].kind] + 1]
    /\ UNCHANGED <<supervisor, watcher, cancelled, pending, caOwners,
                   logSize, closed, pump, bcast, phantom, processed, example,
                   sweeps, errors, panicked>>

(* A send on a closed channel panics.                                      *)
SendOnClosed(i) ==
    /\ workers[i].pc = "send"
    /\ closed
    /\ panicked' = "send_on_closed"
    /\ UNCHANGED <<supervisor, watcher, cancelled, pending, caOwners,
                   workers, logSize, chan, closed, pump, bcast, phantom,
                   processed, example, processedCount, sweeps, errors>>

(* Scan returns an error: "no such host" ends the worker; any other error  *)
(* ends it if the context is cancelled and otherwise sleeps before the     *)
(* restart.                                                                *)
ScanFail(i) ==
    /\ workers[i].pc = "scan"
    /\ errors < MaxErrors
    /\ errors' = errors + 1
    /\ \/ "dns" \in Faults
          /\ UpdateW(i, [workers[i] EXCEPT !.pc = "done"])
       \/ "transient" \in Faults
          /\ UpdateW(i, [workers[i] EXCEPT
                           !.pc = IF cancelled THEN "done" ELSE "sleep"])
    /\ UNCHANGED <<supervisor, watcher, cancelled, pending, caOwners,
                   logSize, chan, closed, pump, bcast, phantom, processed,
                   example, processedCount, sweeps, panicked>>

(* Scan returns because the context is cancelled; the select on            *)
(* ctx.Done() ends the worker.                                             *)
ScanCancelled(i) ==
    /\ workers[i].pc = "scan"
    /\ cancelled
    /\ UpdateW(i, [workers[i] EXCEPT !.pc = "done"])
    /\ UNCHANGED <<supervisor, watcher, cancelled, pending, caOwners,
                   logSize, chan, closed, pump, bcast, phantom, processed,
                   example, processedCount, sweeps, errors, panicked>>

-----------------------------------------------------------------------------
(* The pump, certHandler.                                                  *)

(* The broadcast of one entry e: processed++, every ExampleEvery-th entry  *)
(* to SetExampleCert, Broadcast <- e, metrics.Inc.                         *)
Broadcast(e) ==
    LET n == (processed + 1) % ExampleEvery IN
    /\ processed' = n
    /\ example' = IF n = 0 THEN e ELSE example

(* Mutant: the example entry is stored instead of broadcast.            *)
PumpReceiveExampleOnly ==
    /\ pump
    /\ chan # <<>>
    /\ chan' = Tail(chan)
    /\ Broadcast(Head(chan))
    /\ bcast' = IF processed' = 0 THEN bcast
                ELSE [bcast EXCEPT ![Head(chan).host] =
                                       Append(@, Head(chan).idx)]
    /\ UNCHANGED <<supervisor, watcher, cancelled, pending, caOwners,
                   workers, logSize, closed, pump, phantom, processedCount,
                   sweeps, errors, panicked>>

(* entry := <-entryChan with an entry in the channel.                      *)
PumpReceive ==
    /\ pump
    /\ chan # <<>>
    /\ chan' = Tail(chan)
    /\ Broadcast(Head(chan))
    /\ bcast' = [bcast EXCEPT ![Head(chan).host] =
                    Append(bcast[Head(chan).host], Head(chan).idx)]
    /\ UNCHANGED <<supervisor, watcher, cancelled, pending, caOwners,
                   workers, logSize, closed, pump, phantom, processedCount,
                   sweeps, errors, panicked>>

(* entry := <-entryChan on the closed, drained channel: the receive        *)
(* yields the zero Entry at once, and the loop broadcasts it.              *)
PumpReceiveClosed ==
    /\ pump
    /\ closed
    /\ chan = <<>>
    /\ Broadcast(ZeroEntry)
    /\ phantom' = TRUE
    /\ UNCHANGED <<supervisor, watcher, cancelled, pending, caOwners,
                   workers, logSize, chan, closed, pump, bcast,
                   processedCount, sweeps, errors, panicked>>

-----------------------------------------------------------------------------
(* The environment: a CT log grows by one entry.                           *)
AppendEntry(h) ==
    /\ logSize[h] < MaxIndex
    /\ logSize' = [logSize EXCEPT ![h] = logSize[h] + 1]
    /\ UNCHANGED <<supervisor, watcher, cancelled, pending, caOwners,
                   workers, chan, closed, pump, bcast, phantom, processed,
                   example, processedCount, sweeps, errors, panicked>>

(* The steps of worker i that the Go scheduler will take.                  *)
WorkerStep(i) ==
    \/ StartDownloadingCerts(i)
    \/ RunWorker(i)
    \/ ScanDeliver(i)
    \/ SendEntry(i)
    \/ SendOnClosed(i)
    \/ ScanCancelled(i)

Next ==
    /\ panicked = "none"
    /\ \/ Start \/ SweepItem \/ StartResume \/ WaitReturn \/ CloseChan
       \/ Tick \/ WatcherResume \/ WatcherExit
       \/ Stop \/ StopBeforeStart
       \/ PumpReceive \/ PumpReceiveClosed
       \/ \E i \in 1..Len(workers) : WorkerStep(i) \/ ScanFail(i)
       \/ \E h \in Hosts : AppendEntry(h)

(* Bound on the number of workers: one per log of each sweep.              *)
MaxWorkers ==
    (MaxSweeps + 1) * (CHOOSE m \in {Len(l) : l \in LogLists} :
                           \A l \in LogLists : Len(l) <= m)

(* Every goroutine keeps being scheduled: the supervisor, the rediscovery  *)
(* goroutine, the pump and each worker, including the scanner's progress.  *)
(* Stop, log growth and failures are the environment's and get none.       *)
Fairness ==
    /\ WF_vars(Start \/ SweepItem \/ StartResume \/ WaitReturn \/ CloseChan)
    /\ WF_vars(WatcherResume \/ WatcherExit)
    /\ WF_vars(PumpReceive)
    /\ \A i \in 1..MaxWorkers :
          WF_vars(i <= Len(workers) /\ panicked = "none" /\ WorkerStep(i))

Spec == Init /\ [][Next]_vars

FairSpec == Spec /\ Fairness

-----------------------------------------------------------------------------
(* Properties.                                                             *)

(* Every variable holds a value of its type; the fan-in channel never     *)
(* holds more than its capacity.                                           *)
TypeOK ==
    /\ supervisor \in {"init", "sweep", "wait", "closing", "returned"}
    /\ watcher \in {"off", "idle", "sweep", "exited"}
    /\ cancelled \in BOOLEAN
    /\ pending \in Seq(URL)
    /\ caOwners \in {"empty", "nil", "ccadb"}
    /\ workers \in Seq(Worker)
    /\ logSize \in [Hosts -> 0..MaxIndex]
    /\ chan \in Seq(Entry)
    /\ Len(chan) <= ChanCap
    /\ closed \in BOOLEAN
    /\ pump \in BOOLEAN
    /\ bcast \in [Hosts -> Seq(Nat)]
    /\ phantom \in BOOLEAN
    /\ processed \in 0..(ExampleEvery - 1)
    /\ example \in Entry \cup {ZeroEntry}
    /\ processedCount \in [Kinds -> Nat]
    /\ sweeps \in 0..MaxSweeps
    /\ errors \in 0..MaxErrors
    /\ panicked \in Panics

(* Per log, the pump broadcasts entries in strictly ascending index order, *)
(* so none twice: across transient scan errors, the 5 s sleep and the      *)
(* restart of runWorker at the then current tree size, the buffered        *)
(* channel and the single pump (spec section 5, "Ordering").               *)
PerLogOrder ==
    \A h \in Hosts : \A a, b \in 1..Len(bcast[h]) :
        a < b => bcast[h][a] < bcast[h][b]

(* A worker never moves its scan position back: runWorker, restarted      *)
(* after a transient scan error and the 5 s sleep, resumes at the then     *)
(* current tree size, which is never below where the failed scan stopped,  *)
(* so a worker never fetches and sends an entry of its log twice.          *)
NoRewind ==
    [][\A i \in 1..Len(workers) : workers'[i].pos >= workers[i].pos]_vars

(* The per-log stream of LogStream, with the logs' tree sizes and the      *)
(* pump's broadcasts.  Every step of the core is a step of the stream or   *)
(* leaves both unchanged: the pump broadcasts only entries that exist in   *)
(* their log, and each beyond the last one of its log (certHandler's       *)
(* broadcast, fed by runWorker's scan from the tree size).                 *)
Stream == INSTANCE LogStream WITH size <- logSize, out <- bcast

StreamRefinement == Stream!Spec

(* No two registered workers watch the same CT log, whatever spelling of   *)
(* its URL each sweep's log list uses and whether or not the first worker  *)
(* has already rewritten its ctURL when the next sweep compares against it *)
(* (addNewlyAvailableLogs, spec section 8).                                *)
UniqueWorkerPerLog ==
    \A i, j \in 1..Len(workers) : i # j => HostOf(i) # HostOf(j)

(* No worker ever sends on the closed fan-in channel: the channel is only  *)
(* closed once every worker has returned, and none spawned by a late sweep *)
(* reaches the send (Start's wg.Wait/close against watchNewLogs).          *)
NoSendOnClosedChannel == panicked # "send_on_closed"

(* After Stop, Start eventually returns and closes the channel: every      *)
(* worker, including one blocked on a full channel, gets out (spec 4.1).   *)
StopLeadsToClose == cancelled ~> closed

(* Under every fault the environment produces, Stop still leads to Start  *)
(* closing the channel, unless the process has died of one of its panics: *)
(* a worker ended by a failed STH or a DNS error, a sweep whose log list   *)
(* failed, a close that wg.Wait allowed before Stop, and workers a late    *)
(* tick spawns after Stop all leave the WaitGroup (spec 4.1 and 4.5).      *)
StopLeadsToExit == cancelled ~> (closed \/ panicked # "none")

(* An entry put in the fan-in channel is eventually broadcast, even after  *)
(* Stop: the pump outlives the workers (spec 4.6).                         *)
SentEventuallyBroadcast ==
    \A h \in Hosts, n \in 0..MaxIndex :
        (\E k \in 1..Len(chan) : chan[k] = [host |-> h, idx |-> n])
            ~> (\E k \in 1..Len(bcast[h]) : bcast[h][k] = n)

(* The pump only broadcasts entries a worker sent: it stops when the       *)
(* channel is closed (spec 4.6, "Runs until the fan-in channel is          *)
(* closed").                                                               *)
NoPhantomBroadcast == ~phantom

(* A failed CCADB refresh leaves the loaded catalog in place (spec 4.4,    *)
(* "Failure after retries leaves the previous catalog in place").          *)
CatalogKeptOnFailure ==
    [][caOwners = "ccadb" => caOwners' # "nil"]_caOwners

(* A worker whose URL matches a StartIndex element "<sub> <idx>" with      *)
(* idx > 0 starts scanning at idx (spec 4.5, step 3).                      *)
StartIndexHonoured ==
    [][\A i \in 1..Len(workers) :
          (workers[i].pc \in {"run", "sleep"} /\ i <= Len(workers')
           /\ workers'[i].pc = "scan")
          => \A e \in StartIndexConfig :
                 (e.hasIndex /\ e.idx > 0 /\ e.sub = HostOf(i))
                     => workers'[i].pos = e.idx]_vars

=============================================================================
