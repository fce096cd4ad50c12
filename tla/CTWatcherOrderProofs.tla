------------------------- MODULE CTWatcherOrderProofs -------------------------
(***************************************************************************)
(* Proofs that each CT log's broadcast is in strictly ascending index      *)
(* order and that the core implements the per-log stream of LogStream,    *)
(* when no log URL of the log lists ends in more than one slash.           *)
(***************************************************************************)
EXTENDS CTWatcherProofs

(* Every URL of every log list ends in at most one slash, as the published *)
(* list does.  With "//" a second worker for the same log can be spawned   *)
(* (the duplicate_worker run), and two scanners of one log break order.    *)
SlashAssumption ==
    \A l \in LogLists : \A k \in 1..Len(l) : l[k].slashes <= 1

(* The URLs the sweep and the workers hold end in at most one slash.       *)
SlashBound ==
    /\ \A k \in 1..Len(pending) : pending[k].slashes <= 1
    /\ \A i \in 1..Len(workers) : workers[i].url.slashes <= 1

(* Everything broadcast or in the channel is an entry its log holds.       *)
Existing ==
    /\ \A h \in Hosts : \A k \in 1..Len(bcast[h]) : bcast[h][k] < logSize[h]
    /\ \A a \in 1..Len(chan) : chan[a].idx < logSize[chan[a].host]

(* Per log, the channel holds ascending indices, all beyond the last one   *)
(* broadcast.                                                              *)
ChanOrder ==
    \A a, b \in 1..Len(chan) :
        a < b /\ chan[a].host = chan[b].host => chan[a].idx < chan[b].idx

BcastBeforeChan ==
    \A a \in 1..Len(chan) : \A k \in 1..Len(bcast[chan[a].host]) :
        bcast[chan[a].host][k] < chan[a].idx

(* A scanning or sending worker is at an existing entry (or the end) and   *)
(* beyond everything of its log that is in the channel or broadcast.       *)
ProducerAhead ==
    \A i \in 1..Len(workers) : workers[i].pc \in {"scan", "send"} =>
        /\ workers[i].pos <= logSize[HostOf(i)]
        /\ workers[i].pc = "send" => workers[i].pos < logSize[HostOf(i)]
        /\ \A k \in 1..Len(bcast[HostOf(i)]) : bcast[HostOf(i)][k] < workers[i].pos
        /\ \A a \in 1..Len(chan) :
              chan[a].host = HostOf(i) => chan[a].idx < workers[i].pos

(* The strengthening of PerLogOrder that is inductive.                     *)
OrderInv ==
    /\ TypeOK
    /\ SlashBound
    /\ UniqueWorkerPerLog
    /\ Existing
    /\ ChanOrder
    /\ BcastBeforeChan
    /\ ProducerAhead
    /\ PerLogOrder

-----------------------------------------------------------------------------
(* normalizeCtlogURL identifies exactly the URLs of one log, whatever     *)
(* their schemes, as long as each ends in at most one slash.               *)
LEMMA NormalizeSameLog ==
    ASSUME NEW u \in URL, NEW v \in URL, u.slashes <= 1, v.slashes <= 1
    PROVE  NormalizeCtlogURL(u) = NormalizeCtlogURL(v) <=> u.host = v.host
BY DEF NormalizeCtlogURL, URL

(* A step that changes none of the log list, the workers, the logs, the    *)
(* channel or the broadcasts keeps OrderInv.                               *)
LEMMA FrameStep ==
    ASSUME OrderInv, TypeOK',
           UNCHANGED <<pending, workers, logSize, chan, bcast>>
    PROVE  OrderInv'
BY DEF OrderInv, SlashBound, UniqueWorkerPerLog, Existing, ChanOrder,
       BcastBeforeChan, ProducerAhead, PerLogOrder, HostOf

(* A step that only replaces the log list being swept, by one whose URLs   *)
(* end in at most one slash, keeps OrderInv.                               *)
LEMMA PendingStep ==
    ASSUME OrderInv, TypeOK',
           UNCHANGED <<workers, logSize, chan, bcast>>,
           \A k \in 1..Len(pending') : pending'[k].slashes <= 1
    PROVE  OrderInv'
BY DEF OrderInv, SlashBound, UniqueWorkerPerLog, Existing, ChanOrder,
       BcastBeforeChan, ProducerAhead, PerLogOrder, HostOf

(* The log list download yields a list of the log lists, or none.          *)
LEMMA SweepFetchSlashes ==
    ASSUME SlashAssumption, SweepFetch
    PROVE  \A k \in 1..Len(pending') : pending'[k].slashes <= 1
<1>1. CASE \E l \in LogLists : pending' = l
  BY <1>1 DEF SlashAssumption
<1>2. CASE pending' = <<>>
  BY <1>2
<1>3. QED
  BY <1>1, <1>2 DEF SweepFetch, FetchLogList

(* A step in which worker i replaces its own record, keeping its log and   *)
(* at most one trailing slash, and in which it is scanning or sending only *)
(* at a place beyond everything of its log in the channel or broadcast,    *)
(* keeps OrderInv.                                                         *)
LEMMA WorkerLocalStep ==
    ASSUME OrderInv, TypeOK',
           NEW i \in 1..Len(workers), NEW r \in Worker, UpdateW(i, r),
           UNCHANGED <<pending, logSize, chan, bcast>>,
           r.url.host = workers[i].url.host,
           r.url.slashes <= 1,
           r.pc \in {"scan", "send"} =>
               /\ r.pos <= logSize[r.url.host]
               /\ r.pc = "send" => r.pos < logSize[r.url.host]
               /\ \A k \in 1..Len(bcast[r.url.host]) : bcast[r.url.host][k] < r.pos
               /\ \A a \in 1..Len(chan) :
                     chan[a].host = r.url.host => chan[a].idx < r.pos
    PROVE  OrderInv'
<1>1. /\ Len(workers') = Len(workers)
      /\ workers'[i] = r
      /\ \A j \in 1..Len(workers) \ {i} : workers'[j] = workers[j]
  BY UpdateWFacts DEF OrderInv
<1>2. \A j \in 1..Len(workers) : workers'[j].url.host = workers[j].url.host
  BY <1>1
<1>3. SlashBound'
  BY <1>1 DEF OrderInv, SlashBound
<1>4. UniqueWorkerPerLog'
  BY <1>1, <1>2 DEF OrderInv, UniqueWorkerPerLog, HostOf
<1>5. ProducerAhead'
  BY <1>1, <1>2 DEF OrderInv, ProducerAhead, HostOf
<1>6. Existing' /\ ChanOrder' /\ BcastBeforeChan' /\ PerLogOrder'
  BY DEF OrderInv, Existing, ChanOrder, BcastBeforeChan, PerLogOrder
<1>7. QED
  BY <1>3, <1>4, <1>5, <1>6 DEF OrderInv

(* A log growing keeps OrderInv: every bound is an upper bound by the      *)
(* tree size, and tree sizes only grow.                                    *)
LEMMA AppendEntryStep ==
    ASSUME OrderInv, TypeOK', NEW h \in Hosts, AppendEntry(h)
    PROVE  OrderInv'
<1>0. /\ logSize \in [Hosts -> Nat]
      /\ bcast \in [Hosts -> Seq(Nat)]
      /\ chan \in Seq(Entry)
      /\ workers \in Seq(Worker)
  BY DEF OrderInv, TypeOK
<1>1. \A g \in Hosts : logSize'[g] \in Nat /\ logSize'[g] >= logSize[g]
  BY <1>0 DEF AppendEntry
<1>2. UNCHANGED <<pending, workers, chan, bcast>>
  BY DEF AppendEntry
<1>3. Existing'
  <2>1. ASSUME NEW g \in Hosts, NEW k \in 1..Len(bcast[g])
        PROVE  bcast[g][k] < logSize'[g]
    <3>1. bcast[g][k] < logSize[g] /\ bcast[g][k] \in Nat
      BY <1>0 DEF OrderInv, Existing
    <3>2. QED
      BY <1>0, <1>1, <3>1
  <2>2. ASSUME NEW a \in 1..Len(chan)
        PROVE  chan[a].idx < logSize'[chan[a].host]
    <3>0. chan[a] \in Entry
      BY <1>0
    <3>1. chan[a].host \in Hosts /\ chan[a].idx \in Nat
      BY <3>0 DEF Entry
    <3>2. chan[a].idx < logSize[chan[a].host]
      BY DEF OrderInv, Existing
    <3>3. QED
      BY <1>0, <1>1, <3>1, <3>2
  <2>3. QED
    BY <1>2, <2>1, <2>2 DEF Existing
<1>4. ProducerAhead'
  <2> SUFFICES ASSUME NEW i \in 1..Len(workers'),
                      workers'[i].pc \in {"scan", "send"}
               PROVE  /\ workers'[i].pos <= logSize'[HostOf(i)']
                      /\ workers'[i].pc = "send"
                           => workers'[i].pos < logSize'[HostOf(i)']
                      /\ \A k \in 1..Len(bcast'[HostOf(i)']) :
                           bcast'[HostOf(i)'][k] < workers'[i].pos
                      /\ \A a \in 1..Len(chan') :
                           chan'[a].host = HostOf(i)' => chan'[a].idx < workers'[i].pos
    BY DEF ProducerAhead
  <2>0. workers' = workers /\ i \in 1..Len(workers)
    BY <1>2
  <2>1. workers[i] \in Worker /\ HostOf(i) \in Hosts /\ HostOf(i)' = HostOf(i)
    <3>1. workers[i] \in Worker
      BY <1>0, <2>0
    <3>2. HostOf(i) \in Hosts
      BY <3>1 DEF Worker, URL, HostOf
    <3>3. HostOf(i)' = HostOf(i)
      BY <2>0 DEF HostOf
    <3>4. QED
      BY <3>1, <3>2, <3>3
  <2>2. workers[i].pos \in Nat
    BY <2>1 DEF Worker
  <2>3. /\ workers[i].pos <= logSize[HostOf(i)]
        /\ workers[i].pc = "send" => workers[i].pos < logSize[HostOf(i)]
        /\ \A k \in 1..Len(bcast[HostOf(i)]) : bcast[HostOf(i)][k] < workers[i].pos
        /\ \A a \in 1..Len(chan) :
              chan[a].host = HostOf(i) => chan[a].idx < workers[i].pos
    BY <1>2 DEF OrderInv, ProducerAhead
  <2>4. logSize'[HostOf(i)] \in Nat /\ logSize'[HostOf(i)] >= logSize[HostOf(i)]
    BY <1>1, <2>1
  <2>5. logSize[HostOf(i)] \in Nat
    BY <1>0, <2>1
  <2>6. QED
    BY <1>2, <2>0, <2>1, <2>2, <2>3, <2>4, <2>5
<1>5. QED
  BY <1>2, <1>3, <1>4 DEF OrderInv, SlashBound, UniqueWorkerPerLog, ChanOrder,
                          BcastBeforeChan, PerLogOrder, HostOf

(* One log of the sweep: a worker is spawned only for a log no registered  *)
(* worker watches, since two URLs of one log with at most one trailing     *)
(* slash normalise to the same text.                                       *)
LEMMA SweepItemStep ==
    ASSUME OrderInv, TypeOK', SweepItem
    PROVE  OrderInv'
<1> DEFINE u == Head(pending)
<1>1. /\ pending # <<>>
      /\ pending' = Tail(pending)
      /\ UNCHANGED <<logSize, chan, bcast>>
  BY DEF SweepItem
<1>2. u \in URL /\ u.slashes <= 1
  BY <1>1 DEF OrderInv, TypeOK, SlashBound
<1>3. \A k \in 1..Len(pending') : pending'[k].slashes <= 1
  BY <1>1 DEF OrderInv, TypeOK, SlashBound
<1>4. CASE \E i \in 1..Len(workers) :
               NormalizeCtlogURL(workers[i].url) = NormalizeCtlogURL(u)
  <2>1. UNCHANGED workers
    BY <1>4 DEF SweepItem
  <2>2. QED
    BY <1>1, <1>3, <2>1, PendingStep
<1>5. CASE ~\E i \in 1..Len(workers) :
               NormalizeCtlogURL(workers[i].url) = NormalizeCtlogURL(u)
  <2>1. workers' = Append(workers, NewWorker(u))
    BY <1>5 DEF SweepItem
  <2>2. \A i \in 1..Len(workers) : workers[i].url.host # u.host
    <3> SUFFICES ASSUME NEW i \in 1..Len(workers), workers[i].url.host = u.host
                 PROVE  FALSE
      OBVIOUS
    <3>0. workers[i] \in Worker
      BY DEF OrderInv, TypeOK
    <3>1. workers[i].url.slashes <= 1 /\ workers[i].url \in URL
      BY <3>0 DEF OrderInv, SlashBound, Worker
    <3>2. NormalizeCtlogURL(workers[i].url) = NormalizeCtlogURL(u)
      BY <1>2, <3>1, NormalizeSameLog
    <3>3. QED
      BY <1>5, <3>2
  <2>3. /\ Len(workers') = Len(workers) + 1
        /\ workers'[Len(workers) + 1] = NewWorker(u)
        /\ \A j \in 1..Len(workers) : workers'[j] = workers[j]
    BY <2>1, <1>2, NewWorkerType DEF OrderInv, TypeOK
  <2>4. NewWorker(u).url = u /\ NewWorker(u).pc = "idle"
    BY DEF NewWorker
  <2>5. SlashBound'
    BY <1>2, <1>3, <2>3, <2>4 DEF OrderInv, SlashBound
  <2>6. UniqueWorkerPerLog'
    BY <2>2, <2>3, <2>4 DEF OrderInv, UniqueWorkerPerLog, HostOf
  <2>7. ProducerAhead'
    BY <1>1, <2>3, <2>4 DEF OrderInv, ProducerAhead, HostOf
  <2>8. QED
    BY <1>1, <2>5, <2>6, <2>7 DEF OrderInv, Existing, ChanOrder,
                                  BcastBeforeChan, PerLogOrder
<1>6. QED
  BY <1>4, <1>5

(* The blocking send appends the worker's entry to the channel: it exists, *)
(* and it is beyond everything of its log in the channel or broadcast,     *)
(* because the worker is the only one of its log and is ahead of them.     *)
LEMMA SendEntryStep ==
    ASSUME OrderInv, TypeOK', NEW i \in 1..Len(workers), SendEntry(i)
    PROVE  OrderInv'
<1> DEFINE h == HostOf(i)
           p == workers[i].pos
           e == [host |-> h, idx |-> p]
           r == [workers[i] EXCEPT !.pc = "scan", !.pos = p + 1]
<1>0. /\ logSize \in [Hosts -> Nat]
      /\ bcast \in [Hosts -> Seq(Nat)]
      /\ chan \in Seq(Entry)
      /\ workers \in Seq(Worker)
  BY DEF OrderInv, TypeOK
<1>1. /\ workers[i].pc = "send"
      /\ chan' = Append(chan, e)
      /\ UpdateW(i, r)
      /\ UNCHANGED <<pending, logSize, bcast>>
  BY DEF SendEntry, HostOf
<1>2. /\ workers[i] \in Worker
      /\ h \in Hosts
      /\ p \in Nat
  <2>1. workers[i] \in Worker
    BY <1>0
  <2>2. QED
    BY <2>1 DEF Worker, URL, HostOf
<1>3. r \in Worker /\ r.url = workers[i].url /\ r.pc = "scan" /\ r.pos = p + 1
  <2>1. r \in Worker
    <3>1. \A pc \in WorkerPC, n \in Nat :
             [workers[i] EXCEPT !.pc = pc, !.pos = n] \in Worker
      BY <1>2, WorkerUpdate
    <3>2. "scan" \in WorkerPC /\ p + 1 \in Nat
      BY <1>2 DEF WorkerPC
    <3>3. QED
      BY <3>1, <3>2, Zenon
  <2>2. QED
    BY <1>2, <2>1 DEF Worker
<1>4. /\ Len(workers') = Len(workers)
      /\ workers'[i] = r
      /\ \A j \in 1..Len(workers) \ {i} : workers'[j] = workers[j]
  BY <1>1, <1>3, UpdateWFacts DEF OrderInv
<1>5. /\ p < logSize[h]
      /\ \A k \in 1..Len(bcast[h]) : bcast[h][k] < p
      /\ \A a \in 1..Len(chan) : chan[a].host = h => chan[a].idx < p
  BY <1>1 DEF OrderInv, ProducerAhead
<1>6. /\ Len(chan') = Len(chan) + 1
      /\ \A a \in 1..Len(chan) : chan'[a] = chan[a]
      /\ chan'[Len(chan) + 1] = e
  BY <1>0, <1>1
<1>7. \A j \in 1..Len(workers) : HostOf(j)' = HostOf(j)
  BY <1>3, <1>4 DEF HostOf
<1>8. \A j \in 1..Len(workers) : j # i => HostOf(j) # h
  BY DEF OrderInv, UniqueWorkerPerLog
<1>9. SlashBound' /\ UniqueWorkerPerLog'
  <2>1. \A j \in 1..Len(workers) : workers'[j].url = workers[j].url
    BY <1>3, <1>4
  <2>2. SlashBound'
    BY <1>1, <1>4, <2>1 DEF OrderInv, SlashBound
  <2>3. UniqueWorkerPerLog'
    BY <1>4, <1>7 DEF OrderInv, UniqueWorkerPerLog
  <2>4. QED
    BY <2>2, <2>3
<1>10. Existing'
  BY <1>1, <1>5, <1>6 DEF OrderInv, Existing
<1>11. ChanOrder'
  <2> SUFFICES ASSUME NEW a \in 1..Len(chan'), NEW b \in 1..Len(chan'),
                      a < b, chan'[a].host = chan'[b].host
               PROVE  chan'[a].idx < chan'[b].idx
    BY DEF ChanOrder
  <2>1. CASE b <= Len(chan)
    BY <1>6, <2>1 DEF OrderInv, ChanOrder
  <2>2. CASE b = Len(chan) + 1
    BY <1>5, <1>6, <2>2
  <2>3. QED
    BY <1>6, <2>1, <2>2
<1>12. BcastBeforeChan'
  <2> SUFFICES ASSUME NEW a \in 1..Len(chan'),
                      NEW k \in 1..Len(bcast'[chan'[a].host])
               PROVE  bcast'[chan'[a].host][k] < chan'[a].idx
    BY DEF BcastBeforeChan
  <2>1. CASE a <= Len(chan)
    BY <1>1, <1>6, <2>1 DEF OrderInv, BcastBeforeChan
  <2>2. CASE a = Len(chan) + 1
    BY <1>1, <1>5, <1>6, <2>2
  <2>3. QED
    BY <1>6, <2>1, <2>2
<1>13. ProducerAhead'
  <2> SUFFICES ASSUME NEW j \in 1..Len(workers'),
                      workers'[j].pc \in {"scan", "send"}
               PROVE  /\ workers'[j].pos <= logSize'[HostOf(j)']
                      /\ workers'[j].pc = "send"
                           => workers'[j].pos < logSize'[HostOf(j)']
                      /\ \A k \in 1..Len(bcast'[HostOf(j)']) :
                           bcast'[HostOf(j)'][k] < workers'[j].pos
                      /\ \A a \in 1..Len(chan') :
                           chan'[a].host = HostOf(j)' => chan'[a].idx < workers'[j].pos
    BY DEF ProducerAhead
  <2>1. CASE j = i
    <3>1. HostOf(j)' = h /\ workers'[j] = r
      BY <1>3, <1>4, <2>1 DEF HostOf
    <3>2. \A a \in 1..Len(chan') : chan'[a].host = h => chan'[a].idx < p + 1
      <4> SUFFICES ASSUME NEW a \in 1..Len(chan'), chan'[a].host = h
                   PROVE  chan'[a].idx < p + 1
        OBVIOUS
      <4>1. CASE a <= Len(chan)
        <5>1. chan[a] \in Entry
          BY <1>0, <4>1
        <5>2. chan[a].idx \in Nat
          BY <5>1 DEF Entry
        <5>3. QED
          BY <1>5, <1>6, <1>2, <4>1, <5>2
      <4>2. CASE a = Len(chan) + 1
        BY <1>2, <1>6, <4>2
      <4>3. QED
        BY <1>6, <4>1, <4>2
    <3>3. \A k \in 1..Len(bcast[h]) : bcast[h][k] < p + 1
      BY <1>0, <1>2, <1>5
    <3>4. workers'[j].pos = p + 1 /\ workers'[j].pc = "scan"
      BY <1>3, <3>1
    <3>5. p + 1 <= logSize[h] /\ logSize' = logSize /\ bcast' = bcast
      BY <1>0, <1>1, <1>2, <1>5
    <3>6. QED
      BY <3>1, <3>2, <3>3, <3>4, <3>5
  <2>2. CASE j # i
    <3>1. j \in 1..Len(workers) /\ workers'[j] = workers[j] /\ HostOf(j)' = HostOf(j)
      BY <1>4, <1>7, <2>2
    <3>2. HostOf(j) # h
      BY <1>8, <2>2, <3>1
    <3>3. /\ workers[j].pos <= logSize[HostOf(j)]
          /\ workers[j].pc = "send" => workers[j].pos < logSize[HostOf(j)]
          /\ \A k \in 1..Len(bcast[HostOf(j)]) : bcast[HostOf(j)][k] < workers[j].pos
          /\ \A a \in 1..Len(chan) :
                chan[a].host = HostOf(j) => chan[a].idx < workers[j].pos
      BY <3>1 DEF OrderInv, ProducerAhead
    <3>4. \A a \in 1..Len(chan') :
             chan'[a].host = HostOf(j) => chan'[a].idx < workers[j].pos
      BY <1>6, <3>2, <3>3
    <3>5. QED
      BY <1>1, <3>1, <3>3, <3>4
  <2>3. QED
    BY <2>1, <2>2
<1>14. QED
  BY <1>1, <1>9, <1>10, <1>11, <1>12, <1>13 DEF OrderInv, PerLogOrder

(* The pump broadcasts the head of the channel: it exists, it is beyond    *)
(* everything broadcast for its log, and everything of its log still in   *)
(* the channel or ahead of a worker is beyond it.                          *)
LEMMA PumpReceiveStep ==
    ASSUME OrderInv, TypeOK', PumpReceive
    PROVE  OrderInv'
<1> DEFINE H == Head(chan).host
           x == Head(chan).idx
<1>0. /\ logSize \in [Hosts -> Nat]
      /\ bcast \in [Hosts -> Seq(Nat)]
      /\ chan \in Seq(Entry)
      /\ workers \in Seq(Worker)
  BY DEF OrderInv, TypeOK
<1>1. /\ chan # <<>>
      /\ chan' = Tail(chan)
      /\ bcast' = [bcast EXCEPT ![H] = Append(bcast[H], x)]
      /\ UNCHANGED <<pending, workers, logSize>>
  BY DEF PumpReceive
<1>2. /\ H \in Hosts /\ x \in Nat
      /\ Head(chan) = chan[1] /\ 1 \in 1..Len(chan)
  <2>1. chan[1] \in Entry /\ Head(chan) = chan[1] /\ 1 \in 1..Len(chan)
    BY <1>0, <1>1
  <2>2. QED
    BY <2>1 DEF Entry
<1>3. /\ Len(chan') = Len(chan) - 1
      /\ \A a \in 1..Len(chan') : chan'[a] = chan[a + 1] /\ a + 1 \in 1..Len(chan)
  BY <1>0, <1>1
<1>4. \A a \in 1..Len(chan) :
         chan[a] \in Entry /\ chan[a].host \in Hosts /\ chan[a].idx \in Nat
  <2> SUFFICES ASSUME NEW a \in 1..Len(chan)
               PROVE  chan[a] \in Entry /\ chan[a].host \in Hosts /\ chan[a].idx \in Nat
    OBVIOUS
  <2>1. chan[a] \in Entry
    BY <1>0
  <2>2. QED
    BY <2>1 DEF Entry
<1>5. ASSUME NEW g \in Hosts, NEW k \in 1..Len(bcast'[g])
      PROVE  \/ k \in 1..Len(bcast[g]) /\ bcast'[g][k] = bcast[g][k]
             \/ g = H /\ k = Len(bcast[g]) + 1 /\ bcast'[g][k] = x
  <2>1. CASE g = H
    BY <1>0, <1>1, <1>2, <2>1
  <2>2. CASE g # H
    BY <1>0, <1>1, <1>2, <2>2
  <2>3. QED
    BY <2>1, <2>2
<1>6. /\ x < logSize[H]
      /\ \A k \in 1..Len(bcast[H]) : bcast[H][k] < x
      /\ \A a \in 1..Len(chan) : a > 1 /\ chan[a].host = H => x < chan[a].idx
  BY <1>2 DEF OrderInv, Existing, BcastBeforeChan, ChanOrder
<1>7. \A g \in Hosts : \A k \in 1..Len(bcast[g]) : bcast[g][k] \in Nat
  BY <1>0
<1>8. SlashBound' /\ UniqueWorkerPerLog'
  BY <1>1 DEF OrderInv, SlashBound, UniqueWorkerPerLog, HostOf
<1>9. Existing'
  <2>1. ASSUME NEW g \in Hosts, NEW k \in 1..Len(bcast'[g])
        PROVE  bcast'[g][k] < logSize'[g]
    BY <1>1, <1>5, <1>6 DEF OrderInv, Existing
  <2>2. ASSUME NEW a \in 1..Len(chan')
        PROVE  chan'[a].idx < logSize'[chan'[a].host]
    BY <1>1, <1>3 DEF OrderInv, Existing
  <2>3. QED
    BY <2>1, <2>2 DEF Existing
<1>10. ChanOrder'
  <2> SUFFICES ASSUME NEW a \in 1..Len(chan'), NEW b \in 1..Len(chan'),
                      a < b, chan'[a].host = chan'[b].host
               PROVE  chan'[a].idx < chan'[b].idx
    BY DEF ChanOrder
  <2>1. a + 1 < b + 1
    OBVIOUS
  <2>2. QED
    BY <1>3, <2>1 DEF OrderInv, ChanOrder
<1>11. BcastBeforeChan'
  <2> SUFFICES ASSUME NEW a \in 1..Len(chan'),
                      NEW k \in 1..Len(bcast'[chan'[a].host])
               PROVE  bcast'[chan'[a].host][k] < chan'[a].idx
    BY DEF BcastBeforeChan
  <2>1. chan'[a] = chan[a + 1] /\ a + 1 \in 1..Len(chan) /\ a + 1 > 1
    BY <1>3
  <2>2. chan[a + 1].host \in Hosts /\ chan[a + 1].idx \in Nat
    BY <1>4, <1>2, <2>1
  <2>3. \A j \in 1..Len(bcast[chan[a + 1].host]) :
           bcast[chan[a + 1].host][j] < chan[a + 1].idx
    BY <2>1 DEF OrderInv, BcastBeforeChan
  <2>4. CASE k \in 1..Len(bcast[chan[a + 1].host])
             /\ bcast'[chan[a + 1].host][k] = bcast[chan[a + 1].host][k]
    BY <2>1, <2>3, <2>4
  <2>5. CASE chan[a + 1].host = H
             /\ bcast'[chan[a + 1].host][k] = x
    BY <1>6, <2>1, <2>5
  <2>6. QED
    BY <1>5, <2>1, <2>2, <2>4, <2>5
<1>12. ProducerAhead'
  <2> SUFFICES ASSUME NEW i \in 1..Len(workers'),
                      workers'[i].pc \in {"scan", "send"}
               PROVE  /\ workers'[i].pos <= logSize'[HostOf(i)']
                      /\ workers'[i].pc = "send"
                           => workers'[i].pos < logSize'[HostOf(i)']
                      /\ \A k \in 1..Len(bcast'[HostOf(i)']) :
                           bcast'[HostOf(i)'][k] < workers'[i].pos
                      /\ \A a \in 1..Len(chan') :
                           chan'[a].host = HostOf(i)' => chan'[a].idx < workers'[i].pos
    BY DEF ProducerAhead
  <2> DEFINE g == HostOf(i)
  <2>0. workers' = workers /\ i \in 1..Len(workers) /\ HostOf(i)' = g
    BY <1>1 DEF HostOf
  <2>1. workers[i] \in Worker /\ g \in Hosts
    <3>1. workers[i] \in Worker
      BY <1>0, <2>0
    <3>2. QED
      BY <3>1 DEF Worker, URL, HostOf
  <2>2. /\ workers[i].pos <= logSize[g]
        /\ workers[i].pc = "send" => workers[i].pos < logSize[g]
        /\ \A k \in 1..Len(bcast[g]) : bcast[g][k] < workers[i].pos
        /\ \A a \in 1..Len(chan) : chan[a].host = g => chan[a].idx < workers[i].pos
    BY <2>0 DEF OrderInv, ProducerAhead
  <2>3. g = H => x < workers[i].pos
    BY <1>2, <2>2
  <2>4. \A k \in 1..Len(bcast'[g]) : bcast'[g][k] < workers[i].pos
    BY <1>5, <2>1, <2>2, <2>3
  <2>5. \A a \in 1..Len(chan') : chan'[a].host = g => chan'[a].idx < workers[i].pos
    BY <1>3, <2>2
  <2>6. QED
    BY <1>1, <2>0, <2>2, <2>4, <2>5
<1>13. PerLogOrder'
  <2> SUFFICES ASSUME NEW g \in Hosts, NEW a \in 1..Len(bcast'[g]),
                      NEW b \in 1..Len(bcast'[g]), a < b
               PROVE  bcast'[g][a] < bcast'[g][b]
    BY DEF PerLogOrder
  <2>1. CASE a \in 1..Len(bcast[g]) /\ b \in 1..Len(bcast[g])
    <3>1. bcast'[g][a] = bcast[g][a] /\ bcast'[g][b] = bcast[g][b]
      BY <1>5, <2>1
    <3>2. QED
      BY <2>1, <3>1 DEF OrderInv, PerLogOrder
  <2>2. CASE a \in 1..Len(bcast[g]) /\ b = Len(bcast[g]) + 1
    <3>1. bcast'[g][a] = bcast[g][a] /\ g = H /\ bcast'[g][b] = x
      BY <1>5, <2>2
    <3>2. QED
      BY <1>6, <2>2, <3>1
  <2>3. QED
    <3>1. a \in 1..Len(bcast[g]) \/ a = Len(bcast[g]) + 1
      BY <1>5
    <3>2. b \in 1..Len(bcast[g]) \/ b = Len(bcast[g]) + 1
      BY <1>5
    <3>3. Len(bcast[g]) \in Nat
      BY <1>0
    <3>4. QED
      BY <2>1, <2>2, <3>1, <3>2, <3>3
<1>14. QED
  BY <1>8, <1>9, <1>10, <1>11, <1>12, <1>13 DEF OrderInv

(* A worker step that leaves the worker idle, running, asleep or done and  *)
(* keeps its URL keeps OrderInv.                                           *)
LEMMA WorkerParkStep ==
    ASSUME OrderInv, TypeOK', NEW i \in 1..Len(workers),
           NEW pc \in {"run", "sleep", "done"},
           UpdateW(i, [workers[i] EXCEPT !.pc = pc]),
           UNCHANGED <<pending, logSize, chan, bcast>>
    PROVE  OrderInv'
<1> DEFINE r == [workers[i] EXCEPT !.pc = pc]
<1>1. workers[i] \in Worker
  BY DEF OrderInv, TypeOK
<1>2. r \in Worker /\ r.url = workers[i].url /\ r.pc = pc
  BY <1>1 DEF Worker, WorkerPC
<1>3. workers[i].url.slashes <= 1
  BY DEF OrderInv, SlashBound
<1>4. QED
  BY <1>2, <1>3, WorkerLocalStep

(* Every step keeps OrderInv, when the log lists' URLs end in at most one  *)
(* slash.                                                                  *)
LEMMA OrderStep ==
    ASSUME SlashAssumption
    PROVE  OrderInv /\ [Next]_vars => OrderInv'
<1> SUFFICES ASSUME OrderInv, [Next]_vars PROVE OrderInv'
  OBVIOUS
<1>0. TypeOK'
  BY TypeStep DEF OrderInv
<1>1. CASE Start
  <2>1. SweepFetch /\ UNCHANGED <<workers, logSize, chan, bcast>>
    BY <1>1 DEF Start
  <2>2. QED
    BY <1>0, <2>1, SweepFetchSlashes, PendingStep
<1>2. CASE Tick
  <2>1. SweepFetch /\ UNCHANGED <<workers, logSize, chan, bcast>>
    BY <1>2 DEF Tick
  <2>2. QED
    BY <1>0, <2>1, SweepFetchSlashes, PendingStep
<1>3. CASE SweepItem
  BY <1>0, <1>3, SweepItemStep
<1>4. CASE PumpReceive
  BY <1>0, <1>4, PumpReceiveStep
<1>5. CASE \/ StartResume \/ WaitReturn \/ CloseChan \/ WatcherResume
           \/ WatcherExit \/ Stop \/ StopBeforeStart \/ PumpReceiveClosed
           \/ UNCHANGED vars
  <2>1. UNCHANGED <<pending, workers, logSize, chan, bcast>>
    BY <1>5 DEF StartResume, WaitReturn, CloseChan, WatcherResume,
       WatcherExit, Stop, StopBeforeStart, PumpReceiveClosed, vars
  <2>2. QED
    BY <1>0, <2>1, FrameStep
<1>6. ASSUME NEW h \in Hosts, AppendEntry(h) PROVE OrderInv'
  BY <1>0, <1>6, AppendEntryStep
<1>7. ASSUME NEW i \in 1..Len(workers), SendEntry(i) PROVE OrderInv'
  BY <1>0, <1>7, SendEntryStep
<1>8. ASSUME NEW i \in 1..Len(workers), SendOnClosed(i) PROVE OrderInv'
  <2>1. UNCHANGED <<pending, workers, logSize, chan, bcast>>
    BY <1>8 DEF SendOnClosed
  <2>2. QED
    BY <1>0, <2>1, FrameStep
<1>9. ASSUME NEW i \in 1..Len(workers), ScanCancelled(i) PROVE OrderInv'
  <2>1. UpdateW(i, [workers[i] EXCEPT !.pc = "done"])
        /\ UNCHANGED <<pending, logSize, chan, bcast>>
    BY <1>9 DEF ScanCancelled
  <2>2. QED
    BY <1>0, <2>1, WorkerParkStep
<1>10. ASSUME NEW i \in 1..Len(workers), ScanFail(i) PROVE OrderInv'
  <2>1. UNCHANGED <<pending, logSize, chan, bcast>>
    BY <1>10 DEF ScanFail
  <2>2. \E pc \in {"run", "sleep", "done"} :
           UpdateW(i, [workers[i] EXCEPT !.pc = pc])
    BY <1>10 DEF ScanFail
  <2>3. QED
    BY <1>0, <2>1, <2>2, WorkerParkStep
<1>11. ASSUME NEW i \in 1..Len(workers), StartDownloadingCerts(i)
       PROVE  OrderInv'
  <2> DEFINE w == workers[i]
             r == [w EXCEPT !.url = WorkerNormalize(w.url), !.running = TRUE,
                            !.pc = "run"]
  <2>1. w \in Worker /\ w.url \in URL
    <3>1. w \in Worker
      BY DEF OrderInv, TypeOK
    <3>2. QED
      BY <3>1 DEF Worker
  <2>2. WorkerNormalize(w.url) \in URL
        /\ WorkerNormalize(w.url).host = w.url.host
        /\ WorkerNormalize(w.url).slashes = 0
    BY <2>1, WorkerNormalizeType DEF WorkerNormalize, URL
  <2>3. r \in Worker
    BY <2>1, <2>2, WorkerUpdate
  <2>4. r.url = WorkerNormalize(w.url) /\ r.pc = "run"
    BY <2>1 DEF Worker
  <2>5. UpdateW(i, r) /\ UNCHANGED <<pending, logSize, chan, bcast>>
    BY <1>11 DEF StartDownloadingCerts
  <2>6. r.url.host = workers[i].url.host /\ r.url.slashes <= 1
    BY <2>2, <2>4
  <2>7. r.pc \in {"scan", "send"} =>
               /\ r.pos <= logSize[r.url.host]
               /\ r.pc = "send" => r.pos < logSize[r.url.host]
               /\ \A k \in 1..Len(bcast[r.url.host]) : bcast[r.url.host][k] < r.pos
               /\ \A a \in 1..Len(chan) :
                     chan[a].host = r.url.host => chan[a].idx < r.pos
    BY <2>4
  <2>8. QED
    BY <1>0, <2>3, <2>5, <2>6, <2>7, WorkerLocalStep
<1>12. ASSUME NEW i \in 1..Len(workers), RunWorker(i) PROVE OrderInv'
  <2> DEFINE g == HostOf(i)
             r == [workers[i] EXCEPT !.pc = "scan", !.pos = logSize[g]]
  <2>1. UNCHANGED <<pending, logSize, chan, bcast>>
    BY <1>12 DEF RunWorker
  <2>2. CASE UpdateW(i, [workers[i] EXCEPT !.pc = "done"])
    BY <1>0, <2>1, <2>2, WorkerParkStep
  <2>3. CASE UNCHANGED workers
    BY <1>0, <2>1, <2>3, FrameStep
  <2>4. CASE UpdateW(i, r)
    <3>1. workers[i] \in Worker /\ g \in Hosts
      <4>1. workers[i] \in Worker
        BY DEF OrderInv, TypeOK
      <4>2. QED
        BY <4>1 DEF Worker, URL, HostOf
    <3>2. logSize[g] \in Nat
      BY <3>1 DEF OrderInv, TypeOK
    <3>3. r \in Worker /\ r.url = workers[i].url /\ r.pc = "scan"
          /\ r.pos = logSize[g]
      BY <3>1, <3>2 DEF Worker, WorkerPC
    <3>4. /\ \A k \in 1..Len(bcast[g]) : bcast[g][k] < logSize[g]
          /\ \A a \in 1..Len(chan) : chan[a].host = g => chan[a].idx < logSize[g]
      BY <3>1 DEF OrderInv, Existing
    <3>5. workers[i].url.slashes <= 1
      BY DEF OrderInv, SlashBound
    <3> HIDE DEF r
    <3>6. r.url.host = workers[i].url.host /\ r.url.slashes <= 1 /\ r.url.host = g
      BY <3>3, <3>5 DEF HostOf
    <3>7. r.pc \in {"scan", "send"} =>
               /\ r.pos <= logSize[r.url.host]
               /\ r.pc = "send" => r.pos < logSize[r.url.host]
               /\ \A k \in 1..Len(bcast[r.url.host]) : bcast[r.url.host][k] < r.pos
               /\ \A a \in 1..Len(chan) :
                     chan[a].host = r.url.host => chan[a].idx < r.pos
      BY <3>2, <3>3, <3>4, <3>6
    <3>8. QED
      BY <1>0, <2>1, <2>4, <3>3, <3>6, <3>7, WorkerLocalStep
  <2>5. QED
    BY <1>12, <2>2, <2>3, <2>4 DEF RunWorker
<1>13. ASSUME NEW i \in 1..Len(workers), ScanDeliver(i) PROVE OrderInv'
  <2> DEFINE g == HostOf(i)
             p == workers[i].pos
  <2>1. UNCHANGED <<pending, logSize, chan, bcast>>
    BY <1>13 DEF ScanDeliver
  <2>2. /\ workers[i] \in Worker /\ g \in Hosts /\ p \in Nat
        /\ workers[i].url.slashes <= 1
    <3>1. workers[i] \in Worker
      BY DEF OrderInv, TypeOK
    <3>2. workers[i].url.slashes <= 1
      BY DEF OrderInv, SlashBound
    <3>3. QED
      BY <3>1, <3>2 DEF Worker, URL, HostOf
  <2>3. /\ workers[i].pc = "scan"
        /\ p < logSize[g]
        /\ \A k \in 1..Len(bcast[g]) : bcast[g][k] < p
        /\ \A a \in 1..Len(chan) : chan[a].host = g => chan[a].idx < p
    BY <1>13 DEF ScanDeliver, OrderInv, ProducerAhead
  <2>4. /\ logSize[g] \in Nat
        /\ \A k \in 1..Len(bcast[g]) : bcast[g][k] \in Nat
        /\ \A a \in 1..Len(chan) : chan[a].idx \in Nat
    <3>1. logSize \in [Hosts -> Nat] /\ bcast \in [Hosts -> Seq(Nat)]
          /\ chan \in Seq(Entry)
      BY DEF OrderInv, TypeOK
    <3>2. bcast[g] \in Seq(Nat)
      BY <2>2, <3>1
    <3>3. \A a \in 1..Len(chan) : chan[a] \in Entry
      BY <3>1
    <3>4. QED
      BY <2>2, <3>1, <3>2, <3>3 DEF Entry
  <2>5. CASE UpdateW(i, [workers[i] EXCEPT !.pos = p + 1])
    <3> DEFINE r == [workers[i] EXCEPT !.pos = p + 1]
    <3>1. r \in Worker /\ r.url = workers[i].url /\ r.pc = "scan"
          /\ r.pos = p + 1
      BY <2>2, <2>3 DEF Worker
    <3>0. UpdateW(i, r)
      BY <2>5
    <3> HIDE DEF r
    <3>2. r.url.host = workers[i].url.host /\ r.url.slashes <= 1 /\ r.url.host = g
      BY <2>2, <3>1 DEF HostOf
    <3>3. r.pc \in {"scan", "send"} =>
               /\ r.pos <= logSize[r.url.host]
               /\ r.pc = "send" => r.pos < logSize[r.url.host]
               /\ \A k \in 1..Len(bcast[r.url.host]) : bcast[r.url.host][k] < r.pos
               /\ \A a \in 1..Len(chan) :
                     chan[a].host = r.url.host => chan[a].idx < r.pos
      BY <2>2, <2>3, <2>4, <3>1, <3>2
    <3>4. QED
      BY <1>0, <2>1, <3>0, <3>1, <3>2, <3>3, WorkerLocalStep
  <2>6. ASSUME NEW kd \in Kinds,
               UpdateW(i, [workers[i] EXCEPT !.pc = "send", !.kind = kd])
        PROVE  OrderInv'
    <3> DEFINE r == [workers[i] EXCEPT !.pc = "send", !.kind = kd]
    <3>1. r \in Worker /\ r.url = workers[i].url /\ r.pc = "send"
          /\ r.pos = p
      BY <2>2 DEF Worker, WorkerPC
    <3>0. UpdateW(i, r)
      BY <2>6
    <3> HIDE DEF r
    <3>2. r.url.host = workers[i].url.host /\ r.url.slashes <= 1 /\ r.url.host = g
      BY <2>2, <3>1 DEF HostOf
    <3>3. r.pc \in {"scan", "send"} =>
               /\ r.pos <= logSize[r.url.host]
               /\ r.pc = "send" => r.pos < logSize[r.url.host]
               /\ \A k \in 1..Len(bcast[r.url.host]) : bcast[r.url.host][k] < r.pos
               /\ \A a \in 1..Len(chan) :
                     chan[a].host = r.url.host => chan[a].idx < r.pos
      BY <2>2, <2>3, <2>4, <3>1, <3>2
    <3>4. QED
      BY <1>0, <2>1, <3>0, <3>1, <3>2, <3>3, WorkerLocalStep
  <2>7. QED
    BY <1>13, <2>5, <2>6 DEF ScanDeliver
<1>14. QED
  BY <1>1, <1>2, <1>3, <1>4, <1>5, <1>6, <1>7, <1>8, <1>9, <1>10, <1>11,
     <1>12, <1>13 DEF Next, WorkerStep

(* The initial state satisfies OrderInv: no worker, an empty channel and   *)
(* no broadcast.                                                           *)
LEMMA OrderInit == Init => OrderInv
<1> SUFFICES ASSUME Init PROVE OrderInv
  OBVIOUS
<1>1. TypeOK
  BY TypeInit
<1>2. workers = <<>> /\ pending = <<>> /\ chan = <<>>
      /\ bcast = [h \in Hosts |-> <<>>]
  BY DEF Init
<1>3. QED
  BY <1>1, <1>2 DEF OrderInv, SlashBound, UniqueWorkerPerLog, Existing,
     ChanOrder, BcastBeforeChan, ProducerAhead, PerLogOrder

(* PerLogOrder for every number of logs, log lists, faults, tree sizes and *)
(* channel capacity: each log's broadcast is strictly ascending, provided  *)
(* no URL of the log lists ends in "//".  runWorker's scan from the tree   *)
(* size, the single worker per log, the FIFO channel and the single pump   *)
(* together keep it.                                                       *)
THEOREM PerLogOrdered ==
    ASSUME SlashAssumption
    PROVE  Spec => []PerLogOrder
<1>1. Init => OrderInv
  BY OrderInit
<1>2. OrderInv /\ [Next]_vars => OrderInv'
  BY OrderStep
<1>3. OrderInv => PerLogOrder
  BY DEF OrderInv
<1>4. QED
  BY <1>1, <1>2, <1>3, PTL DEF Spec

(* UniqueWorkerPerLog for every value of the constants: a sweep never      *)
(* spawns a second worker for a log that has one, whether or not that      *)
(* worker has already normalised its ctURL, provided no URL of the log     *)
(* lists ends in "//".                                                     *)
THEOREM UniqueWorkers ==
    ASSUME SlashAssumption
    PROVE  Spec => []UniqueWorkerPerLog
<1>1. OrderInv => UniqueWorkerPerLog
  BY DEF OrderInv
<1>2. QED
  BY <1>1, OrderInit, OrderStep, PTL DEF Spec

-----------------------------------------------------------------------------
(* The refinement of LogStream.                                            *)

(* A step of the core is a step of the per-log stream or leaves the tree   *)
(* sizes and the broadcasts unchanged.                                     *)
LEMMA StreamStep ==
    ASSUME OrderInv, [Next]_vars
    PROVE  [Stream!Next]_<<logSize, bcast>>
<1>0. /\ logSize \in [Hosts -> Nat]
      /\ bcast \in [Hosts -> Seq(Nat)]
      /\ chan \in Seq(Entry)
  BY DEF OrderInv, TypeOK
<1>1. CASE PumpReceive
  <2> DEFINE H == Head(chan).host
             x == Head(chan).idx
  <2>1. chan # <<>> /\ Head(chan) = chan[1] /\ 1 \in 1..Len(chan)
    BY <1>0, <1>1 DEF PumpReceive
  <2>2. H \in Hosts /\ x \in Nat
    <3>1. chan[1] \in Entry
      BY <1>0, <2>1
    <3>2. QED
      BY <2>1, <3>1 DEF Entry
  <2>3. x \in 0..(logSize[H] - 1)
    BY <1>0, <2>1, <2>2 DEF OrderInv, Existing
  <2>4. bcast[H] = <<>> \/ bcast[H][Len(bcast[H])] < x
    <3>1. CASE bcast[H] # <<>>
      <4>1. Len(bcast[H]) \in 1..Len(bcast[H])
        BY <1>0, <2>2, <3>1
      <4>2. QED
        BY <2>1, <4>1 DEF OrderInv, BcastBeforeChan
    <3>2. QED
      BY <3>1
  <2>5. /\ bcast' = [bcast EXCEPT ![H] = Append(bcast[H], x)]
        /\ logSize' = logSize
    BY <1>1 DEF PumpReceive
  <2>6. Stream!Emit(H)
    BY <2>3, <2>4, <2>5 DEF Stream!Emit
  <2>7. QED
    BY <2>2, <2>6 DEF Stream!Next
<1>2. ASSUME NEW h \in Hosts, AppendEntry(h)
      PROVE  [Stream!Next]_<<logSize, bcast>>
  <2>1. Stream!Grow(h)
    BY <1>2 DEF AppendEntry, Stream!Grow
  <2>2. QED
    BY <2>1 DEF Stream!Next
<1>3. CASE ~PumpReceive /\ ~\E h \in Hosts : AppendEntry(h)
  <2>1. UNCHANGED <<logSize, bcast>>
    BY <1>3 DEF Next, vars, Start, SweepItem, StartResume, WaitReturn,
       CloseChan, Tick, WatcherResume, WatcherExit, Stop, StopBeforeStart,
       PumpReceiveClosed, WorkerStep, StartDownloadingCerts, RunWorker,
       UpdateW, ScanDeliver, SendEntry, SendOnClosed, ScanCancelled, ScanFail
  <2>2. QED
    BY <2>1
<1>4. QED
  BY <1>1, <1>2, <1>3

(* StreamRefinement for every value of the constants, provided no URL of  *)
(* the log lists ends in "//": the core implements LogStream, with the     *)
(* logs' tree sizes as its sizes and the pump's broadcasts as its output,  *)
(* so each log's stream holds only entries of the log, ascending.          *)
THEOREM StreamRefined ==
    ASSUME SlashAssumption
    PROVE  Spec => StreamRefinement
<1>1. Init => Stream!Init
  <2> SUFFICES ASSUME Init PROVE Stream!Init
    OBVIOUS
  <2>1. logSize \in [Hosts -> Nat]
    BY DEF Init
  <2>2. QED
    BY <2>1 DEF Init, Stream!Init
<1>2. OrderInv /\ [Next]_vars => [Stream!Next]_<<logSize, bcast>>
  BY StreamStep
<1>3. Spec => []OrderInv
  BY OrderInit, OrderStep, PTL DEF Spec
<1>4. QED
  BY <1>1, <1>2, <1>3, PTL DEF Spec, StreamRefinement, Stream!Spec, Stream!vars

=============================================================================
