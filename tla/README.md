# TLA+ models of the CT ingestion core

This directory holds TLA+ models of `src/internal/certificatetransparency`:
the concurrent part of `ct-watcher.go`, the CA-owner catalog download
(`DownloadAndParseCSV`), and the certificate parser of `ct-parser.go` composed
with it. It also holds the TLC configurations that check them, and TLAPS proofs
of the watcher's main safety properties.

## 1. The system and its parts

The core has six parts (spec section 2). Their interactions are:

```
 getAllLogs ──► Watcher Supervisor ──spawns──► Log Worker × N ──► fan-in channel ──► Broadcast Pump ──► web / metrics
                   │   ▲ (Start, Stop)            │ (parser, reads CAOwners)                         (external)
                   │   └── watchNewLogs (6 h ticker, re-sweeps)
                   └── DownloadAndParseCSV ──► CAOwners (shared map)
```

| Part | Code | State | Operations |
|---|---|---|---|
| Watcher Supervisor | `Watcher.Start`, `Stop`, `addNewlyAvailableLogs` | `workers`, `wg`, `context`/`cancelFunc`, `certChan` | Start (sweep, spawn pump and watcher, `wg.Wait`, `close`), Stop, one sweep |
| Rediscovery goroutine | `watchNewLogs` | ticker | tick → sweep; `ctx.Done` → return |
| Log Worker | `startDownloadingCerts`, `runWorker`, `found*Callback` | `ctURL`, `running`, scanner position | normalise URL, STH, StartIndex override, scan, parse, send, failure classification, sleep and restart |
| Broadcast Pump | `certHandler` | `processed` counter | receive, example every 1000th, broadcast |
| Log Directory Client | `getAllLogs` | none | fetch log list (error, or `log.Panic` on a body read error) |
| CA-Owner Catalog | `DownloadAndParseCSV`, global `CAOwners` | the map | 3 tries with backoff, parse CSV, replace the map |
| Certificate Parser | `ct-parser.go` | none (reads `CAOwners`) | pure functions of one certificate |

The hard behaviours of this code are the following:
- goroutines interleave: the supervisor, the ticker goroutine, one goroutine per
  worker (the scanner's callbacks run on it) and the pump;
- the send into the buffered channel blocks when the channel is full;
- a Go `select` may pick the tick even after cancellation;
- the worker set can drain without `Stop`, and `Start` then closes the channel;
- a receive on a closed channel returns zero values;
- the sweep reads `worker.ctURL` while the worker goroutine rewrites it;
- a failed download replaces the shared catalog;
- transient errors sleep and restart the scan at the then current tree size.

## 2. Modules

| Module | Models | Kind |
|---|---|---|
| `CTWatcher` | supervisor, ticker goroutine, workers, pump, log list and catalog outcomes | specification |
| `MC_CTWatcher` | small constants for TLC (two hosts, two log lists) | model |
| `CTWatcherProofs` | `TypeCorrect`, `NoSendOnClosed`, and the lemmas they rest on | proofs |
| `LogStream` | what the pump promises per log: entries that exist in the log, in strictly ascending index order | abstract specification |
| `CTWatcherOrderProofs` | `PerLogOrdered`, `UniqueWorkers`, `StreamRefined`: the inductive invariant `OrderInv` and one lemma per kind of step | proofs |
| `CTWatcherScanProofs` | `NoRewindHolds`: the scan-position bound `PosBound` and the action property `NoRewind` | proofs |
| `CTParser` | `parseCertstreamEntry`, `parseData`, `parseCertificateChain`, `leafCertFromX509cert` and their helpers, as operators | operators |
| `CTCatalog` | `DownloadAndParseCSV` step by step, and the assignment to `CAOwners` | specification |
| `CatalogStore` | what the catalog promises its readers: `CAOwners` changes only when a refresh returns, at once, to a whole catalog or nil | abstract specification |
| `CTEnrichment` | the catalog refresh interleaved with the callbacks' parses; the spec's reference definitions and the properties | specification |
| `MC_CTEnrichment` | DNS names, subjects, OIDs, raw entries and CSV bodies for TLC | model |
| `CTEnrichmentProofs` | `CatalogCorrect`, `OwnerFromCatalog`, `HashesCorrect`, `EnrichmentTypeCorrect`, `StoreRefined`, `KeyFormatInjective`: the invariants `CatalogInv`, `ParseInv` and `BoundsInv`, and lemmas on the key formatting | proofs |

### How `CTWatcher` corresponds to the code

**Data abstraction.**
- A URL is a record `[host, scheme, slashes]`. The two normalisations (`normalizeCtlogURL` with `TrimSuffix`, and the worker's `TrimRight` plus the `https://` prefix) are written as what they do to it.
- A StartIndex element is `[sub, hasIndex, idx]`. `strings.Contains(url, element)` is true only for an element without a space whose `sub` names the log (`Contains`).
- An entry is `[host, idx]`: the log and its tree index.
- The shared `CAOwners` map is `"empty" | "ccadb" | "nil"`.

**Variables.**
- `supervisor`: the program counter of the `Start` goroutine (`init`, `sweep`, `wait`, `closing`, `returned`).
- `watcher`: the program counter of `watchNewLogs`.
- `cancelled`: the context.
- `pending`: the rest of the log list being swept.
- `workers`: `w.workers`. Each worker holds its `ctURL`, `running`, a pc (`idle`, `run`, `scan`, `send`, `sleep`, `done`), its scan position and the kind of the entry it holds.
- `logSize`: each CT log's tree size.
- `chan` and `closed`: the fan-in channel.
- `pump`, `processed`, `example`, `bcast`: the pump's state, and the broadcast entries per log.
- `panicked`: the panic, if any, that ended the process.
- `sweeps` and `errors`: counters that bound the ticker and the failures.

**Actions.** Each action is one handler or one step between two blocking points:
- `Start`: `Start` up to its initial sweep's fetches.
- `SweepItem`: one log of the sweep loop, including `wg.Add` and the spawn.
- `StartResume`: the `go` statements.
- `WaitReturn` and `CloseChan`: `wg.Wait` and `close`.
- `Tick`, `WatcherResume`, `WatcherExit`: the ticker goroutine.
- `Stop`, and `StopBeforeStart` for the nil `cancelFunc`.
- `StartDownloadingCerts`.
- `RunWorker`: GetSTH, the StartIndex loop and the scan start.
- `ScanDeliver`: a delivery and its parse.
- `SendEntry`, and `SendOnClosed` when the channel is closed.
- `ScanFail`: the failure classification and the sleep.
- `ScanCancelled`.
- `PumpReceive`, and `PumpReceiveClosed` when the channel is closed and empty.
- `AppendEntry`: the environment; a log grows.

**Faults.** The constant `Faults` enables the failures a run may take:
- `csv`: a catalog download failure;
- `list` or `listread`: a log list failure, or the `log.Panic`;
- `sth`: an STH failure;
- `dns`: a DNS failure;
- `transient`: a transient scan error;
- `parse`: a parse error;
- `early_stop`: Stop before Start.

`MaxSweeps`, `MaxErrors` and `MaxIndex` bound the ticks, the failures and the growth of the logs.

**Fairness** (`FairSpec`). Every goroutine the code starts keeps being scheduled:
- weak fairness on the supervisor's steps, on the ticker goroutine's resume and exit, and on the pump's receive;
- weak fairness on each worker's non-failure steps.

Go's scheduler gives this to runnable goroutines. `Stop`, the growth of the logs, the ticker and every fault are the environment, and get no fairness.

### How `CTParser`, `CTCatalog` and `CTEnrichment` correspond to the code

**Data abstraction.**
- A string is a sequence of one-character strings. This lets the model state
  `strings.Contains` (`StrContains`), fmt's `%d` of `[]asn1.ObjectIdentifier`
  (`PercentD`, which prints `[[2 23 140 1 2 1]]`), the dotted OID literals
  (`Dotted`), `hex.EncodeToString` and `strings.ToLower` by what they do.
  `HexEncode` is written as Go's `hex.Encode` loop: byte `i` gives the table
  characters of its high and low nibble at positions `2i-1` and `2i`.
- `psl.EffectiveTLDPlusOne` and `net.ParseIP` are library oracles, given as the
  constants `RegDomainOf`, `PSLError` and `IPLiterals`. The MC module fills them
  with what the real list answers for its names (`com` is a public suffix).
- A certificate is `[dnsNames, subject, isCA, policies, authorityKeyId, raw]`.
  The subject maps attribute types (`CN`, `O`, `jurisdictionC`) to values.
  Hashes are opaque: `<<"sha1", bytes>>`.
- A raw entry has its `kind` (`x509`, `precert`, or `undecodable` when
  `ToLogEntry` fails), the certificate, the submitted DER of a precert, and the
  chain, whose elements say whether `x509.ParseCertificate` accepts them.
- A CSV row has its field count, its key cell (given by the bytes
  `base64.StdEncoding.DecodeString` returns for it: those before the first
  corrupt quantum, possibly none) and the owner. A body is its rows and how the
  reader ends after them (`eof` or `error`).

**Parser.** `LeafCertFromX509` assembles the leaf from one operator per block of
`leafCertFromX509cert`: the SAN loop guard `ScansSANs` (CN non-empty and not a
CA), `WildcardCount`, `RegDomainSlice`, `AllDomains` (the CN appended when the
loop did not meet it), `DedupSeen` (the `seenRegDomain` loop), `ValidationType`,
`CertType`, and `CAOwnerOf` (the `CAOwners` lookup, keyed on
`FormatKeyIDShort`). `ParseCertstreamEntry` is `parseData` with the callback's
`update_type`: an undecodable entry or a chain element that does not parse
drops the entry, and a precert has its hashes recomputed (`LeafOfEntry`).

**Catalog.** The variables are the refresh's pc (`idle`, `get`, `backoff`,
`read`), `attempt`, the `body` and next `row`, the `result` map, `CAOwners`, the
response bodies left open, and the history variable `loaded` (the body the
current map was built from). One action per blocking call:
- `StartRefresh`: the sweep calls `DownloadAndParseCSV`;
- `GetOK`: `client.Get` answers 200;
- `GetFail`: an error or another status; before the last attempt the body is
  closed, and on the last the error is returned with the body left open;
- `Backoff`: `time.Sleep`, and the next attempt;
- `ReadFirstRow`: the first `reader.Read` and the column-index checks, then the
  header is skipped;
- `ReadRowEOF`, `ReadRowFieldCount`, `ReadRowInsert`: a later `reader.Read`
  (EOF returns the map; a read error or `csv.ErrFieldCount` returns nil; a
  record is inserted under its hex key, a later row replacing an earlier one).
Each return assigns `CAOwners` (`Finish`), nil on an error.

**Composition.** In `CTEnrichment`, `Parse` is a worker callback: it parses one
raw entry against the map `CAOwners` holds at that step. It records the entry,
the event, and the body that map came from (`atParse`).

**Fairness** (`FairSpec`). Weak fairness on every step of a refresh in
progress. Each is a blocking call that returns: the client has a 30 s timeout,
and the reader reads a finite body. Parses and new refreshes get none.

## 3. Runs

Every run uses two hosts, two log lists, channel capacity 1, `ExampleEvery` 2, one tick and one failure. These bounds are enough for the cases that matter:
- two logs give two workers, and a duplicate log spelling;
- capacity 1 makes a send block on a full channel;
- two sweeps give a late sweep after the close;
- `MaxIndex` 2 lets a log grow during a sleep.

| Run | Expect | Properties | Shows |
|---|---|---|---|
| `safety` | pass (742k states) | `TypeOK`, `PerLogOrder`, `UniqueWorkerPerLog`, `NoSendOnClosedChannel`, `StreamRefinement`, `NoRewind` | With catalog failures, transient errors and parse drops, the channel is bounded, each log is broadcast in ascending order, one worker per log, and no send on the closed channel. The core also implements `LogStream` (see below). No worker ever moves its scan position back, across a transient error, the sleep and the restart (an action property). |
| `liveness` | pass | `StopLeadsToClose`, `SentEventuallyBroadcast` | Under the fairness above, Stop leads to the close, and every sent entry is broadcast. |
| `faults` | pass (177k states), deadlock not checked (a panic stops the process) | `StopLeadsToExit` | With every fault enabled, all four panics are reached. Under the fairness above, Stop still leads to the close unless the process has died of a panic. This covers workers ended for good by a failed STH or a DNS error, sweeps whose log list failed, a close that `wg.Wait` allowed before Stop, and workers that a tick after Stop spawns. |
| `close_without_stop` | violation | `NoSendOnClosedChannel` | All workers fail their STH, `wg.Wait` returns without Stop, and the next sweep's worker panics on the closed channel. |
| `pump_after_close` | violation | `NoPhantomBroadcast` | After the close, `certHandler` broadcasts zero entries forever. |
| `catalog_wiped` | violation | `CatalogKeptOnFailure` | A failed CCADB download sets `CAOwners` to nil. |
| `duplicate_worker` | violation | `UniqueWorkerPerLog` | Both sweeps list the log as `https://h1//`. Compared before the first worker's `TrimRight`, both sides normalise to `h1/` and no worker is added. Compared after it, `h1/` meets `h1`, and a second worker is spawned. |
| `start_index_ignored` | violation | `StartIndexHonoured` | A `"<log> <idx>"` override is never applied. |

The parser and catalog runs use `MC_CTEnrichment`. Their bounds:
- two refreshes over six CSV bodies: a duplicated key, a read error, a row of
  another width, a header narrower than column 18, and an empty failing body;
- 24 raw entries: x509, precert and undecodable kinds; a good and an unparsable
  chain; SANs with a wildcard, an IP literal, a public suffix and a
  non-adjacent repeated registrable domain.

These are enough for every branch of `DownloadAndParseCSV`, a parse on either
side of each assignment of `CAOwners`, and each branch of the SAN loop.

| Run | Expect | Properties | Shows |
|---|---|---|---|
| `catalog` | pass (18k states) | `TypeOK`, `CatalogAsCSV`, `CaOwnerFromCatalog`, `RegDomainsFirstOccurrence`, `HashesOverSubmittedDER`, `RefreshTerminates`, `StoreRefinement` | The map is the spec's catalog of the body it came from (last row wins); every owner a parse reports is the one that catalog gives, even during a refresh; reg domains are de-duplicated in first-occurrence order; hashes are over the submitted DER of a precert; every refresh returns; the refresh implements `CatalogStore` (see below). |
| `classification` | violation | `ValidationTypeAsSpec` | `validation_type` is not derived as spec 4.2 says. TLC's trace is a leaf with a DV policy OID and an Organization: it is typed OV, because `%d` never contains the dotted OID. The run also reaches a jurisdictionCountry subject that is not EV, since the aggregated JSON holds values, not OIDs. `cert_type` and `all_reg_domains` are not part of the property: the code computes them only in the SAN loop of a non-CA leaf with a CN, which is what 4.2 prescribes. |
| `empty_aki_owner` | violation | `NoAKIMeansUnknown` | A cert without AKI gets the owner of a CSV row with an empty SKI cell. |
| `body_leak` | violation | `NoLeakedResponseBody` | A non-200 answer on the last attempt leaves its body unclosed. |

Each property of a passing run has a mutant in `PROJECT.json`: a plausible bug of the mapped code that TLC must catch.
- `SendEntryNoBackpressure`: no blocking on a full channel.
- `RunWorkerFromZero`: restarting from index 0 (breaks `PerLogOrder` and `NoRewind`).
- `SweepItemRawCompare`: comparing raw URLs.
- `RunWorkerIgnoresCancel`: not observing ctx.
- `RunWorkerRetriesSTH`: retrying a failed STH after the sleep instead of ending the worker (breaks `StopLeadsToClose` and `StopLeadsToExit`).
- `PumpReceiveExampleOnly`: storing the example instead of broadcasting.
- `GetFailOffByOne`: retrying after the last attempt.
- `ReadRowInsertKeepFirst`: keeping the first owner of a duplicated key.
- `CAOwnerOfColonKey`: looking up the `keyid:xx:xx` form.
- `DedupAdjacent`: removing only adjacent duplicates.
- `LeafOfEntryNoRecalc`: not recomputing a precert's hashes.
- `BackoffNoIncrement`: sleeping without counting the attempt.
- `ScanDeliverOffByOne`: the scanner delivers the index equal to the tree size, an entry that does not exist yet.
- `StartRefreshClears`: the sweep sets `CAOwners` to nil before downloading (breaks `StoreRefinement` at the first step).

### The refinement of `LogStream`

`LogStream` states, for each log, what a subscriber may rely on. It has:
- a tree size `size[h]`;
- the broadcast sequence `out[h]`.

It has two steps:
- `Grow(h)`: the log gets one more entry;
- `Emit(h)`: an existing index beyond the last one of `out[h]` is appended.

Entries may be skipped. The worker starts at the tree size and restarts there after an error, so the promise is about order and existence only.

`CTWatcher` implements it under the mapping `size <- logSize, out <- bcast`:
- `PumpReceive` is `Emit` of the head entry's log;
- `AppendEntry` is `Grow`;
- every other step leaves both unchanged.

`StreamRefinement` (`Stream!Spec`) is checked as a `PROPERTY` of the `safety` run and proved as `StreamRefined`.

### The refinement of `CatalogStore`

`CatalogStore` states what a parser reading `CAOwners` may rely on. It has:
- the map `owners`;
- a flag `refreshing`.

It has two steps:
- `Begin`: a refresh starts, and `owners` is unchanged;
- `Complete`: the refresh returns, and `owners` becomes one of `Catalogs` or nil.

`CTEnrichment` implements it under this mapping:
- `owners <- caOwners`;
- `refreshing <- cpc # "idle"`;
- `Catalogs <- {RefCatalog(b) : b \in Bodies}`;
- `Initial <- EmptyMap`.

Under the mapping:
- `StartRefresh` is `Begin`;
- every `Finish` (the last failed attempt, a bad header, a read error, a field-count error, io.EOF) is `Complete`;
- every other step, the parses included, leaves the store unchanged.

So no parse ever reads a half-built map. `StoreRefinement` (`Store!StoreSpec`) is checked as a `PROPERTY` of the `catalog` run and proved as `StoreRefined`.

## 4. Proofs (checked by `tlapm`)

Four modules hold proofs:
- `CTWatcherProofs`;
- `CTWatcherOrderProofs`;
- `CTWatcherScanProofs`;
- `CTEnrichmentProofs`.

**Assumptions.** Three assumptions on the constants are used:
- `ConstantsAssumption`, in `CTWatcher`: non-empty hosts, well-typed sets, and positive capacity and `ExampleEvery`.
- `BodiesAssumption`, in `CTCatalog`: every CSV body, the empty one included, has a sequence of rows and is not the `Nil` sentinel.
- `KeyBytesAssumption`, in `CTCatalog`: a row's key cell decodes to a sequence of bytes (`0..255`), as the `[]byte` of `DecodeString` is. Only `EnrichmentTypeCorrect` needs it.

TLC evaluates both on every run.

### `TypeCorrect`: `Spec => []TypeOK`

`TypeOK` is inductive by itself:
- `TypeInit` proves that the initial state is typed;
- `TypeStep` proves one case per action;
- the lemmas `UpdateWorkerType`, `WorkerUpdate`, `WorkerNormalizeType`, `NewWorkerType` and `SweepFetchType` cover the record updates.

The bound `Len(chan) <= ChanCap` is part of `TypeOK`. It rests on the guard of the blocking send.

### `NoSendOnClosed`: `Spec => []NoSendOnClosedChannel`

This holds under `NoDrainAssumption`: every log list is non-empty, and none of the faults `list`, `listread`, `sth`, `dns` is enabled. The `close_without_stop` run shows that the property fails without this assumption.

The property alone is not inductive. The proof goes through `SendSafeInv`, which adds:
- the channel is closed only when the supervisor has returned;
- once the supervisor is closing, `Stop` has happened and no worker is past `runWorker`'s ctx check (pc `idle`, `run` or `done`);
- before `Stop`, no worker has returned;
- the first sweep leaves at least one worker, and the worker set stays non-empty afterwards;
- the ticker goroutine runs only after `Start` has resumed.

The argument is this:
- `wg.Wait` returns only with every worker done (lemma `WaitGroupDrained`, from `FS_EmptySet`);
- some worker exists, and none returns before Stop, so Stop has happened;
- a worker spawned later passes `runWorker` only to return, because ctx is cancelled.

`WorkerOwnStep` covers, once for all worker actions, every step that rewrites a single worker record.

### `PerLogOrdered`, `UniqueWorkers` and `StreamRefined` (`CTWatcherOrderProofs`)

These three theorems hold under `SlashAssumption`: no URL of any log list ends in more than one slash, as in the published list. The assumption is a hypothesis of each theorem, not an `ASSUME`. Without it a log can get a second worker: the `duplicate_worker` run shows this, and two scanners of one log break the order.

Neither `PerLogOrder` nor `UniqueWorkerPerLog` is inductive alone. Both follow from `OrderInv`, which adds:
- `SlashBound`: the pending list and every worker URL have at most one trailing slash, so two URLs of one log normalise equally in the sweep, whichever spelling the worker holds;
- `Existing`: every index broadcast or in the channel is below its log's tree size;
- `ChanOrder`: the channel is ascending per log;
- `BcastBeforeChan`: everything in the channel is beyond everything already broadcast for its log;
- `ProducerAhead`: a scanning or sending worker is at or below its tree size (strictly below when sending), and beyond every index of its log in the channel or the broadcast.

`OrderStep` proves one case per action. The lemmas cover the cases as follows:
- `FrameStep`: steps that leave the workers, logs, channel and broadcasts alone;
- `PendingStep` with `SweepFetchSlashes`: a new log list;
- `WorkerLocalStep` and `WorkerParkStep`: a worker rewriting its own record, such as the scan start at the tree size or a delivery;
- `SweepItemStep`: a spawn, which needs `SlashBound` and the lemma `NormalizeSameLog` (two URLs with at most one trailing slash normalise equally exactly when they name the same log);
- `SendEntryStep`: the send, which needs `UniqueWorkerPerLog` and `ProducerAhead`;
- `PumpReceiveStep`: the broadcast, which needs `BcastBeforeChan` and `ChanOrder`;
- `AppendEntryStep`: the log growing.

`StreamStep` maps each step to `LogStream`. `Existing` and `BcastBeforeChan` give `Emit`'s guard for the head of the channel.

### `NoRewindHolds`: `Spec => NoRewind` (`CTWatcherScanProofs`)

`NoRewind` is an action property: no step decreases a worker's `pos`. It holds for every value of the constants and needs no assumption on the log lists.

The only step that could rewind is `RunWorker` when it restarts a worker from `sleep` at the tree size. The proof goes through `ScanInv`, which is `TypeOK` plus `PosBound`:
- every worker is at or below the tree size of its log;
- a worker in `send` is strictly below it.

`PosBound` holds because:
- a new worker starts at 0;
- a worker advances only past an existing entry;
- a worker restarts exactly at the tree size;
- tree sizes only grow.

The lemmas are:
- `WorkerPosStep`, for a worker rewriting its own record;
- `WorkerParkPos`, `AppendEntryPos` and `SweepItemPos`;
- `WorkerStepPos`, with one case per worker action.

`ScanStep` gives both `ScanInv'` and the step of `NoRewind`. The theorem then follows by PTL.

### `CatalogCorrect`, `OwnerFromCatalog` and `HashesCorrect` (`CTEnrichmentProofs`)

These hold for every set of CSV bodies and raw entries.

`CatalogAsCSV` is not inductive: `ReadRowEOF` installs `result`, so the invariant must say what `result` holds during the row loop. `CatalogInv` adds `CatalogTypeOK` and `ResultInv`:
- in the retry loop, `result` is the empty map;
- at reader row `r`, `r` is at most `Len(rows) + 1`;
- at reader row `r`, `CatalogUpTo(body, r - 1, result)` holds: `result` is a function on the keys of data rows `2..r-1`, and each key maps to the owner of a row that is the last with that key (`IsLastRow`).

The lemmas carry the argument:
- `InsertRow`: `ReadRowInsert` turns the catalog of rows `2..n` into that of `2..n+1`.
- `LastRowUnique`: the last row with a key is unique.
- `WholeCatalog`: with `LastRowUnique`, the catalog of all rows is `RefCatalog`, whose `CHOOSE` then picks that row.
- `NoDataNoOwners`: an empty map is the catalog before the first data row.

`CatalogStep` has one case per catalog action, and `Parse` leaves the catalog alone.

For the parses, `ParseInv` states that the last event is `ParseCertstreamEntry` of the input against `OwnersAt(atParse)`, which is nil or the catalog of the body read. A parse reads `CAOwners`, and `CatalogAsCSV` makes that map `RefCatalog(loaded)`.

Two lemmas give the leaf's fields:
- `LeafFields`: the owner looked up and the three hashes, through the `EXCEPT` of a precert;
- `EventLeaf`: the event's leaf.

`OwnerFromCatalog` and `HashesCorrect` follow from these.

### `StoreRefined`: `Spec => StoreRefinement` (`CTEnrichmentProofs`)

`StoreStep` maps each step to `Begin`, to `Complete`, or to a stutter of `<<caOwners, cpc # "idle">>`. Only `ReadRowEOF` needs an invariant. The lemma `EOFCatalog` uses `CatalogInv` to show that the map it returns at io.EOF is `RefCatalog(body)`, of a served body: the reader is past row 1, so the body is not the initial empty one.

### `EnrichmentTypeCorrect`: `Spec => []TypeOK` (`CTEnrichmentProofs`)

`TypeOK` is not inductive. `BoundsInv` adds the two facts its counters need:
- the retry loop sleeps only before its last attempt (`cpc = "backoff" => attempt < MaxRetries`), so `Backoff` never passes `MaxRetries`;
- the reader holds a body it has not closed (`cpc = "read" => openBodies >= 1`), so closing never makes the count negative.

`BoundsStep` has one case per action. Each catalog case carries `Next`'s `UNCHANGED <<input, event, atParse>>`.

The key-type conjunct comes from `CatalogInv`: `CAOwners` is nil or `RefCatalog(loaded)`. The lemmas on the key formatting give its keys:
- `HexCharFacts`: the table is the 16 characters `0-9a-f`.
- `HexEncodeType`: both nibbles of a byte index the table.
- `ToLowerHex`: `strings.ToLower` leaves a lowercase hex character alone.
- `FormatKeyIDShortType`.
- `CatalogKeysHex`.

### `KeyFormatInjective` (`CTEnrichmentProofs`)

`formatKeyIDShort` is injective on byte slices: two different key identifiers never share a catalog key. Its lemmas are:
- `HexEncodeAt`: byte `i` is written at positions `2i-1` and `2i`;
- `HexCharInjective`: the table has no repeated character;
- `NibblesDetermineByte`: a byte is determined by its nibbles.

These proofs need no induction because `HexEncode` is written as the direct loop of `hex.Encode`, not as a `FlattenSeq` of pairs.

### Only model-checked

- Liveness (`StopLeadsToClose`, `StopLeadsToExit`, `SentEventuallyBroadcast`) needs fairness and `ENABLED`, which TLAPS does not handle.
- Nothing is proved for log lists that hold a `//` URL, because both properties then fail. `duplicate_worker` shows the second worker. With the same lists `PerLogOrder` fails as well: the two workers of one log interleave their scans, and TLC finds this within seconds. That run is not registered, since its root cause is the one `duplicate_worker` records.
- `RegDomainsFirstOccurrence`. `DedupSeen` is a `FoldLeft` over the SANs, and relating it to the spec's first-occurrence definition is induction over the sequence. The installed provers cannot do this: the library's induction theorems take an operator parameter, and instantiating `NatInduction` with a local predicate fails here.

The catalog proofs need no induction. They use only that `RowKey` is a function of the row, together with the direct form of `HexEncode`.
- `RefreshTerminates` is liveness.

## 5. Not modelled, and the plan

- **Parser fields without effect on the properties**: extensions, issuer, serial
  number, key type, signature-algorithm and key-usage names, validity times and
  `as_der`. They are formatting of one certificate. Hashes, DER and base64 stay
  abstract: TLC cannot compute SHA-1.
- The **data race** on `CAOwners` (written by the sweep, read by parsers) is modelled as an atomic swap. Go's memory model gives a racy read no guarantee, which a model cannot represent faithfully.
- The **web layer, metrics and configuration** are outside `src/` and are the environment.
