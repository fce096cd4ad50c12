------------------------------ MODULE CTCatalog -----------------------------
(***************************************************************************)
(* The CA-owner catalog: DownloadAndParseCSV of ct-watcher.go, one step    *)
(* per blocking call (client.Get, time.Sleep, reader.Read), and the        *)
(* assignment CAOwners, _ = DownloadAndParseCSV(ccadbURL, 18, 0, true) of  *)
(* addNewlyAvailableLogs.                                                  *)
(*                                                                         *)
(* A CSV body is a sequence of rows and how the reader ends after them     *)
(* (io.EOF or an error).  A row has a field count, the key cell (base64    *)
(* text, given by what StdEncoding.DecodeString returns for it: the bytes  *)
(* decoded before the first corrupt quantum) and the owner name.           *)
(***************************************************************************)
EXTENDS CTParser

CONSTANTS
    Bodies,        \* the CSV bodies the CCADB URL may serve
    MaxRefreshes   \* bound on the sweeps that refresh the catalog

ASSUME CatalogAssumption == MaxRefreshes \in Nat

VARIABLES
    cpc,        \* where the refresh is: idle, get, backoff, read
    attempt,    \* the retry loop's attempt counter
    body,       \* the CSV body being read
    row,        \* the index of the next row reader.Read returns
    result,     \* the map being built
    caOwners,   \* the package variable CAOwners: a map, or Nil
    openBodies, \* HTTP response bodies nobody has closed
    loaded,     \* history: the body the current CAOwners was built from
    refreshes   \* sweeps that have refreshed the catalog

catalogVars == <<cpc, attempt, body, row, result, caOwners, openBodies, loaded,
                 refreshes>>

MaxRetries    == 3
KeyColIndex   == 18
ValueColIndex == 0

(* The key of a data row: base64-decode, hex-encode, lowercase.            *)
RowKey(r) == FormatKeyIDShort(r.key.decoded)

EmptyMap == [k \in {} |-> "unknown"]
EmptyBody == [rows |-> <<>>, tail |-> "eof"]

(* Every body, the empty one included, is a sequence of rows and not the    *)
(* nil sentinel.                                                           *)
ASSUME BodiesAssumption ==
    \A b \in Bodies \cup {EmptyBody} : b # Nil /\ b.rows \in Seq(ToSet(b.rows))

(* A key cell decodes to a byte slice: base64.StdEncoding.DecodeString     *)
(* returns []byte.                                                         *)
ASSUME KeyBytesAssumption ==
    \A b \in Bodies : \A i \in 1..Len(b.rows) :
        b.rows[i].key.decoded \in Seq(0..255)

CatalogInit ==
    /\ cpc = "idle"
    /\ attempt = 0
    /\ body = EmptyBody
    /\ row = 1
    /\ result = EmptyMap
    /\ caOwners = EmptyMap
    /\ openBodies = 0
    /\ loaded = EmptyBody
    /\ refreshes = 0

(* The return of DownloadAndParseCSV and its assignment to CAOwners; a     *)
(* failure returns nil.  The deferred resp.Body.Close runs once the body   *)
(* was opened by a successful Get.                                         *)
Finish(m) ==
    /\ caOwners' = m
    /\ loaded' = IF m = Nil THEN loaded ELSE body
    /\ cpc' = "idle"

(* Mutant: the sweep drops the old map before downloading the new one.   *)
StartRefreshClears ==
    /\ cpc = "idle"
    /\ refreshes < MaxRefreshes
    /\ cpc' = "get"
    /\ attempt' = 1
    /\ result' = EmptyMap
    /\ refreshes' = refreshes + 1
    /\ caOwners' = Nil
    /\ UNCHANGED <<body, row, openBodies, loaded>>

(* A sweep calls DownloadAndParseCSV.                                      *)
StartRefresh ==
    /\ cpc = "idle"
    /\ refreshes < MaxRefreshes
    /\ cpc' = "get"
    /\ attempt' = 1
    /\ result' = EmptyMap
    /\ refreshes' = refreshes + 1
    /\ UNCHANGED <<body, row, caOwners, openBodies, loaded>>

(* client.Get answers 200: leave the retry loop and start the reader.      *)
GetOK ==
    /\ cpc = "get"
    /\ \E b \in Bodies : body' = b
    /\ row' = 1
    /\ cpc' = "read"
    /\ openBodies' = openBodies + 1
    /\ UNCHANGED <<attempt, result, caOwners, loaded, refreshes>>

(* Mutant: the last attempt also sleeps and retries.                       *)
GetFailOffByOne ==
    /\ cpc = "get"
    /\ \E gotResponse \in BOOLEAN :
          \/ /\ attempt <= MaxRetries
             /\ cpc' = "backoff"
             /\ UNCHANGED <<caOwners, loaded, openBodies>>
          \/ /\ attempt = MaxRetries
             /\ Finish(Nil)
             /\ openBodies' = openBodies + (IF gotResponse THEN 1 ELSE 0)
    /\ UNCHANGED <<attempt, body, row, result, refreshes>>

(* client.Get fails (err, no body) or answers another status (a body).    *)
(* Before the last attempt a non-200 body is closed and the loop sleeps;   *)
(* on the last attempt the error is returned and that body is left open.   *)
GetFail ==
    /\ cpc = "get"
    /\ \E gotResponse \in BOOLEAN :
          \/ /\ attempt < MaxRetries
             /\ cpc' = "backoff"
             /\ UNCHANGED <<caOwners, loaded, openBodies>>
          \/ /\ attempt = MaxRetries
             /\ Finish(Nil)
             /\ openBodies' = openBodies + (IF gotResponse THEN 1 ELSE 0)
    /\ UNCHANGED <<attempt, body, row, result, refreshes>>

(* Mutant: the loop sleeps without counting the attempt.                  *)
BackoffNoIncrement ==
    /\ cpc = "backoff"
    /\ cpc' = "get"
    /\ UNCHANGED <<attempt, body, row, result, caOwners, openBodies, loaded,
                   refreshes>>

(* time.Sleep(retryDelay); retryDelay *= 2; attempt++.                     *)
Backoff ==
    /\ cpc = "backoff"
    /\ attempt' = attempt + 1
    /\ cpc' = "get"
    /\ UNCHANGED <<body, row, result, caOwners, openBodies, loaded, refreshes>>

(* The first reader.Read: an empty or failing body, or a key or value      *)
(* column out of range, returns an error; otherwise the header is skipped. *)
ReadFirstRow ==
    /\ cpc = "read"
    /\ row = 1
    /\ LET headerOK == /\ body.rows # <<>>
                       /\ body.rows[1].width > KeyColIndex
                       /\ body.rows[1].width > ValueColIndex
       IN  \/ /\ ~headerOK
              /\ Finish(Nil)
              /\ openBodies' = openBodies - 1
              /\ UNCHANGED row
           \/ /\ headerOK
              /\ row' = 2
              /\ UNCHANGED <<cpc, caOwners, loaded, openBodies>>
    /\ UNCHANGED <<attempt, body, result, refreshes>>

(* A later reader.Read: io.EOF returns the map, a read error or a record   *)
(* whose field count differs from the first row's (csv.ErrFieldCount)      *)
(* returns an error, and a record is inserted under its hex key.           *)
ReadRowEOF ==
    /\ cpc = "read"
    /\ row > Len(body.rows)
    /\ row > 1
    /\ Finish(IF body.tail = "eof" THEN result ELSE Nil)
    /\ openBodies' = openBodies - 1
    /\ UNCHANGED <<attempt, body, row, result, refreshes>>

ReadRowFieldCount ==
    /\ cpc = "read"
    /\ 1 < row /\ row <= Len(body.rows)
    /\ body.rows[row].width # body.rows[1].width
    /\ Finish(Nil)
    /\ openBodies' = openBodies - 1
    /\ UNCHANGED <<attempt, body, row, result, refreshes>>

(* Mutant: a key already in the map keeps its first owner.                *)
ReadRowInsertKeepFirst ==
    /\ cpc = "read"
    /\ 1 < row /\ row <= Len(body.rows)
    /\ body.rows[row].width = body.rows[1].width
    /\ LET key == RowKey(body.rows[row])
       IN  result' = IF key \in DOMAIN result THEN result
                     ELSE [k \in DOMAIN result \cup {key} |->
                              IF k = key THEN body.rows[row].owner ELSE result[k]]
    /\ row' = row + 1
    /\ UNCHANGED <<cpc, attempt, body, caOwners, openBodies, loaded, refreshes>>

ReadRowInsert ==
    /\ cpc = "read"
    /\ 1 < row /\ row <= Len(body.rows)
    /\ body.rows[row].width = body.rows[1].width
    /\ LET key == RowKey(body.rows[row])
       IN  result' = [k \in DOMAIN result \cup {key} |->
                         IF k = key THEN body.rows[row].owner ELSE result[k]]
    /\ row' = row + 1
    /\ UNCHANGED <<cpc, attempt, body, caOwners, openBodies, loaded, refreshes>>

CatalogNext ==
    \/ StartRefresh
    \/ GetOK
    \/ GetFail
    \/ Backoff
    \/ ReadFirstRow
    \/ ReadRowEOF
    \/ ReadRowFieldCount
    \/ ReadRowInsert

(* Every step of the refresh is a blocking call that returns (the client   *)
(* has a 30 s timeout, the reader reads a finite body).                    *)
CatalogFairness ==
    /\ WF_catalogVars(GetOK \/ GetFail)
    /\ WF_catalogVars(Backoff)
    /\ WF_catalogVars(ReadFirstRow)
    /\ WF_catalogVars(ReadRowEOF \/ ReadRowFieldCount \/ ReadRowInsert)

=============================================================================
