------------------------- MODULE CTEnrichmentProofs -------------------------
(***************************************************************************)
(* Proofs about the catalog refresh and the parses that read CAOwners.    *)
(* CatalogAsCSV is not inductive: a step of the row loop needs to know     *)
(* what the map being built holds.  CatalogInv says that, while the reader *)
(* is at row r, the map is the catalog of the data rows 2..r-1 (each key   *)
(* mapped to the owner of its last row there); ParseInv says that the last *)
(* event is what the parser returns for the catalog CAOwners held then.    *)
(***************************************************************************)
EXTENDS CTEnrichment, SequenceTheorems, TLAPS

(* The types the catalog proofs need.                                      *)
CatalogTypeOK ==
    /\ cpc \in {"idle", "get", "backoff", "read"}
    /\ body \in Bodies \cup {EmptyBody}
    /\ loaded \in Bodies \cup {EmptyBody}
    /\ row \in Nat

(* r is the catalog of the data rows 2..n of b: a function on their keys   *)
(* that gives each key the owner of its last row.                          *)
CatalogUpTo(b, n, r) ==
    /\ r = [k \in RowKeys(b, n) |-> r[k]]
    /\ \A k \in RowKeys(b, n) :
          \E i \in 2..n : IsLastRow(b, n, k, i) /\ r[k] = b.rows[i].owner

(* The row loop's insertion of key with value v into the map r.            *)
Inserted(r, key, v) == [k \in DOMAIN r \cup {key} |-> IF k = key THEN v ELSE r[k]]

(* The map DownloadAndParseCSV is building: empty in the retry loop, and   *)
(* at row r of the reader the catalog of the data rows 2..r-1.             *)
ResultInv ==
    /\ cpc \in {"get", "backoff"} => result = EmptyMap
    /\ cpc = "read" =>
         /\ row \in 1..(Len(body.rows) + 1)
         /\ CatalogUpTo(body, row - 1, result)

CatalogInv == CatalogTypeOK /\ ResultInv /\ CatalogAsCSV

(* The map a parse read: nil, or the catalog of the body it was built from. *)
OwnersAt(b) == IF b = Nil THEN Nil ELSE RefCatalog(b)

(* The last event is the parser's answer for the map it read.              *)
ParseInv ==
    /\ event # Nil => event = ParseCertstreamEntry(input, OwnersAt(atParse))
    /\ atParse # Nil => RefCatalog(atParse) # Nil

(* The bounds of TypeOK that CatalogInv does not give, with what keeps    *)
(* them: the retry loop sleeps only before its last attempt, and the       *)
(* reader holds a body it has not closed.                                  *)
BoundsInv ==
    /\ attempt \in 0..MaxRetries
    /\ row \in 1..(Len(body.rows) + 1)
    /\ openBodies \in Nat
    /\ refreshes \in 0..MaxRefreshes
    /\ input \in RawEntries \cup {Nil}
    /\ atParse \in Bodies \cup {EmptyBody, Nil}
    /\ cpc = "backoff" => attempt < MaxRetries
    /\ cpc = "read" => openBodies >= 1

-----------------------------------------------------------------------------
(* Lemmas about the reference catalog.                                     *)

(* Two rows that are both the last of rows 2..n with key k are one row.    *)
LEMMA LastRowUnique ==
    ASSUME NEW b, NEW n \in Nat, NEW k, NEW i, NEW j,
           IsLastRow(b, n, k, i), IsLastRow(b, n, k, j)
    PROVE  i = j
BY DEF IsLastRow

(* Before the first data row there are no keys.                            *)
LEMMA NoKeysBeforeData ==
    ASSUME NEW b, NEW n \in Int, n <= 1
    PROVE  RowKeys(b, n) = {}
BY DEF RowKeys

(* Inserting row n+1 into the catalog of rows 2..n gives the catalog of    *)
(* rows 2..n+1: its key now maps to its owner, the others keep theirs.     *)
LEMMA InsertRow ==
    ASSUME NEW b, NEW n \in Nat, n >= 1, NEW r, CatalogUpTo(b, n, r)
    PROVE  CatalogUpTo(b, n + 1,
                       Inserted(r, RowKey(b.rows[n + 1]), b.rows[n + 1].owner))
<1> DEFINE key == RowKey(b.rows[n + 1])
           r2 == Inserted(r, key, b.rows[n + 1].owner)
<1>0. /\ r = [x \in RowKeys(b, n) |-> r[x]]
      /\ \A x \in RowKeys(b, n) :
            \E i \in 2..n : IsLastRow(b, n, x, i) /\ r[x] = b.rows[i].owner
      /\ r2 = [x \in DOMAIN r \cup {key} |->
                IF x = key THEN b.rows[n + 1].owner ELSE r[x]]
  BY DEF CatalogUpTo, Inserted
<1>1. DOMAIN r = RowKeys(b, n)
  BY <1>0
<1>2. RowKeys(b, n + 1) = RowKeys(b, n) \cup {key}
  BY DEF RowKeys
<1>3. r2 = [x \in RowKeys(b, n + 1) |-> r2[x]]
  BY <1>0, <1>1, <1>2
<1>4. ASSUME NEW x \in RowKeys(b, n + 1)
      PROVE  \E i \in 2..(n + 1) :
                IsLastRow(b, n + 1, x, i) /\ r2[x] = b.rows[i].owner
  <2>1. CASE x = key
    <3>1. IsLastRow(b, n + 1, x, n + 1)
      BY <2>1 DEF IsLastRow
    <3>2. r2[x] = b.rows[n + 1].owner
      BY <2>1, <1>0, <1>2
    <3>3. n + 1 \in 2..(n + 1)
      OBVIOUS
    <3>4. QED
      BY <3>1, <3>2, <3>3
  <2>2. CASE x # key
    <3>1. x \in RowKeys(b, n)
      BY <2>2, <1>2
    <3>2. PICK i \in 2..n : IsLastRow(b, n, x, i) /\ r[x] = b.rows[i].owner
      BY <3>1, <1>0
    <3>3. IsLastRow(b, n + 1, x, i)
      BY <3>2, <2>2 DEF IsLastRow
    <3>4. r2[x] = r[x]
      BY <2>2, <1>0, <1>1, <3>1
    <3>5. i \in 2..(n + 1)
      BY <3>2
    <3>6. QED
      BY <3>2, <3>3, <3>4, <3>5
  <2>3. QED
    BY <2>1, <2>2
<1>5. QED
  BY <1>3, <1>4 DEF CatalogUpTo

(* A map that is the catalog of all the data rows is RefCatalog.           *)
LEMMA WholeCatalog ==
    ASSUME NEW b, NEW r, Len(b.rows) \in Nat, CatalogUpTo(b, Len(b.rows), r)
    PROVE  r = RefCatalog(b)
<1> DEFINE L == Len(b.rows)
<1>0. /\ r = [x \in RowKeys(b, L) |-> r[x]]
      /\ \A x \in RowKeys(b, L) :
            \E i \in 2..L : IsLastRow(b, L, x, i) /\ r[x] = b.rows[i].owner
  BY DEF CatalogUpTo
<1>1. ASSUME NEW x \in RowKeys(b, L)
      PROVE  r[x] = b.rows[CHOOSE i \in 2..L : IsLastRow(b, L, x, i)].owner
  <2>1. PICK i \in 2..L : IsLastRow(b, L, x, i) /\ r[x] = b.rows[i].owner
    BY <1>0
  <2> DEFINE c == CHOOSE j \in 2..L : IsLastRow(b, L, x, j)
  <2>2. c \in 2..L /\ IsLastRow(b, L, x, c)
    BY <2>1
  <2>3. c = i
    BY <2>1, <2>2, LastRowUnique
  <2>4. QED
    BY <2>1, <2>3
<1>2. QED
  BY <1>0, <1>1 DEF RefCatalog

-----------------------------------------------------------------------------
(* Lemmas about the key formatting: hex.EncodeToString and strings.ToLower *)
(* give lowercase hex text for every byte slice.                           *)

(* The characters of the hex table.                                       *)
HexDigitSet == {"0", "1", "2", "3", "4", "5", "6", "7", "8", "9",
                "a", "b", "c", "d", "e", "f"}

LEMMA HexCharFacts ==
    /\ HexChar \in Seq(HexDigitSet)
    /\ Len(HexChar) = 16
    /\ ToSet(HexChar) = HexDigitSet
<1> DEFINE lower == <<"a", "b", "c", "d", "e", "f">>
<1>1. DigitChar \in [1..10 -> HexDigitSet] /\ Len(DigitChar) = 10
  BY DEF DigitChar, HexDigitSet
<1>2. lower \in [1..6 -> HexDigitSet] /\ Len(lower) = 6
  BY DEF HexDigitSet
<1>3. DigitChar \in Seq(HexDigitSet) /\ lower \in Seq(HexDigitSet)
  <2>1. DigitChar \in Seq(HexDigitSet)
    BY <1>1, SeqDef
  <2>2. lower \in Seq(HexDigitSet)
    BY <1>2, SeqDef
  <2>3. QED
    BY <2>1, <2>2
<1>4. /\ DigitChar \o lower \in Seq(HexDigitSet)
      /\ Len(DigitChar \o lower) = Len(DigitChar) + Len(lower)
  BY <1>3, ConcatProperties, Zenon
<1>5. HexChar \in Seq(HexDigitSet) /\ Len(HexChar) = 16
  BY <1>1, <1>2, <1>4 DEF HexChar
<1>6. \A k \in 1..16 : HexChar[k] = <<"0", "1", "2", "3", "4", "5", "6", "7",
                                      "8", "9", "a", "b", "c", "d", "e", "f">>[k]
  BY DEF HexChar, DigitChar
<1>7. DOMAIN HexChar = 1..16
  BY <1>5
<1>8. QED
  BY <1>5, <1>6, <1>7 DEF ToSet, HexDigitSet

(* Both characters of a byte index the 16-character table.                 *)
LEMMA HexEncodeType ==
    ASSUME NEW bytes \in Seq(0..255)
    PROVE  HexEncode(bytes) \in Seq(HexDigitSet)
<1>1. Len(bytes) \in Nat
  OBVIOUS
<1>2. ASSUME NEW j \in 1..(2 * Len(bytes))
      PROVE  (j + 1) \div 2 \in 1..Len(bytes)
  BY <1>1
<1>3. ASSUME NEW j \in 1..(2 * Len(bytes))
      PROVE  bytes[(j + 1) \div 2] \in 0..255
  BY <1>2, ElementOfSeq
<1>4. ASSUME NEW v \in 0..255
      PROVE  /\ (v \div 16) + 1 \in 1..16
             /\ (v % 16) + 1 \in 1..16
  OBVIOUS
<1>5. \A k \in 1..16 : HexChar[k] \in HexDigitSet
  BY HexCharFacts, ElementOfSeq
<1>6. \A j \in 1..(2 * Len(bytes)) : HexEncode(bytes)[j] \in HexDigitSet
  BY <1>3, <1>4, <1>5 DEF HexEncode
<1>7. QED
  BY <1>1, <1>6, IsASeq DEF HexEncode

(* strings.ToLower leaves a lowercase hex character as it is.             *)
LEMMA ToLowerHex ==
    ASSUME NEW c \in HexDigitSet
    PROVE  ToLowerChar(c) = c
<1>1. ~\E k \in 1..6 : <<"A", "B", "C", "D", "E", "F">>[k] = c
  BY DEF HexDigitSet
<1>2. QED
  BY <1>1 DEF ToLowerChar

(* formatKeyIDShort returns lowercase hex text for every byte slice.      *)
LEMMA FormatKeyIDShortType ==
    ASSUME NEW bytes \in Seq(0..255)
    PROVE  FormatKeyIDShort(bytes) \in Seq(ToSet(HexChar))
<1>1. HexEncode(bytes) \in Seq(HexDigitSet)
  BY HexEncodeType
<1>2. FormatKeyIDShort(bytes) = HexEncode(bytes)
  BY <1>1, ToLowerHex DEF FormatKeyIDShort
<1>3. QED
  BY <1>1, <1>2, HexCharFacts

(* Byte i of the input is written at positions 2i-1 and 2i.               *)
LEMMA HexEncodeAt ==
    ASSUME NEW bytes \in Seq(0..255), NEW i \in 1..Len(bytes)
    PROVE  /\ HexEncode(bytes)[2 * i - 1] = HexChar[(bytes[i] \div 16) + 1]
           /\ HexEncode(bytes)[2 * i] = HexChar[(bytes[i] % 16) + 1]
<1>1. /\ 2 * i - 1 \in 1..(2 * Len(bytes)) /\ 2 * i \in 1..(2 * Len(bytes))
      /\ (2 * i - 1 + 1) \div 2 = i /\ (2 * i + 1) \div 2 = i
      /\ (2 * i - 1) % 2 = 1 /\ (2 * i) % 2 = 0
  OBVIOUS
<1>2. HexEncode(bytes)[2 * i - 1] = HexChar[(bytes[i] \div 16) + 1]
  BY <1>1 DEF HexEncode
<1>3. HexEncode(bytes)[2 * i] = HexChar[(bytes[i] % 16) + 1]
  BY <1>1 DEF HexEncode
<1>4. QED
  BY <1>2, <1>3

(* The table has no repeated character.                                   *)
LEMMA HexCharInjective ==
    \A k, l \in 1..16 : HexChar[k] = HexChar[l] => k = l
<1>1. \A k \in 1..16 : HexChar[k] = <<"0", "1", "2", "3", "4", "5", "6", "7",
                                      "8", "9", "a", "b", "c", "d", "e", "f">>[k]
  BY DEF HexChar, DigitChar
<1>2. QED
  BY <1>1

(* A byte is its two nibbles: the characters hex.Encode writes for it.     *)
LEMMA NibblesDetermineByte ==
    ASSUME NEW v \in 0..255, NEW w \in 0..255,
           HexChar[(v \div 16) + 1] = HexChar[(w \div 16) + 1],
           HexChar[(v % 16) + 1] = HexChar[(w % 16) + 1]
    PROVE  v = w
<1>1. /\ (v \div 16) + 1 \in 1..16 /\ (w \div 16) + 1 \in 1..16
      /\ (v % 16) + 1 \in 1..16 /\ (w % 16) + 1 \in 1..16
  OBVIOUS
<1>2. v \div 16 = w \div 16 /\ v % 16 = w % 16
  BY <1>1, HexCharInjective
<1>3. QED
  BY <1>2

(* The keys of a catalog are hex text.                                     *)
LEMMA CatalogKeysHex ==
    ASSUME NEW b \in Bodies \cup {EmptyBody}
    PROVE  DOMAIN RefCatalog(b) \subseteq Seq(ToSet(HexChar))
<1>1. ASSUME NEW i \in 2..Len(b.rows)
      PROVE  b.rows[i].key.decoded \in Seq(0..255)
  <2>1. b \in Bodies
    BY <1>1 DEF EmptyBody
  <2>2. QED
    BY <1>1, <2>1, KeyBytesAssumption
<1>2. \A i \in 2..Len(b.rows) : RowKey(b.rows[i]) \in Seq(ToSet(HexChar))
  BY <1>1, FormatKeyIDShortType DEF RowKey
<1>3. QED
  BY <1>2 DEF RefCatalog, RowKeys

(* formatKeyIDShort is injective: two different key identifiers never     *)
(* share a catalog key, so a certificate's AKI finds the owner of exactly  *)
(* the CCADB rows whose decoded key equals it.                             *)
THEOREM KeyFormatInjective ==
    ASSUME NEW a \in Seq(0..255), NEW b \in Seq(0..255),
           FormatKeyIDShort(a) = FormatKeyIDShort(b)
    PROVE  a = b
<1>1. FormatKeyIDShort(a) = HexEncode(a) /\ FormatKeyIDShort(b) = HexEncode(b)
  BY HexEncodeType, ToLowerHex DEF FormatKeyIDShort
<1>2. HexEncode(a) = HexEncode(b)
  BY <1>1
<1>3. Len(a) = Len(b)
  <2>1. DOMAIN HexEncode(a) = 1..(2 * Len(a))
        /\ DOMAIN HexEncode(b) = 1..(2 * Len(b))
    BY DEF HexEncode
  <2>2. QED
    BY <1>2, <2>1
<1>4. ASSUME NEW i \in 1..Len(a)
      PROVE  a[i] = b[i]
  <2>1. /\ HexEncode(a)[2 * i - 1] = HexChar[(a[i] \div 16) + 1]
        /\ HexEncode(a)[2 * i] = HexChar[(a[i] % 16) + 1]
        /\ HexEncode(b)[2 * i - 1] = HexChar[(b[i] \div 16) + 1]
        /\ HexEncode(b)[2 * i] = HexChar[(b[i] % 16) + 1]
    BY <1>3, HexEncodeAt
  <2>2. a[i] \in 0..255 /\ b[i] \in 0..255
    BY <1>3, ElementOfSeq
  <2>3. QED
    BY <1>2, <2>1, <2>2, NibblesDetermineByte
<1>5. QED
  BY <1>3, <1>4, SeqEqual

-----------------------------------------------------------------------------
(* The catalog invariant.                                                  *)

(* What BodiesAssumption gives for one body.                               *)
LEMMA BodyFacts ==
    ASSUME NEW b \in Bodies \cup {EmptyBody}
    PROVE  b # Nil /\ Len(b.rows) \in Nat
<1>1. b # Nil /\ b.rows \in Seq(ToSet(b.rows))
  BY BodiesAssumption
<1>2. QED
  BY <1>1

(* The catalog of a body without data rows is the empty map.               *)
LEMMA NoDataNoOwners ==
    ASSUME NEW b, NEW n \in Int, n <= 1
    PROVE  CatalogUpTo(b, n, EmptyMap)
BY NoKeysBeforeData DEF CatalogUpTo, EmptyMap

LEMMA CatalogInitInv == Init => CatalogInv
<1> SUFFICES ASSUME Init PROVE CatalogInv
  OBVIOUS
<1>1. CatalogTypeOK
  BY DEF Init, CatalogInit, CatalogTypeOK
<1>2. ResultInv
  BY DEF Init, CatalogInit, ResultInv
<1>3. RowKeys(EmptyBody, Len(EmptyBody.rows)) = {}
  BY NoKeysBeforeData DEF EmptyBody
<1>4. RefCatalog(EmptyBody) = EmptyMap
  BY <1>3 DEF RefCatalog, EmptyMap
<1>5. CatalogAsCSV
  BY <1>4 DEF Init, CatalogInit, CatalogAsCSV
<1>6. QED
  BY <1>1, <1>2, <1>5 DEF CatalogInv

(* Every step keeps CatalogInv: one step per action of the refresh.       *)
LEMMA CatalogStep == CatalogInv /\ [Next]_vars => CatalogInv'
<1> SUFFICES ASSUME CatalogInv, [Next]_vars PROVE CatalogInv'
  OBVIOUS
<1>0. /\ CatalogTypeOK /\ ResultInv /\ CatalogAsCSV
      /\ Len(body.rows) \in Nat
  BY BodyFacts DEF CatalogInv, CatalogTypeOK
<1>1. CASE StartRefresh
  BY <1>0, <1>1 DEF StartRefresh, CatalogInv, CatalogTypeOK, ResultInv,
                    CatalogAsCSV
<1>2. CASE GetOK
  <2>1. PICK b \in Bodies : body' = b
    BY <1>2 DEF GetOK
  <2>2. Len(b.rows) \in Nat
    BY BodyFacts
  <2>3. result = EmptyMap
    BY <1>0, <1>2 DEF GetOK, ResultInv
  <2>4. CatalogUpTo(b, 0, EmptyMap)
    BY NoDataNoOwners
  <2>5. ResultInv'
    BY <1>2, <2>1, <2>2, <2>3, <2>4 DEF GetOK, ResultInv
  <2>6. QED
    BY <1>0, <1>2, <2>1, <2>5 DEF GetOK, CatalogInv, CatalogTypeOK,
                                  CatalogAsCSV
<1>3. CASE GetFail
  BY <1>0, <1>3 DEF GetFail, Finish, CatalogInv, CatalogTypeOK, ResultInv,
                    CatalogAsCSV
<1>4. CASE Backoff
  BY <1>0, <1>4 DEF Backoff, CatalogInv, CatalogTypeOK, ResultInv,
                    CatalogAsCSV
<1>5. CASE ReadFirstRow
  <2> DEFINE headerOK == /\ body.rows # <<>>
                         /\ body.rows[1].width > KeyColIndex
                         /\ body.rows[1].width > ValueColIndex
  <2>1. CASE ~headerOK
    BY <1>0, <1>5, <2>1 DEF ReadFirstRow, Finish, CatalogInv, CatalogTypeOK,
                            ResultInv, CatalogAsCSV
  <2>2. CASE headerOK
    <3>1. row' = 2 /\ row = 1 /\ cpc' = "read" /\ cpc = "read"
          /\ UNCHANGED <<body, result, caOwners, loaded>>
      BY <1>5, <2>2 DEF ReadFirstRow
    <3>2. Len(body.rows) >= 1
      BY <1>0, <2>2, BodyFacts DEF CatalogTypeOK
    <3>3. result = EmptyMap
      BY <1>0, <3>1, NoKeysBeforeData DEF ResultInv, CatalogUpTo, EmptyMap
    <3>4. ResultInv'
      BY <1>0, <3>1, <3>2, <3>3, NoDataNoOwners DEF ResultInv
    <3>5. QED
      BY <1>0, <3>1, <3>4 DEF CatalogInv, CatalogTypeOK, CatalogAsCSV
  <2>3. QED
    BY <2>1, <2>2
<1>6. CASE ReadRowEOF
  <2>1. row - 1 = Len(body.rows) /\ cpc = "read"
    BY <1>0, <1>6 DEF ReadRowEOF, ResultInv
  <2>2. CatalogTypeOK' /\ ResultInv'
    BY <1>0, <1>6 DEF ReadRowEOF, Finish, CatalogTypeOK, ResultInv
  <2>3. CASE body.tail = "eof" /\ result # Nil
    <3>1. caOwners' = result /\ loaded' = body
      BY <1>6, <2>3 DEF ReadRowEOF, Finish
    <3>2. result = RefCatalog(body)
      BY <1>0, <2>1, WholeCatalog DEF ResultInv
    <3>3. QED
      BY <2>2, <3>1, <3>2 DEF CatalogInv, CatalogAsCSV
  <2>4. CASE ~(body.tail = "eof" /\ result # Nil)
    <3>1. caOwners' = Nil
      BY <1>6, <2>4 DEF ReadRowEOF, Finish
    <3>2. QED
      BY <2>2, <3>1 DEF CatalogInv, CatalogAsCSV
  <2>5. QED
    BY <2>3, <2>4
<1>7. CASE ReadRowFieldCount
  BY <1>0, <1>7 DEF ReadRowFieldCount, Finish, CatalogInv, CatalogTypeOK,
                    ResultInv, CatalogAsCSV
<1>8. CASE ReadRowInsert
  <2> DEFINE n == row - 1
  <2>1. /\ cpc = "read" /\ 1 < row /\ row <= Len(body.rows)
        /\ row' = row + 1
        /\ UNCHANGED <<cpc, body, caOwners, loaded>>
    BY <1>8 DEF ReadRowInsert
  <2>2. n \in Nat /\ n >= 1 /\ n + 1 = row /\ row' - 1 = n + 1
    BY <1>0, <2>1 DEF CatalogTypeOK
  <2>3. result' = Inserted(result, RowKey(body.rows[n + 1]),
                            body.rows[n + 1].owner)
    BY <1>8, <2>2 DEF ReadRowInsert, Inserted
  <2>4. CatalogUpTo(body, n, result)
    BY <1>0, <2>1 DEF ResultInv
  <2>5. CatalogUpTo(body, n + 1, result')
    <3> HIDE DEF n
    <3> QED
      BY <2>2, <2>3, <2>4, InsertRow
  <2>6. ResultInv'
    BY <2>1, <2>2, <2>5 DEF ResultInv
  <2>7. QED
    BY <1>0, <2>1, <2>2, <2>6 DEF CatalogInv, CatalogTypeOK, CatalogAsCSV
<1>9. CASE Parse
  BY <1>0, <1>9 DEF Parse, catalogVars, CatalogInv, CatalogTypeOK, ResultInv,
                    CatalogAsCSV
<1>10. CASE UNCHANGED vars
  BY <1>0, <1>10 DEF vars, catalogVars, CatalogInv, CatalogTypeOK, ResultInv,
                     CatalogAsCSV
<1>11. QED
  BY <1>1, <1>2, <1>3, <1>4, <1>5, <1>6, <1>7, <1>8, <1>9, <1>10
     DEF Next, CatalogNext

(* CAOwners holds a map exactly when it is RefCatalog(loaded).              *)
THEOREM CatalogCorrect == Spec => []CatalogAsCSV
<1>1. CatalogInv => CatalogAsCSV
  BY DEF CatalogInv
<1>2. QED
  BY <1>1, CatalogInitInv, CatalogStep, PTL DEF Spec

-----------------------------------------------------------------------------
(* The refinement of CatalogStore.  Each step of the refresh begins it,    *)
(* returns it, or leaves both CAOwners and whether it runs alone.          *)

LEMMA StoreInitStep == Init => Store!StoreInit
BY DEF Init, CatalogInit, Store!StoreInit

(* The map the reader returns at io.EOF is the catalog of a served body.   *)
LEMMA EOFCatalog ==
    ASSUME CatalogInv, cpc = "read", row > Len(body.rows), row > 1
    PROVE  result \in {RefCatalog(b) : b \in Bodies}
<1>1. Len(body.rows) \in Nat /\ body \in Bodies \cup {EmptyBody}
  BY BodyFacts DEF CatalogInv, CatalogTypeOK
<1>2. row \in 1..(Len(body.rows) + 1) /\ CatalogUpTo(body, row - 1, result)
  BY DEF CatalogInv, ResultInv
<1>3. row - 1 = Len(body.rows) /\ Len(body.rows) >= 1
  BY <1>1, <1>2
<1>4. body \in Bodies
  BY <1>1, <1>3 DEF EmptyBody
<1>5. result = RefCatalog(body)
  BY <1>1, <1>2, <1>3, WholeCatalog
<1>6. QED
  BY <1>4, <1>5

(* Every step maps to a step of CatalogStore or leaves its state alone.    *)
LEMMA StoreStep ==
    CatalogInv /\ [Next]_vars => [Store!StoreNext]_Store!storeVars
<1> SUFFICES ASSUME CatalogInv, [Next]_vars
             PROVE  [Store!StoreNext]_Store!storeVars
  OBVIOUS
<1> DEFINE stutter == UNCHANGED <<caOwners>> /\ (cpc # "idle") = (cpc' # "idle")
<1>0. stutter => UNCHANGED Store!storeVars
  BY DEF Store!storeVars
<1>1. CASE StartRefresh
  BY <1>1 DEF StartRefresh, Store!StoreNext, Store!Begin
<1>2. CASE GetOK
  BY <1>0, <1>2 DEF GetOK
<1>3. CASE GetFail
  <2>1. CASE cpc' = "backoff"
    <3>1. cpc = "get" /\ cpc' = "backoff" /\ caOwners' = caOwners
      BY <1>3, <2>1 DEF GetFail, Finish
    <3>2. QED
      BY <1>0, <3>1
  <2>2. CASE cpc' # "backoff"
    <3>1. cpc = "get" /\ cpc' = "idle" /\ caOwners' = Nil
      BY <1>3, <2>2 DEF GetFail, Finish
    <3>2. QED
      BY <3>1 DEF Store!StoreNext, Store!Complete
  <2>3. QED
    BY <2>1, <2>2
<1>4. CASE Backoff
  BY <1>0, <1>4 DEF Backoff
<1>5. CASE ReadFirstRow
  <2>1. CASE cpc' = "read"
    <3>1. cpc = "read" /\ cpc' = "read" /\ caOwners' = caOwners
      BY <1>5, <2>1 DEF ReadFirstRow, Finish
    <3>2. QED
      BY <1>0, <3>1
  <2>2. CASE cpc' # "read"
    <3>1. cpc = "read" /\ cpc' = "idle" /\ caOwners' = Nil
      BY <1>5, <2>2 DEF ReadFirstRow, Finish
    <3>2. QED
      BY <3>1 DEF Store!StoreNext, Store!Complete
  <2>3. QED
    BY <2>1, <2>2
<1>6. CASE ReadRowEOF
  <2>1. /\ cpc = "read" /\ row > Len(body.rows) /\ row > 1 /\ cpc' = "idle"
        /\ caOwners' = IF body.tail = "eof" THEN result ELSE Nil
    BY <1>6 DEF ReadRowEOF, Finish
  <2>2. result \in {RefCatalog(b) : b \in Bodies}
    BY <2>1, EOFCatalog
  <2>3. caOwners' \in {RefCatalog(b) : b \in Bodies} \cup {Nil}
    BY <2>1, <2>2
  <2>4. QED
    BY <2>1, <2>3 DEF Store!StoreNext, Store!Complete
<1>7. CASE ReadRowFieldCount
  BY <1>7 DEF ReadRowFieldCount, Finish, Store!StoreNext, Store!Complete
<1>8. CASE ReadRowInsert
  BY <1>0, <1>8 DEF ReadRowInsert
<1>9. CASE Parse
  BY <1>0, <1>9 DEF Parse, catalogVars
<1>10. CASE UNCHANGED vars
  BY <1>0, <1>10 DEF vars, catalogVars
<1>11. QED
  BY <1>1, <1>2, <1>3, <1>4, <1>5, <1>6, <1>7, <1>8, <1>9, <1>10
     DEF Next, CatalogNext

(* The catalog refresh implements CatalogStore: through the retries, the   *)
(* header check and the row loop of DownloadAndParseCSV, CAOwners keeps    *)
(* the previous map, and the assignment of the return value replaces it    *)
(* at once with the whole catalog of a served body, or with nil.           *)
THEOREM StoreRefined == Spec => StoreRefinement
<1>1. Spec => []CatalogInv
  BY CatalogInitInv, CatalogStep, PTL DEF Spec
<1>2. QED
  BY <1>1, StoreInitStep, StoreStep, PTL DEF Spec, StoreRefinement, Store!StoreSpec

-----------------------------------------------------------------------------
(* The type of the composed state.                                         *)

LEMMA BoundsInit == Init => BoundsInv
BY CatalogAssumption DEF Init, CatalogInit, BoundsInv, EmptyBody, MaxRetries

(* Every step keeps the counters in range: one step per action.            *)
LEMMA BoundsStep == CatalogInv /\ BoundsInv /\ [Next]_vars => BoundsInv'
<1> SUFFICES ASSUME CatalogInv, BoundsInv, [Next]_vars PROVE BoundsInv'
  OBVIOUS
<1> USE DEF MaxRetries
<1> DEFINE parses == UNCHANGED <<input, event, atParse>>
<1>0. /\ CatalogTypeOK /\ Len(body.rows) \in Nat
      /\ MaxRefreshes \in Nat
  BY BodyFacts, CatalogAssumption DEF CatalogInv, CatalogTypeOK
<1>1. CASE StartRefresh /\ parses
  BY <1>0, <1>1 DEF StartRefresh, BoundsInv, MaxRetries
<1>2. CASE GetOK /\ parses
  <2>1. PICK b \in Bodies : body' = b
    BY <1>2 DEF GetOK
  <2>2. Len(b.rows) \in Nat
    BY BodyFacts
  <2>3. QED
    BY <1>2, <2>1, <2>2 DEF GetOK, BoundsInv
<1>3. CASE GetFail /\ parses
  BY <1>0, <1>3 DEF GetFail, Finish, BoundsInv
<1>4. CASE Backoff /\ parses
  BY <1>0, <1>4 DEF Backoff, BoundsInv, MaxRetries
<1>5. CASE ReadFirstRow /\ parses
  <2> DEFINE headerOK == /\ body.rows # <<>>
                         /\ body.rows[1].width > KeyColIndex
                         /\ body.rows[1].width > ValueColIndex
  <2>1. CASE ~headerOK
    BY <1>0, <1>5, <2>1 DEF ReadFirstRow, Finish, BoundsInv
  <2>2. CASE headerOK
    <3>1. row' = 2 /\ cpc' = "read" /\ cpc = "read"
          /\ UNCHANGED <<attempt, body, openBodies, refreshes, input, atParse>>
      BY <1>5, <2>2 DEF ReadFirstRow
    <3>2. Len(body.rows) >= 1
      BY <1>0, <2>2, BodyFacts DEF CatalogTypeOK
    <3>3. QED
      BY <3>1, <3>2 DEF BoundsInv
  <2>3. QED
    BY <2>1, <2>2
<1>6. CASE ReadRowEOF /\ parses
  BY <1>0, <1>6 DEF ReadRowEOF, Finish, BoundsInv
<1>7. CASE ReadRowFieldCount /\ parses
  BY <1>0, <1>7 DEF ReadRowFieldCount, Finish, BoundsInv
<1>8. CASE ReadRowInsert /\ parses
  BY <1>0, <1>8 DEF ReadRowInsert, BoundsInv
<1>9. CASE Parse
  BY <1>0, <1>9 DEF Parse, catalogVars, BoundsInv, CatalogTypeOK
<1>10. CASE UNCHANGED vars
  BY <1>10 DEF vars, catalogVars, BoundsInv
<1>11. QED
  BY <1>1, <1>2, <1>3, <1>4, <1>5, <1>6, <1>7, <1>8, <1>9, <1>10
     DEF Next, CatalogNext

(* CAOwners is nil or a map keyed by lowercase hex text.                   *)
LEMMA OwnersKeysHex ==
    ASSUME CatalogInv
    PROVE  caOwners = Nil \/ DOMAIN caOwners \subseteq Seq(ToSet(HexChar))
<1>1. CASE caOwners # Nil
  <2>1. caOwners = RefCatalog(loaded) /\ loaded \in Bodies \cup {EmptyBody}
    BY <1>1 DEF CatalogInv, CatalogAsCSV, CatalogTypeOK
  <2>2. QED
    BY <2>1, CatalogKeysHex
<1>2. QED
  BY <1>1

(* Every reachable state of the refresh and the parses is typed: the       *)
(* attempt counter stays within the three attempts, the reader within the  *)
(* body, no response body is closed twice, and CAOwners is nil or a map    *)
(* keyed by the hex text formatKeyIDShort produces.                        *)
THEOREM EnrichmentTypeCorrect == Spec => []TypeOK
<1>1. CatalogInv /\ BoundsInv => TypeOK
  BY OwnersKeysHex DEF CatalogInv, CatalogTypeOK, BoundsInv, TypeOK
<1>2. Init => CatalogInv /\ BoundsInv
  BY CatalogInitInv, BoundsInit
<1>3. CatalogInv /\ BoundsInv /\ [Next]_vars => (CatalogInv /\ BoundsInv)'
  BY CatalogStep, BoundsStep
<1>4. QED
  BY <1>1, <1>2, <1>3, PTL DEF Spec

-----------------------------------------------------------------------------
(* The parses.                                                             *)

(* The leaf of an entry: the lookup of its AKI in the map read, and the   *)
(* hashes, over the submitted DER for a precert.                           *)
LEMMA LeafFields ==
    ASSUME NEW raw, NEW m
    PROVE  LET leaf == LeafOfEntry(raw, m)
               der == IF raw.kind = "precert" THEN raw.submitted ELSE raw.cert.raw
           IN  /\ leaf.caOwner = CAOwnerOf(raw.cert, m)
               /\ leaf.sha1 = CalculateSHA1(der)
               /\ leaf.fingerprint = CalculateSHA1(der)
               /\ leaf.sha256 = CalculateSHA256(der)
<1> DEFINE x509 == LeafCertFromX509(raw.cert, m)
<1>1. /\ x509.caOwner = CAOwnerOf(raw.cert, m)
      /\ x509.sha1 = CalculateSHA1(raw.cert.raw)
      /\ x509.fingerprint = CalculateSHA1(raw.cert.raw)
      /\ x509.sha256 = CalculateSHA256(raw.cert.raw)
  BY DEF LeafCertFromX509
<1>2. CASE raw.kind = "precert"
  <2>1. LeafOfEntry(raw, m) =
          [x509 EXCEPT !.fingerprint = CalculateSHA1(raw.submitted),
                       !.sha1 = CalculateSHA1(raw.submitted),
                       !.sha256 = CalculateSHA256(raw.submitted)]
    BY <1>2 DEF LeafOfEntry
  <2>2. /\ LeafOfEntry(raw, m).caOwner = CAOwnerOf(raw.cert, m)
        /\ LeafOfEntry(raw, m).sha1 = CalculateSHA1(raw.submitted)
        /\ LeafOfEntry(raw, m).fingerprint = CalculateSHA1(raw.submitted)
        /\ LeafOfEntry(raw, m).sha256 = CalculateSHA256(raw.submitted)
    BY <2>1, <1>1, Zenon DEF LeafCertFromX509
  <2>3. QED
    BY <1>2, <2>2
<1>3. CASE raw.kind # "precert"
  BY <1>1, <1>3 DEF LeafOfEntry
<1>4. QED
  BY <1>2, <1>3

(* A parse that was not dropped has the leaf of its entry.                 *)
LEMMA EventLeaf ==
    ASSUME NEW raw, NEW m,
           ParseCertstreamEntry(raw, m) # ParseError
    PROVE  ParseCertstreamEntry(raw, m).leafCert = LeafOfEntry(raw, m)
BY DEF ParseCertstreamEntry

LEMMA ParseInit == Init => ParseInv
BY DEF Init, ParseInv

(* Every step keeps ParseInv; a parse reads CAOwners = RefCatalog(loaded). *)
LEMMA ParseStep == CatalogInv /\ ParseInv /\ [Next]_vars => ParseInv'
<1> SUFFICES ASSUME CatalogInv, ParseInv, [Next]_vars PROVE ParseInv'
  OBVIOUS
<1>1. CASE CatalogNext /\ UNCHANGED <<input, event, atParse>>
  BY <1>1 DEF ParseInv, OwnersAt
<1>2. CASE Parse
  <2>1. PICK raw \in RawEntries :
           /\ input' = raw
           /\ event' = ParseCertstreamEntry(raw, caOwners)
    BY <1>2 DEF Parse
  <2>2. CASE caOwners = Nil
    <3>1. atParse' = Nil
      BY <1>2, <2>2 DEF Parse
    <3>2. QED
      BY <2>1, <2>2, <3>1 DEF ParseInv, OwnersAt
  <2>3. CASE caOwners # Nil
    <3>1. atParse' = loaded /\ loaded # Nil
      BY <1>2, <2>3, BodyFacts DEF Parse, CatalogInv, CatalogTypeOK
    <3>2. caOwners = RefCatalog(loaded)
      BY <2>3 DEF CatalogInv, CatalogAsCSV
    <3>3. QED
      BY <2>1, <2>3, <3>1, <3>2 DEF ParseInv, OwnersAt
  <2>4. QED
    BY <2>2, <2>3
<1>3. CASE UNCHANGED vars
  BY <1>3 DEF vars, ParseInv, OwnersAt
<1>4. QED
  BY <1>1, <1>2, <1>3 DEF Next

LEMMA EnrichmentInvariant == Spec => [](CatalogInv /\ ParseInv)
<1>1. Init => CatalogInv /\ ParseInv
  BY CatalogInitInv, ParseInit
<1>2. CatalogInv /\ ParseInv /\ [Next]_vars => (CatalogInv /\ ParseInv)'
  BY CatalogStep, ParseStep
<1>3. QED
  BY <1>1, <1>2, PTL DEF Spec

(* The event of a parse that was not dropped is the parser's for the map  *)
(* read, and its leaf the leaf of the entry parsed.                        *)
LEMMA ParsedLeaf ==
    ASSUME ParseInv, Parsed
    PROVE  Leaf = LeafOfEntry(input, OwnersAt(atParse))
<1>1. event = ParseCertstreamEntry(input, OwnersAt(atParse))
      /\ event # ParseError
  BY DEF ParseInv, Parsed
<1>2. QED
  BY <1>1, EventLeaf DEF Leaf

(* A parsed certificate gets the owner the spec's catalog of the body     *)
(* CAOwners held at the parse gives its AKI: CatalogAsCSV carries over to *)
(* parseCertstreamEntry's lookup, whatever refresh runs meanwhile.         *)
THEOREM OwnerFromCatalog == Spec => []CaOwnerFromCatalog
<1>1. ParseInv => CaOwnerFromCatalog
  <2> SUFFICES ASSUME ParseInv, Parsed, Cert.authorityKeyId # <<>>
               PROVE  Leaf.caOwner =
                        RefOwner(atParse, FormatKeyIDShort(Cert.authorityKeyId))
    BY DEF CaOwnerFromCatalog
  <2>1. Leaf.caOwner = CAOwnerOf(input.cert, OwnersAt(atParse))
    BY ParsedLeaf, LeafFields
  <2>2. CASE atParse = Nil
    BY <2>1, <2>2 DEF OwnersAt, CAOwnerOf, RefOwner, Cert
  <2>3. CASE atParse # Nil
    <3>1. RefCatalog(atParse) # Nil
      BY <2>3 DEF ParseInv
    <3>2. QED
      BY <2>1, <2>3, <3>1 DEF OwnersAt, CAOwnerOf, RefOwner, Cert
  <2>4. QED
    BY <2>2, <2>3
<1>2. QED
  BY <1>1, EnrichmentInvariant, PTL

(* The hashes of every parsed leaf are taken over the submitted DER of a   *)
(* precert and the certificate's DER otherwise, fingerprint being sha1.    *)
THEOREM HashesCorrect == Spec => []HashesOverSubmittedDER
<1>1. ParseInv => HashesOverSubmittedDER
  <2> SUFFICES ASSUME ParseInv, Parsed
               PROVE  LET der == IF input.kind = "precert" THEN input.submitted
                                 ELSE Cert.raw
                      IN  /\ Leaf.sha1 = CalculateSHA1(der)
                          /\ Leaf.fingerprint = Leaf.sha1
                          /\ Leaf.sha256 = CalculateSHA256(der)
    BY DEF HashesOverSubmittedDER
  <2>1. Leaf = LeafOfEntry(input, OwnersAt(atParse))
    BY ParsedLeaf
  <2>2. QED
    BY <2>1, LeafFields DEF Cert
<1>2. QED
  BY <1>1, EnrichmentInvariant, PTL

=============================================================================
