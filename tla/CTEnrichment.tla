---------------------------- MODULE CTEnrichment ----------------------------
(***************************************************************************)
(* The catalog refresh composed with the parser: while a sweep runs        *)
(* DownloadAndParseCSV and assigns CAOwners, the worker goroutines'        *)
(* callbacks parse entries and look their AKI up in whatever map CAOwners  *)
(* holds at that moment (ct-parser.go:309).  The assignment is one step:   *)
(* a parse reads the old map or the new one.                               *)
(***************************************************************************)
EXTENDS CTCatalog

CONSTANT RawEntries   \* the raw log entries the scanner may deliver

VARIABLES
    input,     \* the raw entry parsed last
    event,     \* its event, ParseError when it was dropped, Nil before
    atParse    \* the body CAOwners was built from when it was read, or Nil

vars == <<catalogVars, input, event, atParse>>

Init ==
    /\ CatalogInit
    /\ input = Nil
    /\ event = Nil
    /\ atParse = Nil

(* A worker's callback: parseCertstreamEntry against the current CAOwners. *)
Parse ==
    /\ \E raw \in RawEntries :
          /\ input' = raw
          /\ event' = ParseCertstreamEntry(raw, caOwners)
    /\ atParse' = IF caOwners = Nil THEN Nil ELSE loaded
    /\ UNCHANGED catalogVars

Next ==
    \/ CatalogNext /\ UNCHANGED <<input, event, atParse>>
    \/ Parse

Spec == Init /\ [][Next]_vars
FairSpec == Spec /\ CatalogFairness

-----------------------------------------------------------------------------
(* Reference definitions, from the spec's text.                            *)

(* The keys of the data rows 2..n of b, and whether row i is the last of    *)
(* them with key k.                                                        *)
RowKeys(b, n) == {RowKey(b.rows[i]) : i \in 2..n}

IsLastRow(b, n, k, i) ==
    /\ i \in 2..n
    /\ RowKey(b.rows[i]) = k
    /\ \A j \in 2..n : j > i => RowKey(b.rows[j]) # k

(* Spec 4.4: for each data row, the lowercase hex of the decoded key maps  *)
(* to the owner; a later row with the same key replaces an earlier one.    *)
RefCatalog(b) ==
    [k \in RowKeys(b, Len(b.rows)) |->
        b.rows[CHOOSE i \in 2..Len(b.rows) : IsLastRow(b, Len(b.rows), k, i)].owner]

(* Spec 3: the owner of the AKI in the catalog, "unknown" if absent.       *)
RefOwner(b, aki) ==
    IF b # Nil /\ aki \in DOMAIN RefCatalog(b)
    THEN RefCatalog(b)[aki] ELSE "unknown"

(* Spec 3: duplicates removed, preserving the first occurrence.            *)
RefFirstOccurrences(s) ==
    LET firsts == {i \in 1..Len(s) : \A j \in 1..(i - 1) : s[j] # s[i]}
        order == SetToSortSeq(firsts, <)
    IN  [k \in 1..Len(order) |-> s[order[k]]]

(* Spec 4.2: validation type from the stringified policy OID list.         *)
RefPolicyType(policies) ==
    LET txt == Join([p \in 1..Len(policies) |-> Dotted(policies[p])], <<" ">>)
    IN  CASE StrContains(txt, Dotted(CABForumDV)) -> "DV"
          [] StrContains(txt, Dotted(CABForumOV)) -> "OV"
          [] StrContains(txt, Dotted(CABForumIV)) -> "IV"
          [] StrContains(txt, Dotted(CABForumEV)) -> "EV"
          [] OTHER -> "OV"

(* Spec 4.2: jurisdictionCountry means EV, no Organization means DV.       *)
RefValidationType(subject, policies) ==
    CASE "jurisdictionC" \in DOMAIN subject -> "EV"
      [] ~HasOrganization(subject)        -> "DV"
      [] OTHER                            -> RefPolicyType(policies)

Parsed == event \notin {Nil, ParseError}
Leaf == event.leafCert
Cert == input.cert

-----------------------------------------------------------------------------
(* Properties.                                                             *)

(* The type of the composed state.                                         *)
TypeOK ==
    /\ cpc \in {"idle", "get", "backoff", "read"}
    /\ attempt \in 0..MaxRetries
    /\ body \in Bodies \cup {EmptyBody}
    /\ row \in 1..(Len(body.rows) + 1)
    /\ caOwners = Nil \/ DOMAIN caOwners \subseteq Seq(ToSet(HexChar))
    /\ openBodies \in Nat
    /\ refreshes \in 0..MaxRefreshes
    /\ input \in RawEntries \cup {Nil}
    /\ atParse \in Bodies \cup {EmptyBody, Nil}

(* Whenever CAOwners holds a map, it is exactly the catalog the spec       *)
(* defines for the body it was loaded from: the retry loop, the header     *)
(* skip, the row loop with its field-count check and the base64-to-hex key *)
(* conversion of DownloadAndParseCSV together build that map.              *)
CatalogAsCSV ==
    caOwners # Nil => caOwners = RefCatalog(loaded)

(* A parsed certificate that has an AKI gets the owner the spec's catalog  *)
(* of the body CAOwners held at the parse gives it: the parser's key       *)
(* formatting (formatKeyIDShort) agrees with the catalog's, even while a   *)
(* refresh runs concurrently.                                              *)
CaOwnerFromCatalog ==
    Parsed /\ Cert.authorityKeyId # <<>>
    => Leaf.caOwner = RefOwner(atParse, FormatKeyIDShort(Cert.authorityKeyId))

(* When the SAN loop runs, all_reg_domains holds the registrable domain of *)
(* each SAN (IP literals and names the public-suffix list rejects as they  *)
(* are), each once, in the order of first occurrence.                      *)
RegDomainsFirstOccurrence ==
    Parsed /\ ScansSANs(Cert)
    => Leaf.allRegDomains =
         RefFirstOccurrences([i \in 1..Len(Cert.dnsNames) |->
                                 RegDomain(Cert.dnsNames[i])])

(* fingerprint and sha1 are equal and, with sha256, are taken over the     *)
(* submitted DER for a precertificate and over the certificate's DER for   *)
(* an X.509 entry (parseData's recomputation for precerts).                *)
HashesOverSubmittedDER ==
    Parsed =>
      LET der == IF input.kind = "precert" THEN input.submitted ELSE Cert.raw
      IN  /\ Leaf.sha1 = CalculateSHA1(der)
          /\ Leaf.fingerprint = Leaf.sha1
          /\ Leaf.sha256 = CalculateSHA256(der)

(* Every catalog refresh returns: the retry loop ends after at most three  *)
(* attempts and the reader after the body.                                 *)
RefreshTerminates == cpc # "idle" ~> cpc = "idle"

(* Spec 4.2, validation_type: EV when the aggregated subject holds the     *)
(* jurisdictionCountry OID, else DV without an Organization, else decided  *)
(* by the dotted policy OIDs (DV, OV, IV, EV).  The code renders the OIDs  *)
(* with fmt's "%d" and searches the jurisdiction OID in a JSON of          *)
(* attribute values only (ct-parser.go 257-279).                           *)
ValidationTypeAsSpec ==
    Parsed =>
      Leaf.validationType = RefValidationType(Cert.subject, Cert.policies)

(* Spec 3: a certificate without an AKI has no catalog entry, so its       *)
(* ca_owner is "unknown".                                                  *)
NoAKIMeansUnknown ==
    Parsed /\ Cert.authorityKeyId = <<>> => Leaf.caOwner = "unknown"

(* The refresh implements CatalogStore: CAOwners keeps its map through    *)
(* the retry loop and the row loop, and changes only when                  *)
(* DownloadAndParseCSV returns, to the whole catalog of a body the URL     *)
(* served or to nil.  A parse running beside a refresh never reads a map   *)
(* that is still being built.                                              *)
Store == INSTANCE CatalogStore
             WITH owners <- caOwners, refreshing <- cpc # "idle",
                  Catalogs <- {RefCatalog(b) : b \in Bodies}, Initial <- EmptyMap
StoreRefinement == Store!StoreSpec

(* net/http: every response body is closed once DownloadAndParseCSV has    *)
(* returned.                                                               *)
NoLeakedResponseBody ==
    cpc = "idle" => openBodies = 0

=============================================================================
