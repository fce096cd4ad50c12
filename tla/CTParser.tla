------------------------------ MODULE CTParser ------------------------------
(***************************************************************************)
(* The certificate parser of ct-parser.go: parseCertstreamEntry, parseData *)
(* and leafCertFromX509cert with the helpers whose results the enriched    *)
(* event depends on, written as operators of one raw log entry and of the  *)
(* CAOwners map the parse reads.                                           *)
(*                                                                         *)
(* A string is a sequence of one-character strings, so that                *)
(* strings.Contains, fmt's "%d" of the policy OIDs and hex encoding are    *)
(* modelled by what they do.  The public-suffix list and net.ParseIP are   *)
(* library oracles given as constants.  Hashes and DER stay opaque: a hash *)
(* is a tagged pair of the algorithm and the bytes it was taken over.      *)
(***************************************************************************)
EXTENDS Naturals, Sequences, SequencesExt, FiniteSets

CONSTANTS
    IPLiterals,   \* the names net.ParseIP accepts
    RegDomainOf,  \* psl.EffectiveTLDPlusOne on the names of the model
    PSLError,     \* its error result
    Nil,          \* Go's nil (a nil map)
    ParseError    \* the error result of a parse

(* A string as a sequence of characters, and its operations.               *)
StrContains(s, t) ==
    \E i \in 0..(Len(s) - Len(t)) : SubSeq(s, i + 1, i + Len(t)) = t

(* strings.Join of a sequence of strings.                                  *)
Join(parts, sep) ==
    FlattenSeq([i \in 1..Len(parts) |->
                    IF i = 1 THEN parts[i] ELSE sep \o parts[i]])

DigitChar == <<"0", "1", "2", "3", "4", "5", "6", "7", "8", "9">>
HexChar   == DigitChar \o <<"a", "b", "c", "d", "e", "f">>

(* The decimal text of a natural number, as fmt prints it.                 *)
Decimal[n \in Nat] ==
    IF n < 10 THEN <<DigitChar[n + 1]>>
    ELSE Decimal[n \div 10] \o <<DigitChar[(n % 10) + 1]>>

(* An OID as the dotted text the code's literals use.                      *)
Dotted(oid) == Join([i \in 1..Len(oid) |-> Decimal[oid[i]]], <<".">>)

(* fmt.Sprintf("%d", cert.PolicyIdentifiers): a slice of slices of ints    *)
(* prints as [[2 23 140 1 2 1] [1 3 6 1]].                                 *)
PercentD(policies) ==
    LET one(oid) == <<"[">> \o Join([i \in 1..Len(oid) |-> Decimal[oid[i]]],
                                    <<" ">>) \o <<"]">>
    IN  <<"[">> \o Join([p \in 1..Len(policies) |-> one(policies[p])], <<" ">>)
                \o <<"]">>

(* hex.EncodeToString, then strings.ToLower (a no-op on its output).       *)
ToLowerChar(c) ==
    LET upper == <<"A", "B", "C", "D", "E", "F">>
    IN  IF \E k \in 1..6 : upper[k] = c
        THEN HexChar[10 + CHOOSE k \in 1..6 : upper[k] = c] ELSE c
HexEncode(bytes) ==
    [j \in 1..(2 * Len(bytes)) |->
        LET v == bytes[(j + 1) \div 2]
        IN  IF j % 2 = 1 THEN HexChar[(v \div 16) + 1] ELSE HexChar[(v % 16) + 1]]
FormatKeyIDShort(keyID) ==
    LET tmp == HexEncode(keyID) IN [i \in 1..Len(tmp) |-> ToLowerChar(tmp[i])]

(* formatKeyID: "keyid:" and the colon-separated hex pairs.               *)
FormatKeyID(keyID) ==
    LET tmp == HexEncode(keyID)
        pairs == [i \in 1..(Len(tmp) \div 2) |-> SubSeq(tmp, 2 * i - 1, 2 * i)]
    IN  <<"k", "e", "y", "i", "d", ":">> \o Join(pairs, <<":">>)

(* The opaque hash of a byte string: calculateSHA1 and calculateSHA256.    *)
CalculateSHA1(der)   == <<"sha1", der>>
CalculateSHA256(der) == <<"sha256", der>>

-----------------------------------------------------------------------------
(* The subject: a pkix.Name is the function from the attribute types it    *)
(* carries to their values.                                                *)
CommonName(name) == IF "CN" \in DOMAIN name THEN name["CN"] ELSE <<>>

(* parseName(certSubject.Organization) is nil when there is no O.         *)
HasOrganization(name) == "O" \in DOMAIN name

(* The text of json.Marshal(ParseNameJSON(name)) that a search for an OID  *)
(* can hit: the attribute values (CommonName, the joined fields and every  *)
(* Names[i].Value).  The attribute types are not in it; the JSON keys hold *)
(* no digits.                                                              *)
AggregatedValues(name) == {name[t] : t \in DOMAIN name}
AggregatedContains(name, s) == \E v \in AggregatedValues(name) : StrContains(v, s)

-----------------------------------------------------------------------------
(* leafCertFromX509cert.                                                   *)

(* The SAN loop runs only for a leaf with a CN that is not a CA.           *)
ScansSANs(cert) == CommonName(cert.subject) # <<>> /\ ~cert.isCA

IsWildcard(domain) == StrContains(domain, <<"*">>)

(* net.ParseIP, then psl.EffectiveTLDPlusOne with the raw name on error.   *)
RegDomain(domain) ==
    IF domain \in IPLiterals \/ RegDomainOf[domain] = PSLError
    THEN domain ELSE RegDomainOf[domain]

WildcardCount(cert) ==
    IF ScansSANs(cert)
    THEN Cardinality({i \in 1..Len(cert.dnsNames) :
                         IsWildcard(cert.dnsNames[i])})
    ELSE 0

RegDomainSlice(cert) ==
    IF ScansSANs(cert)
    THEN [i \in 1..Len(cert.dnsNames) |-> RegDomain(cert.dnsNames[i])]
    ELSE <<>>

(* all_domains: the DNS SANs, and the CN when the loop did not meet it.    *)
AllDomains(cert) ==
    IF ScansSANs(cert) /\ ~Contains(cert.dnsNames, CommonName(cert.subject))
    THEN Append(cert.dnsNames, CommonName(cert.subject))
    ELSE cert.dnsNames

(* Mutant: the loop only compares with the entry appended last.           *)
DedupAdjacent(slice) ==
    FoldLeft(LAMBDA acc, d : IF acc # <<>> /\ Last(acc) = d THEN acc
                             ELSE Append(acc, d),
             <<>>, slice)

(* The de-duplication loop over regDomainSlice with its seen map.          *)
DedupSeen(slice) ==
    FoldLeft(LAMBDA acc, d : IF Contains(acc, d) THEN acc ELSE Append(acc, d),
             <<>>, slice)

(* The CA/B Forum policy OIDs and the jurisdictionCountry OID the code     *)
(* looks for, as the literals' dotted text.                                *)
CABForumDV == <<2, 23, 140, 1, 2, 1>>
CABForumOV == <<2, 23, 140, 1, 2, 2>>
CABForumIV == <<2, 23, 140, 1, 2, 3>>
CABForumEV == <<2, 23, 140, 1, 1>>
JurisdictionC == <<1, 3, 6, 1, 4, 1, 311, 60, 2, 1, 3>>

ValidationType(cert) ==
    LET pol == PercentD(cert.policies)
        byPolicy == CASE StrContains(pol, Dotted(CABForumDV)) -> "DV"
                      [] StrContains(pol, Dotted(CABForumOV)) -> "OV"
                      [] StrContains(pol, Dotted(CABForumIV)) -> "IV"
                      [] StrContains(pol, Dotted(CABForumEV)) -> "EV"
                      [] OTHER -> "OV"
        byOrg == IF HasOrganization(cert.subject) THEN byPolicy ELSE "DV"
    IN  IF AggregatedContains(cert.subject, Dotted(JurisdictionC))
        THEN "EV" ELSE byOrg

CertType(cert) ==
    CASE WildcardCount(cert) > 0     -> "Wildcard"
      [] Len(AllDomains(cert)) > 2   -> "Multi"
      [] OTHER                       -> "Single"

(* Mutant: the lookup uses the keyid:xx:xx form of formatKeyID.           *)
CAOwnerOfColonKey(cert, caOwners) ==
    LET key == FormatKeyID(cert.authorityKeyId)
    IN  IF caOwners # Nil /\ key \in DOMAIN caOwners
        THEN caOwners[key] ELSE "unknown"

(* The CAOwners lookup keyed on the lowercase hex AKI; a nil map has no    *)
(* keys.                                                                   *)
CAOwnerOf(cert, caOwners) ==
    LET key == FormatKeyIDShort(cert.authorityKeyId)
    IN  IF caOwners # Nil /\ key \in DOMAIN caOwners
        THEN caOwners[key] ELSE "unknown"

LeafCertFromX509(cert, caOwners) ==
    LET all == AllDomains(cert)
        wild == WildcardCount(cert)
    IN  [allDomains     |-> all,
         allRegDomains  |-> DedupSeen(RegDomainSlice(cert)),
         isCA           |-> cert.isCA,
         validationType |-> ValidationType(cert),
         certType       |-> CertType(cert),
         sanCount       |-> Len(all),
         wildcardCount  |-> wild,
         singleCount    |-> Len(all) - wild,
         caOwner        |-> CAOwnerOf(cert, caOwners),
         fingerprint    |-> CalculateSHA1(cert.raw),
         sha1           |-> CalculateSHA1(cert.raw),
         sha256         |-> CalculateSHA256(cert.raw)]

-----------------------------------------------------------------------------
(* parseData, parseCertificateChain and the scanner callbacks.             *)

(* A raw entry: its index, the leaf kind ToLogEntry finds ("undecodable"   *)
(* when it fails), the certificate (the TBS view for a precert), the       *)
(* submitted DER of a precert, and the chain: each element with whether    *)
(* x509.ParseCertificate accepts it and the certificate it yields.         *)
ParseChain(chain, caOwners) ==
    IF \E i \in 1..Len(chain) : ~chain[i].parses THEN ParseError
    ELSE [i \in 1..Len(chain) |-> LeafCertFromX509(chain[i].cert, caOwners)]

(* Mutant: the precert's hashes are left as computed over the TBS view.   *)
LeafOfEntryNoRecalc(raw, caOwners) == LeafCertFromX509(raw.cert, caOwners)

(* Precerts get their hashes recomputed over the submitted bytes.          *)
LeafOfEntry(raw, caOwners) ==
    LET leaf == LeafCertFromX509(raw.cert, caOwners)
    IN  IF raw.kind = "precert"
        THEN [leaf EXCEPT !.fingerprint = CalculateSHA1(raw.submitted),
                          !.sha1 = CalculateSHA1(raw.submitted),
                          !.sha256 = CalculateSHA256(raw.submitted)]
        ELSE leaf

(* parseCertstreamEntry and the callback that sets update_type: the event, *)
(* or ParseError when the entry is dropped.                                   *)
ParseCertstreamEntry(raw, caOwners) ==
    IF raw.kind = "undecodable" \/ ParseChain(raw.chain, caOwners) = ParseError
    THEN ParseError
    ELSE [certIndex  |-> raw.index,
          updateType |-> IF raw.kind = "precert" THEN "PrecertLogEntry"
                                                 ELSE "X509LogEntry",
          leafCert   |-> LeafOfEntry(raw, caOwners),
          chain      |-> ParseChain(raw.chain, caOwners)]

=============================================================================
