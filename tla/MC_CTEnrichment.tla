--------------------------- MODULE MC_CTEnrichment --------------------------
(***************************************************************************)
(* Small instances of CTEnrichment for TLC.  Names are character          *)
(* sequences; the public-suffix results are those of the real list on      *)
(* them; the CSV rows are CCADB-like rows with the key in column 18.       *)
(***************************************************************************)
EXTENDS CTEnrichment, TLC

(* DNS names and an IP literal.                                            *)
ACom  == <<"a", ".", "c", "o", "m">>
WACom == <<"*", ".", "a", ".", "c", "o", "m">>
BACom == <<"b", ".", "a", ".", "c", "o", "m">>
Com   == <<"c", "o", "m">>
BCom  == <<"b", ".", "c", "o", "m">>
IPv4  == <<"1", ".", "2", ".", "3", ".", "4">>

MCPSLError == "psl-error"
MCIPLiterals == {IPv4}
MCRegDomainOf ==
    (ACom :> ACom) @@ (WACom :> ACom) @@ (BACom :> ACom) @@
    (Com :> MCPSLError) @@ (BCom :> BCom) @@ (IPv4 :> MCPSLError)

(* Subjects: CN, O and the jurisdictionCountry attribute.                  *)
Org == <<"E", "x", " ", "I", "n", "c">>
US  == <<"U", "S">>
SubjectsCN == {("CN" :> ACom) @@ ("O" :> Org), "CN" :> WACom}
SubjectsAll == SubjectsCN \cup
    {"O" :> Org, ("CN" :> BCom) @@ ("O" :> Org) @@ ("jurisdictionC" :> US)}

OtherOID == <<1, 3, 6, 1, 4, 1, 311>>
AKI1 == <<26, 43, 60>>     \* the spec's 0x1A 2B 3C
AKI2 == <<7>>

CertsOf(sans, subjects, cas, policies, akis) ==
    [dnsNames : sans, subject : subjects, isCA : cas, policies : policies,
     authorityKeyId : akis, raw : {"tbs"}]

CACert == [dnsNames |-> <<>>, subject |-> "O" :> Org, isCA |-> TRUE,
            policies |-> <<>>, authorityKeyId |-> AKI2, raw |-> "ca"]
ChainCA  == [parses |-> TRUE, cert |-> CACert]
ChainBad == [parses |-> FALSE, cert |-> CACert]

EntriesOf(certs, kinds, chains) ==
    [index : {7}, kind : kinds, cert : certs, submitted : {"submitted"},
     chain : chains]

(* The domain, hash and catalog runs.                                      *)
MCEntries ==
    EntriesOf(CertsOf({<<ACom, IPv4, BACom, Com>>, <<WACom, ACom, ACom>>},
                      {("CN" :> ACom) @@ ("O" :> Org)}, {FALSE}, {<<>>},
                      {AKI1, AKI2}),
              {"x509", "precert", "undecodable"}, {<<ChainCA>>, <<ChainBad>>})

(* The classification run: policy OIDs, subjects and domain lists.        *)
MCClassEntries ==
    EntriesOf(CertsOf({<<>>, <<WACom>>, <<ACom, BACom>>}, SubjectsAll, {FALSE},
                      {<<CABForumDV>>, <<CABForumEV, OtherOID>>}, {AKI1}),
              {"x509"}, {<<>>})

(* Certificates without an AKI.                                            *)
MCNoAKIEntries ==
    EntriesOf(CertsOf({<<ACom>>}, SubjectsCN, {FALSE}, {<<>>}, {<<>>, AKI1}),
              {"x509"}, {<<>>})

(* CSV rows: a header whose key text decodes only its first quantum, data  *)
(* rows, a repeated key with another owner, a row of another width and a   *)
(* row whose key cell is empty.                                            *)
Header   == [width |-> 19, key |-> [decoded |-> <<74, 230, 227>>],
             owner |-> "CA Owner"]
NarrowHd == [width |-> 1, key |-> [decoded |-> <<>>], owner |-> "CA Owner"]
RowA     == [width |-> 19, key |-> [decoded |-> AKI1], owner |-> "Example CA"]
RowA2    == [width |-> 19, key |-> [decoded |-> AKI1], owner |-> "Other CA"]
RowB     == [width |-> 19, key |-> [decoded |-> AKI2], owner |-> "Root CA"]
Narrow   == [width |-> 1, key |-> [decoded |-> AKI2], owner |-> "Root CA"]
NoSKI    == [width |-> 19, key |-> [decoded |-> <<>>], owner |-> "Empty CA"]

MCBodies ==
    {[rows |-> <<Header, RowA, RowB, RowA2>>, tail |-> "eof"],
     [rows |-> <<Header, RowB>>, tail |-> "eof"],
     [rows |-> <<Header, RowA>>, tail |-> "error"],
     [rows |-> <<Header, RowA, Narrow>>, tail |-> "eof"],
     [rows |-> <<NarrowHd>>, tail |-> "eof"],
     [rows |-> <<>>, tail |-> "error"]}

MCOneBody ==
    {[rows |-> <<Header, RowA>>, tail |-> "eof"]}

MCNoSKIBodies ==
    {[rows |-> <<Header, NoSKI, RowA>>, tail |-> "eof"]}

=============================================================================
