---------------------------- MODULE MCValidators ----------------------------
(***************************************************************************)
(* One part of a validation moves in each behaviour.  In "zone" servers    *)
(* answer from any zone and time hardly passes; in "answers" they say      *)
(* anything for two names; "http" and "grants" are the parts as they are.  *)
(***************************************************************************)
EXTENDS Validators, TokenGrants, SequencesExt

CONSTANTS h1, h2, bad

VARIABLE part

-----------------------------------------------------------------------------
(* Three names in a ring of aliases with a shortcut, and TXT records.      *)
Cname(n, t) == [owner |-> n, type |-> "CNAME", value |-> t]
Txt(n, v) == [owner |-> n, type |-> "TXT", value |-> v]

RingRecords ==
  {Cname("a", "b"), Cname("b", "c"), Cname("c", "a"), Cname("a", "c"),
   Txt("a", "proof"), Txt("b", "proof"), Txt("c", "proof"), Txt("c", "other")}

-----------------------------------------------------------------------------
(* A public, an explicitly allowed and an internal ip, in both spellings.  *)
Addr(ip, mapped) == [ip |-> ip, mapped |-> mapped, zone |-> FALSE]
SmallAddresses ==
  {Addr("public", FALSE), Addr("public", TRUE), Addr("allowed", FALSE), Addr("internal", TRUE),
   [ip |-> "public", mapped |-> FALSE, zone |-> TRUE]}
SmallAnswers == SeqOf(SmallAddresses, 3)
SmallIdentifiers == {h1, Addr("public", FALSE)}

-----------------------------------------------------------------------------
(* An authority list, a network function instance and a host name, with a  *)
(* second spelling of the instance and of the host.                        *)
Spellings == {"tn", "nf", "NF", "nf2", "d", "D"}
Lower == [n \in Spellings |-> CASE n = "NF" -> "nf" [] n = "D" -> "d" [] OTHER -> n]
TypesOf == [n \in Spellings |->
  CASE n = "tn" -> "TNAuthList" [] n \in {"nf", "NF", "nf2"} -> "NfInstanceId"
    [] OTHER -> "dns"]
OrderSets == {{"tn"}, {"nf"}, {"tn", "d"}, {"nf", "d"}}
Trusted == [a \in {"ta", "retired"} |->
  IF a = "ta" THEN [from |-> 1, until |-> 9] ELSE [from |-> 1, until |-> 1]]
GoodTokens ==
  {[wellFormed |-> TRUE, type |-> TypesOf[v], value |-> v, exp |-> e, nbf |-> 0, ca |-> c,
    sans |-> s, fingerprint |-> "own", authority |-> "ta"] :
     v \in {"tn", "NF"}, e \in {1, 3}, c \in BOOLEAN, s \in {{}, {"D", "d", "nf"}, {"nf2"}}}
\* One thing is wrong, for good or for some time.
SmallTokens ==
  GoodTokens \cup UNION {
    {[t EXCEPT !.nbf = 3], [t EXCEPT !.fingerprint = "other"], [t EXCEPT !.wellFormed = FALSE],
     [t EXCEPT !.authority = "retired"], [t EXCEPT !.authority = "unknown"]} :
       t \in {x \in GoodTokens : x.exp = 3 /\ x.ca /\ "d" \in x.sans}}

-----------------------------------------------------------------------------
ASSUME ValidatorsSmall == ValidatorsAssumption /\ Grants!GrantsAssumption

dnsVars == <<elapsed, zone, pc, trace, answers, index, until, last, outcome, heard, evidence>>
httpVars == <<kind, stage, target, requests, port, pending, verdict, dialled, refuted>>
grantVars == <<clock, tokenOrder, authzs, csr, issuance, issued>>
scopedVars == <<part, dnsVars, httpVars, grantVars>>

ScopedInit ==
  /\ Dns!Init /\ Http!Init /\ Grants!Init
  /\ \/ part = "zone" /\ zone # Absent
     \/ part = "answers" /\ zone = Absent
     \/ part \in {"http", "grants"} /\ zone = {}
  /\ part # "http" => kind = "http-01" /\ target.host = h1
  /\ part # "grants" => tokenOrder = [ids |-> {"tn"}, notBefore |-> 0, notAfter |-> 0, status |-> "pending"]

DnsNext ==
  /\ part \in {"zone", "answers"}
  /\ Dns!Next
  /\ part = "zone" => elapsed' <= 1
  /\ part = "answers" => Len(trace') <= 2
  /\ UNCHANGED <<part, httpVars, grantVars>>
HttpNext == part = "http" /\ Http!Next /\ UNCHANGED <<part, dnsVars, grantVars>>
GrantsNext == part = "grants" /\ Grants!Next /\ UNCHANGED <<part, dnsVars, httpVars>>
ScopedNext == DnsNext \/ HttpNext \/ GrantsNext

(* A validation goes on: each wait of it ends with its context. *)
ScopedSpec == ScopedInit /\ [][ScopedNext]_scopedVars /\ WF_scopedVars(HttpNext)

(* Redirects and addresses run out: each validation by connection has a    *)
(* verdict (CheckRedirect, dial).                                          *)
ValidationEnds == part = "http" => Http!ValidationEnds
=============================================================================
