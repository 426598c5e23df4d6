------------------------------ MODULE DnsLookup ------------------------------
(***************************************************************************)
(* A dns-01 validation (challenge/dns.go) with the Resolver of             *)
(* challenge/resolver.go: the servers are asked in turn within shares of   *)
(* one deadline, and aliases are followed from answer to answer.  Honest   *)
(* servers answer from one zone; the others say anything.                  *)
(***************************************************************************)
EXTENDS Integers, Sequences, Functions

CONSTANTS
  Names, Question,  \* the name of the proof is a name
  Values, Digest,    \* contents of TXT records; the expected digest is one
  Records,          \* the records that answers are made of: [owner, type, value]
  None,
  Servers,          \* how many servers are configured
  Timeout, MaxCNAMEs

(* What is assumed of the constants; MCValidators has it evaluated. *)
LookupAssumption ==
  /\ Question \in Names /\ Digest \in Values
  /\ Records \subseteq [owner : Names, type : {"TXT", "CNAME"}, value : Names \cup Values]
  /\ \A r \in Records : r.type = "CNAME" => r.value \in Names
  /\ Servers \in Nat \ {0} /\ {Timeout, MaxCNAMEs} \subseteq Nat
  /\ \A rs \in SUBSET Records : rs # None

VARIABLES
  now,      \* since the start of the lookup
  zone,     \* what the servers answer from, None if they are not honest
  pc,
  trace,    \* the names followed so far; the set seen of the code is its range
  answers,  \* None before a query
  index,    \* the server that is asked
  until,    \* the end of its share of the time
  last,     \* how the last server failed
  outcome,
  heard,    \* history: what the servers did
  evidence  \* history: the records of all answers accepted

vars == <<now, zone, pc, trace, answers, index, until, last, outcome, heard, evidence>>

name == trace[Len(trace)]
Honest == zone # None
Replies == {"unreachable", "oversize", "invalid", "nxdomain", "servfail", "answers"}

(* The share of a server ends before the deadline, and the lookup has a    *)
(* verdict when it is done.                                                *)
TypeOK ==
  /\ now \in 0..Timeout /\ zone \in (SUBSET Records) \cup {None}
  /\ pc \in {"query", "exchange", "match", "done"}
  /\ trace \in Seq(Names) /\ trace # <<>>
  /\ answers = None \/ answers \subseteq Records
  /\ index \in 1..Servers + 1
  /\ until \in 0..Timeout
  /\ last \in {"retry", "final"}
  /\ outcome \in {"none", "retry", "final", "valid"} /\ (pc = "done") = (outcome # "none")
  /\ heard \subseteq Replies /\ evidence \subseteq Records

Init ==
  /\ now = 0 /\ pc = "query" /\ trace = <<Question>> /\ answers = None
  /\ zone \in (SUBSET Records) \cup {None}
  /\ index = 1 /\ until = 0 /\ last = "retry" /\ outcome = "none"
  /\ heard = {} /\ evidence = {}

End(verdict) ==
  /\ pc' = "done" /\ outcome' = verdict
  /\ answers' = None /\ until' = 0 /\ last' = "retry"
  /\ UNCHANGED <<now, zone, trace, index, heard, evidence>>

-----------------------------------------------------------------------------
(* query: the next server gets an equal share of the time that is left for *)
(* it and those after it.                                                  *)
\* Mutant: a server may use up the time of the others.
AskGreedily ==
  /\ pc = "query" /\ index <= Servers /\ now < Timeout
  /\ until' = Timeout
  /\ pc' = "exchange"
  /\ UNCHANGED <<now, zone, trace, answers, index, last, outcome, heard, evidence>>
Ask ==
  /\ pc = "query" /\ index <= Servers /\ now < Timeout
  /\ until' = now + (Timeout - now) \div (Servers - index + 1)
  /\ pc' = "exchange"
  /\ UNCHANGED <<now, zone, trace, answers, index, last, outcome, heard, evidence>>

(* The deadline has passed, or all servers failed; the last one decides    *)
(* whether the failure is final.                                           *)
GiveUp ==
  /\ pc = "query"
  /\ \/ index <= Servers /\ now >= Timeout /\ End("retry")
     \/ index > Servers /\ End(last)

(* Answers that a server may give to a question; honest ones hold all or   *)
(* no records of a name.                                                   *)
AnswersFor(n) ==
  IF Honest THEN {{r \in zone : r.owner \in {n} \cup more} : more \in SUBSET Names}
  ELSE SUBSET Records

(* exchange and parseResponse.  An oversized message is a problem that     *)
(* does not stop the loop over the servers; an invalid response stops it;  *)
(* a name that does not exist, a failure of the server and no response are *)
(* retried with the next one.                                              *)
Failure(kind) == IF kind = "oversize" THEN "final" ELSE "retry"

ServerFails(kind) ==
  /\ pc = "exchange" /\ kind \in {"unreachable", "oversize", "nxdomain", "servfail"}
  /\ Honest => /\ kind # "oversize"
               /\ kind = "nxdomain" => \A r \in zone : r.owner # name
  /\ \E t \in now..until : now' = t
  /\ index' = index + 1 /\ last' = Failure(kind) /\ pc' = "query"
  /\ heard' = heard \cup {kind} /\ until' = 0
  /\ UNCHANGED <<zone, trace, answers, outcome, evidence>>

ServerIsInvalid ==
  /\ pc = "exchange" /\ ~Honest
  /\ \E t \in now..until : now' = t
  /\ heard' = heard \cup {"invalid"}
  /\ pc' = "done" /\ outcome' = "final" /\ until' = 0 /\ last' = "retry"
  /\ UNCHANGED <<zone, trace, answers, index, evidence>>

ServerAnswers ==
  /\ pc = "exchange"
  /\ \E t \in now..until : now' = t
  /\ \E rs \in AnswersFor(name) : answers' = rs /\ evidence' = evidence \cup rs
  /\ pc' = "match" /\ until' = 0 /\ last' = "retry"
  /\ heard' = heard \cup {"answers"}
  /\ UNCHANGED <<zone, trace, index, outcome>>

-----------------------------------------------------------------------------
(* matchingAnswers: the records and the aliases of one owner. *)
Matching(rs, n) == {r \in rs : r.owner = n /\ r.type = "TXT"}
Aliases(rs, n) == {r.value : r \in {x \in rs : x.owner = n /\ x.type = "CNAME"}}
Conflicting(rs, n) ==
  \/ \E a, b \in Aliases(rs, n) : a # b
  \/ Aliases(rs, n) # {} /\ Matching(rs, n) # {}

(* lookup without an alias, and what Validate makes of the records. *)
Found ==
  /\ pc = "match" /\ Aliases(answers, name) = {}
  /\ LET values == {r.value : r \in Matching(answers, name)}
     IN End(IF Digest \in values THEN "valid" ELSE "final")

\* Mutant: the answer is kept when it says nothing about the alias.
FollowInAnswer ==
  /\ pc = "match" /\ ~Conflicting(answers, name)
  /\ \E alias \in Aliases(answers, name) :
       /\ Len(trace) <= MaxCNAMEs /\ alias \notin Range(trace)
       /\ trace' = Append(trace, alias)
  /\ UNCHANGED <<now, zone, pc, answers, index, until, last, outcome, heard, evidence>>
(* lookup follows the alias, in the same answer if it is there. *)
Follow ==
  /\ pc = "match" /\ ~Conflicting(answers, name)
  /\ \E alias \in Aliases(answers, name) :
       /\ Len(trace) <= MaxCNAMEs /\ alias \notin Range(trace)
       /\ trace' = Append(trace, alias)
       /\ IF \E r \in answers : r.owner = alias THEN UNCHANGED <<pc, answers, index>>
          ELSE pc' = "query" /\ answers' = None /\ index' = 1
  /\ UNCHANGED <<now, zone, until, last, outcome, heard, evidence>>

(* Conflicting records, a loop or a chain that is too long. *)
NoProof ==
  /\ pc = "match" /\ Aliases(answers, name) # {}
  /\ \/ Conflicting(answers, name)
     \/ Len(trace) > MaxCNAMEs
     \/ Aliases(answers, name) \cap Range(trace) # {}
  /\ End("final")

Next ==
  \/ Ask \/ GiveUp \/ (\E kind \in Replies : ServerFails(kind)) \/ ServerIsInvalid
  \/ ServerAnswers \/ Found \/ Follow \/ NoProof

Spec == Init /\ [][Next]_vars

-----------------------------------------------------------------------------
(* Only the owner of a name, or whom its aliases lead to, can prove it:    *)
(* the chain from the question to the proof was answered link by link, has *)
(* at most MaxCNAMEs links and visits no name twice (lookup).              *)
ProofIsOwned ==
  /\ IsInjective(trace) /\ Len(trace) <= MaxCNAMEs + 1
  /\ \A i \in 1..Len(trace) - 1 :
       [owner |-> trace[i], type |-> "CNAME", value |-> trace[i + 1]] \in evidence
  /\ outcome = "valid" => [owner |-> name, type |-> "TXT", value |-> Digest] \in evidence

(* A chain of names that the zone leads along, from the question to the    *)
(* proof, without a conflict and without a name visited twice.             *)
Chains == UNION {[1..n + 1 -> Names] : n \in 0..MaxCNAMEs}
LeadsToProof(c) ==
  /\ c[1] = Question /\ IsInjective(c)
  /\ \A i \in 1..Len(c) : ~Conflicting(zone, c[i])
  /\ \A i \in 1..Len(c) - 1 : Aliases(zone, c[i]) = {c[i + 1]}
  /\ Aliases(zone, c[Len(c)]) = {}
  /\ [owner |-> c[Len(c)], type |-> "TXT", value |-> Digest] \in zone

(* With honest servers the verdict is that of the zone, whichever parts of *)
(* the chain an answer holds: the proof at the end of the chain is found,  *)
(* and a final failure means that it is not there or that the chain is in  *)
(* conflict, a loop or too long (lookup, matchingAnswers).                 *)
VerdictIsOfZone ==
  Honest => /\ outcome = "valid" => \E c \in Chains : LeadsToProof(c)
            /\ outcome = "final" => \A c \in Chains : ~LeadsToProof(c)

(* What a verdict of dns-01 rests on, with honest servers and with others. *)
DnsVerdict == VerdictIsOfZone /\ ProofIsOwned

(* A failure ends the validation at once only if a server sent something   *)
(* wrong: servers that are down, late or do not know the name yet lead to  *)
(* another attempt (parseResponse, query).                                 *)
OutageIsRetried ==
  outcome = "final" => heard \cap {"oversize", "invalid", "answers"} # {}

(* A server that is asked for the name itself has its part of the time,    *)
(* however slow the servers before it were (the reserve in query).         *)
EveryServerHasTime ==
  pc = "exchange" /\ Len(trace) = 1 => until - now >= Timeout \div Servers

=============================================================================
