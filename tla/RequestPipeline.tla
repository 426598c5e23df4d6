--------------------------- MODULE RequestPipeline ---------------------------
(***************************************************************************)
(* A request from ServeHTTP to its answer (server.go, request.go, and the  *)
(* header rules of internal/jws): routing, the reading of a signed POST,   *)
(* its nonce, its key, and the nonce of the answer with the Limiter in     *)
(* between.  The nonce manager is NoncePool, which NonceManager            *)
(* implements.  What a handler does to the Store is in the other modules.  *)
(***************************************************************************)
EXTENDS Integers, Sequences, FiniteSets

CONSTANTS
  Requests,   \* HTTP requests
  None,
  Limited,    \* is Config.Limits set?
  PoolCapacity, PoolTTL,  \* Options of the nonce manager
  PoolTime                \* bound: the clock

(* There are finitely many requests, and None is no problem type. *)
ASSUME PipelineAssumption ==
  /\ IsFiniteSet(Requests) /\ None \notin {"other", "badNonce", "limit"}
  /\ PoolCapacity \in Nat \ {0} /\ PoolTTL \in Nat /\ PoolTime \in Nat

VARIABLES
  clock, issued, pool, answer,  \* the nonce manager, answer being its last
  req,                          \* the requests
  allowed                       \* newNonce requests that the Limiter allowed

requestVars == <<clock, issued, pool, answer, req, allowed>>
nonces == <<clock, issued, pool, answer>>

Manager == INSTANCE NoncePool WITH Capacity <- PoolCapacity, TTL <- PoolTTL, reply <- answer

-----------------------------------------------------------------------------
(* Routing (ServeHTTP, serveResource).  A signed resource has the key mode *)
(* that its handler passes to readSignedRequest.                           *)
AccountResources == {"newOrder", "keyChange", "account", "orders", "order", "finalize",
                     "authz", "challenge", "cert"}
KeyMode(resource) ==
  IF resource = "newAccount" THEN "embedded"
  ELSE IF resource = "revokeCert" THEN "either" ELSE "account"

(* Some resources are as one to the pipeline; Paths has one of each kind. *)
Signed == {"newAccount", "revokeCert"} \cup AccountResources
Paths == {"directory", "profile", "newNonce", "renewalInfo", "unknown",
          "newAccount", "revokeCert", "order"}
Methods == {"GET", "POST"}

(* servePOST for a signed resource, GET and HEAD for the others. *)
Allows(path, method) == IF path \in Signed THEN method = "POST" ELSE method = "GET"

-----------------------------------------------------------------------------
(* The protected header of a JWS (parse, parseHeader of internal/jws).     *)
Headers == [form : {"good", "bad"},      \* envelope, encodings and forbidden members
            alg : {"supported", "other"},
            url : BOOLEAN,               \* is there one?
            nonce : {"absent", "bad", "good"},
            kid : BOOLEAN,
            jwk : {"absent", "bad", "good"}]

(* requestProfile: the rules in the order of the code.  The problems that  *)
(* nothing below tells apart are one here: other.                          *)
Parse(h) ==
  IF h.form = "bad" \/ h.alg = "other" \/ ~h.url THEN "other"
  ELSE IF h.nonce = "absent" THEN "badNonce"
  ELSE IF h.nonce = "bad" \/ h.kid = (h.jwk # "absent") \/ h.jwk = "bad" THEN "other"
  ELSE "ok"

-----------------------------------------------------------------------------
NoRequest == [pc |-> "idle", path |-> None, nonce |-> 0, key |-> None, spent |-> FALSE,
              problem |-> None, fresh |-> FALSE, failed |-> FALSE]

Phases == {"idle", "nonceLimit", "issue", "renewalLimit", "read", "consume", "authenticate",
           "handle", "problem", "addNonce", "answered"}

(* A request that spends a nonce spends an issued one, and the Limiter is  *)
(* asked about a nonce at most once for a request.                         *)
TypeOK ==
  /\ clock \in 0..PoolTime
  /\ pool \subseteq 1..Len(issued) /\ Cardinality(pool) <= PoolCapacity
  /\ \A q \in Requests :
       /\ req[q].pc \in Phases
       /\ req[q].spent => req[q].nonce \in 1..Len(issued)
       /\ req[q].pc = "problem" => req[q].problem # None
  /\ allowed \in 0..Cardinality(Requests)

RequestInit ==
  /\ Manager!Init
  /\ req = [q \in Requests |-> NoRequest]
  /\ allowed = 0

(* Steps of a request that leave the manager alone. *)
Go(q, pc) == req' = [req EXCEPT ![q].pc = pc] /\ UNCHANGED <<nonces, allowed>>
Problem(q, p) ==
  req' = [req EXCEPT ![q].pc = "problem", ![q].problem = p] /\ UNCHANGED <<nonces, allowed>>

(* The answer is out; what is left of the request is its nonce. *)
Answered(q, p, fresh, failed) ==
  req' = [req EXCEPT ![q] = [NoRequest EXCEPT !.pc = "answered", !.problem = p, !.fresh = fresh,
            !.failed = failed, !.spent = req[q].spent,
            !.nonce = IF req[q].spent THEN req[q].nonce ELSE 0]]
Written(q, p) == Answered(q, p, FALSE, FALSE) /\ UNCHANGED <<nonces, allowed>>

(* ServeHTTP: the directory and a profile are answered at once, without a  *)
(* nonce.                                                                  *)
ServeHTTP(q, path, method) ==
  LET start(pc, p) == /\ req' = [req EXCEPT ![q].pc = pc, ![q].path = path, ![q].problem = p]
                      /\ UNCHANGED <<nonces, allowed>>
  IN /\ req[q].pc = "idle"
     /\ \/ path = "unknown" /\ start("problem", "other")
        \/ path # "unknown" /\ ~Allows(path, method) /\ start("problem", "other")
        \/ path # "unknown" /\ Allows(path, method) /\
           \/ path \in {"directory", "profile"} /\ Written(q, None)
           \/ path \in {"profile", "renewalInfo"} /\ start("problem", "other")
           \/ path = "newNonce" /\ start("nonceLimit", None)
           \/ path = "renewalInfo" /\ start("renewalLimit", None)
           \/ path \in Signed /\ start("read", None)

(* readSignedRequest: the body and the header, which names a nonce that    *)
(* was issued once or never (0).                                           *)
ReadSignedRequest(q, h) ==
  /\ req[q].pc = "read"
  /\ IF Parse(h) # "ok" THEN Problem(q, Parse(h))
     ELSE \E n \in 0..Len(issued) :
            /\ req' = [req EXCEPT ![q].pc = "consume", ![q].nonce = n,
                         ![q].key = IF h.kid THEN "kid" ELSE "jwk"]
            /\ UNCHANGED <<nonces, allowed>>

\* Mutant: the nonce stays in the pool.
ConsumeNoncePeeks(q) ==
  LET n == req[q].nonce
  IN /\ req[q].pc = "consume"
     /\ answer' = <<n, n \in pool>>
     /\ req' = [req EXCEPT ![q].pc = IF n \in pool THEN "authenticate" ELSE "problem",
                  ![q].spent = n \in pool, ![q].problem = IF n \in pool THEN None ELSE "badNonce"]
     /\ UNCHANGED <<clock, issued, pool, allowed>>
ConsumeNonce(q) ==
  LET n == req[q].nonce
  IN /\ req[q].pc = "consume"
     /\ Manager!Consume(n)
     /\ req' = [req EXCEPT ![q].pc = IF n \in pool THEN "authenticate" ELSE "problem",
                  ![q].spent = n \in pool, ![q].problem = IF n \in pool THEN None ELSE "badNonce"]
     /\ UNCHANGED allowed

ConsumeNonceFails(q) == req[q].pc = "consume" /\ Problem(q, "other")

(* The URL, the key mode, the account of the kid and the signature.        *)
Authenticate(q) ==
  LET mode == KeyMode(req[q].path)
      fits == mode = "either" \/ mode = (IF req[q].key = "kid" THEN "account" ELSE "embedded")
  IN /\ req[q].pc = "authenticate"
     /\ \/ Problem(q, "other")   \* another URL, a bad signature or account
        \/ ~fits /\ Problem(q, "other")
        \/ fits /\ Go(q, "handle")

(* The handler decides; a success carries a nonce (writeJSON), as does a   *)
(* problem.                                                                *)
Handle(q) ==
  /\ req[q].pc = "handle"
  /\ \/ Go(q, "addNonce")
     \/ Problem(q, "other")

(* writeProblem: a request that spent no nonce asks the Limiter for one.   *)
\* Mutant: every problem carries a nonce.
WriteProblemFreely(q) == req[q].pc = "problem" /\ Go(q, "addNonce")
WriteProblem(q) ==
  /\ req[q].pc = "problem"
  /\ \/ (req[q].spent \/ ~Limited) /\ Go(q, "addNonce")
     \/ /\ ~req[q].spent /\ Limited
        /\ allowed' = allowed + 1
        /\ req' = [req EXCEPT ![q].pc = "addNonce"]
        /\ UNCHANGED nonces
     \/ /\ ~req[q].spent /\ Limited
        /\ Written(q, IF req[q].problem = "badNonce" THEN "limit" ELSE req[q].problem)

(* addNonce: an answer goes out without a nonce when none can be issued.   *)
AddNonce(q) ==
  /\ req[q].pc = "addNonce"
  /\ \/ Manager!Issue /\ Answered(q, req[q].problem, TRUE, FALSE)
     \/ Manager!Refuse /\ Answered(q, req[q].problem, FALSE, TRUE)
  /\ UNCHANGED allowed

(* serveNewNonce: the Limiter, then the manager. *)
NewNonceLimit(q) ==
  /\ req[q].pc = "nonceLimit"
  /\ \/ /\ allowed' = IF Limited THEN allowed + 1 ELSE allowed
        /\ req' = [req EXCEPT ![q].pc = "issue"]
        /\ UNCHANGED nonces
     \/ Limited /\ Written(q, "limit")

NewNonce(q) ==
  /\ req[q].pc = "issue"
  /\ \/ Manager!Issue /\ Answered(q, None, TRUE, FALSE)
     \/ Manager!Refuse /\ Answered(q, "other", FALSE, TRUE)
  /\ UNCHANGED allowed

(* serveRenewalInfo: a window without a nonce, or a problem. *)
RenewalLimit(q) ==
  /\ req[q].pc = "renewalLimit"
  /\ \/ Written(q, None)
     \/ Problem(q, "other")
     \/ Limited /\ Written(q, "limit")

Pass ==
  /\ clock < PoolTime /\ clock' = clock + 1
  /\ Manager!Pass
  /\ UNCHANGED <<req, allowed>>

RequestNext ==
  \/ \E q \in Requests :
       \/ \E path \in Paths, method \in Methods : ServeHTTP(q, path, method)
       \/ \E h \in Headers : ReadSignedRequest(q, h)
       \/ ConsumeNonce(q) \/ ConsumeNonceFails(q) \/ Authenticate(q) \/ Handle(q)
       \/ WriteProblem(q) \/ AddNonce(q)
       \/ NewNonceLimit(q) \/ NewNonce(q) \/ RenewalLimit(q)
  \/ Pass

RequestSpec == RequestInit /\ [][RequestNext]_requestVars

-----------------------------------------------------------------------------
(* No nonce authenticates two requests, however they interleave, and no    *)
(* request gets past readSignedRequest without one.                        *)
NonceSpentOnce ==
  /\ \A q \in Requests : req[q].pc = "handle" => req[q].spent
  /\ \A q, r \in Requests : q # r /\ req[q].spent /\ req[r].spent => req[q].nonce # req[r].nonce

(* Nonces are earned: every nonce given out was allowed by the Limiter or  *)
(* is the replacement of a spent one, so error answers cannot hand out     *)
(* nonces without bound (writeProblem, serveNewNonce).                     *)
NoncesEarned ==
  Limited => Len(issued) <= allowed + Cardinality({q \in Requests : req[q].spent})

(* A badNonce answer carries a nonce, unless the manager could not issue   *)
(* one: a refusal of the Limiter takes its place (writeProblem).           *)
BadNonceCarriesNonce ==
  \A q \in Requests : req[q].pc = "answered" /\ req[q].problem = "badNonce" =>
    req[q].fresh \/ req[q].failed

(* A handler runs only for a request that is signed by the kind of key its *)
(* resource requires (readSignedRequest).                                  *)
HandledByItsKey ==
  \A q \in Requests : req[q].pc = "handle" =>
    /\ req[q].path \in Signed
    /\ req[q].path = "newAccount" => req[q].key = "jwk"
    /\ req[q].path \in AccountResources => req[q].key = "kid"

(* A handler runs only for a request that spent a nonce of its own, which  *)
(* no other request spent, and that has the kind of key its resource asks  *)
(* for, however requests interleave (readSignedRequest, Consume).          *)
HandlersAdmitted == TypeOK /\ NonceSpentOnce /\ HandledByItsKey

(* Answers carry the nonces they should: every nonce given out was allowed *)
(* by the Limiter or replaces a spent one, and yet a badNonce answer has   *)
(* one, unless the manager could not issue it (writeProblem).              *)
NoncesOfAnswers == NoncesEarned /\ BadNonceCarriesNonce
=============================================================================
