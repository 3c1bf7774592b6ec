-------------------------- MODULE PublicSubmission --------------------------
(***************************************************************************)
(* The public form: one-time submission tokens and the command that turns  *)
(* a submission into an inquiry (public_submission.py, inquiries.py).      *)
(*                                                                         *)
(* The command takes the time before it asks for the guard row and then    *)
(* runs as one transaction under the guard.  So a call is two steps: Begin *)
(* fixes the request and the time, and one of the outcomes below is the    *)
(* transaction.  Calls of several server processes wait for the guard in   *)
(* any order, so a call may be decided by a time that is older than what   *)
(* the transaction reads.  The answer to a call may be lost, and the       *)
(* client may send the same submission again.                              *)
(***************************************************************************)
EXTENDS Naturals, FiniteSets

CONSTANTS
  Tokens,      \* submission tokens
  Forged,      \* a token that is never issued
  Keys,        \* Idempotency-Key values
  Payloads,    \* normalised contents of the form, without the token
  Ids,         \* identifiers drawn for accepted inquiries and their receipts
  Calls,       \* concurrent requests to the server processes
  Lifetime,    \* how long a token may be used (24 hours)
  MaxTime,     \* bound of the clock
  MaxRemoved,  \* bound of the results removed by retention
  None

ASSUME PublicAssumption ==
  /\ Lifetime \in Nat /\ MaxTime \in Nat /\ MaxRemoved \in Nat
  /\ Forged \in Tokens
  /\ None \notin Ids \cup Tokens \cup Keys \cup Payloads

VARIABLES
  clock,    \* the time of the server and of the database
  open,     \* whether the chosen option and its service are active
  tokens,   \* table submission_tokens
  inquiries,\* table inquiries, with the token of the submission
  receipts, \* operation_receipts of the scope PUBLIC_FORM
  calls     \* the requests in flight and their answers

vars == <<clock, open, tokens, inquiries, receipts, calls>>

Time == Nat
Token == [issued : BOOLEAN, issued_at : Time, expires_at : Time,
          used : Ids \cup {None}, consumed_at : Time]
Inquiry == [id : Ids, token : Tokens, payload : Payloads, received_at : Time]
Receipt == [id : Ids, key : Keys, payload : Payloads, kept : BOOLEAN]
Codes == {"ACCEPTED", "IDEMPOTENCY_MISMATCH", "RESULT_EXPIRED",
          "SUBMISSION_EXPIRED", "SUBMISSION_ALREADY_USED",
          "OPTION_UNAVAILABLE"}
Reply == [code : Codes, id : Ids \cup {None}]
Phases == {"IDLE", "RUNNING", "LOST", "ANSWERED"}
Request == [key : Keys, token : Tokens, payload : Payloads, now : Time]
Call == [phase : Phases, request : Request \cup {None},
         reply : Reply \cup {None}]

Accepted(id) == [code |-> "ACCEPTED", id |-> id]
Refused(code) == [code |-> code, id |-> None]

-----------------------------------------------------------------------------
(* Queries.                                                                 *)

ByKey(r) == {x \in receipts : x.key = r.key}

\* Mutant: a retry under another key is compared with nothing.
AnyPayload(r) == {x \in receipts : x.id = tokens[r.token].used}

\* The receipt for which the token was used, if its payload is this one and
\* the transaction believes that it lies in its past.
PriorOf(r) ==
  {x \in receipts :
     /\ x.id = tokens[r.token].used
     /\ tokens[r.token].consumed_at <= r.now
     /\ x.payload = r.payload
     /\ x.kept}

\* Mutant: the token may be used at the very moment it expires, or later.
LateRefusal(r) ==
  IF ~tokens[r.token].issued THEN "SUBMISSION_EXPIRED"
  ELSE IF ~open THEN "OPTION_UNAVAILABLE"
  ELSE "NONE"

\* Mutant: a code that the error map does not know.
UnmappedRefusal(r) ==
  IF ~tokens[r.token].issued THEN "SUBMISSION_UNKNOWN"
  ELSE IF tokens[r.token].expires_at <= r.now THEN "SUBMISSION_EXPIRED"
  ELSE IF ~open THEN "OPTION_UNAVAILABLE"
  ELSE "NONE"

\* Why a submission with an unused token is not accepted.
Refusal(r) ==
  IF ~tokens[r.token].issued THEN "SUBMISSION_EXPIRED"
  ELSE IF tokens[r.token].expires_at <= r.now THEN "SUBMISSION_EXPIRED"
  ELSE IF ~open THEN "OPTION_UNAVAILABLE"
  ELSE "NONE"

\* Mutant: a used token is as good as an unused one.
NeverUsed(r) == FALSE

Used(r) == tokens[r.token].used # None

-----------------------------------------------------------------------------
(* The end of a transaction: the answer reaches the client or is lost.      *)

Finish(c, reply) ==
  \E phase \in {"ANSWERED", "LOST"} :
    calls' = [calls EXCEPT ![c] =
      [phase |-> phase, request |-> @.request,
       reply |-> IF phase = "LOST" THEN None ELSE reply]]

Running(c) == calls[c].phase = "RUNNING"

\* Mutant: the digest of the payload covers the time of the request.
TimedAnswer(x, r) ==
  IF \E i \in inquiries : i.id = x.id /\ i.received_at = r.now
  THEN Accepted(x.id) ELSE Refused("IDEMPOTENCY_MISMATCH")

KeyAnswer(x, r) ==
  IF x.payload # r.payload THEN Refused("IDEMPOTENCY_MISMATCH")
  ELSE IF ~x.kept THEN Refused("RESULT_EXPIRED")
  ELSE Accepted(x.id)

\* The key is known: its receipt decides, whatever the token.
ReplayByKey(c) ==
  /\ Running(c)
  /\ \E x \in ByKey(calls[c].request) :
       Finish(c, KeyAnswer(x, calls[c].request))
  /\ UNCHANGED <<clock, open, tokens, inquiries, receipts>>

\* Another key, but the token was used already.
ReplayByToken(c) ==
  /\ Running(c)
  /\ ByKey(calls[c].request) = {}
  /\ Used(calls[c].request)
  /\ \/ \E x \in PriorOf(calls[c].request) : Finish(c, Accepted(x.id))
     \/ /\ PriorOf(calls[c].request) = {}
        /\ Finish(c, Refused("SUBMISSION_ALREADY_USED"))
  /\ UNCHANGED <<clock, open, tokens, inquiries, receipts>>

Refuse(c) ==
  /\ Running(c)
  /\ ByKey(calls[c].request) = {}
  /\ ~Used(calls[c].request)
  /\ Refusal(calls[c].request) # "NONE"
  /\ Finish(c, Refused(Refusal(calls[c].request)))
  /\ UNCHANGED <<clock, open, tokens, inquiries, receipts>>

\* The inquiry, its receipt and the use of the token are one transaction.
Accept(c) ==
  LET r == calls[c].request IN
  /\ Running(c)
  /\ ByKey(r) = {}
  /\ ~Used(r)
  /\ Refusal(r) = "NONE"
  /\ \E id \in Ids :
       /\ \A x \in receipts : x.id # id
       /\ inquiries' = inquiries \cup {[id |-> id, token |-> r.token,
            payload |-> r.payload, received_at |-> r.now]}
       /\ receipts' = receipts \cup {[id |-> id, key |-> r.key,
            payload |-> r.payload, kept |-> TRUE]}
       /\ tokens' = [tokens EXCEPT ![r.token].used = id,
                                   ![r.token].consumed_at = r.now]
       /\ Finish(c, Accepted(id))
  /\ UNCHANGED <<clock, open>>

-----------------------------------------------------------------------------
(* Clients, time, and the world around.                                     *)

\* issue_token: the expiry was computed when the request came in, before the
\* guard was free.  The database refuses a token that is already expired.
IssueToken(t) ==
  /\ t # Forged
  /\ ~tokens[t].issued
  /\ \E asked \in 0..clock :
       /\ asked + Lifetime > clock
       /\ tokens' = [tokens EXCEPT ![t] =
            [issued |-> TRUE, issued_at |-> clock,
             expires_at |-> asked + Lifetime, used |-> None,
             consumed_at |-> 0]]
  /\ UNCHANGED <<clock, open, inquiries, receipts, calls>>

\* A new submission: any key, any form, any token that can be known.
Begin(c) ==
  /\ calls[c].phase \in {"IDLE", "ANSWERED"}
  /\ \E k \in Keys, t \in Tokens, p \in Payloads :
       /\ tokens[t].issued \/ t = Forged
       /\ calls' = [calls EXCEPT ![c] =
            [phase |-> "RUNNING",
             request |-> [key |-> k, token |-> t, payload |-> p,
                          now |-> clock],
             reply |-> None]]
  /\ UNCHANGED <<clock, open, tokens, inquiries, receipts>>

\* The client that got no answer sends the same submission again.
Retry(c) ==
  /\ calls[c].phase = "LOST"
  /\ calls' = [calls EXCEPT ![c] =
       [phase |-> "RUNNING", request |-> [@.request EXCEPT !.now = clock],
        reply |-> None]]
  /\ UNCHANGED <<clock, open, tokens, inquiries, receipts>>

Tick ==
  /\ clock < MaxTime
  /\ clock' = clock + 1
  /\ UNCHANGED <<open, tokens, inquiries, receipts, calls>>

\* The catalogue (external): the option is taken from the form or put back.
ToggleOption ==
  /\ open' = ~open
  /\ UNCHANGED <<clock, tokens, inquiries, receipts, calls>>

\* Retention (external): the result goes, the spent key and token stay.
RemoveResult(x) ==
  /\ x.kept
  /\ Cardinality({y \in receipts : ~y.kept}) < MaxRemoved
  /\ receipts' = (receipts \ {x}) \cup {[x EXCEPT !.kept = FALSE]}
  /\ UNCHANGED <<clock, open, tokens, inquiries, calls>>

-----------------------------------------------------------------------------
Init ==
  /\ clock = 0 /\ open = TRUE
  /\ tokens = [t \in Tokens |->
       [issued |-> FALSE, issued_at |-> 0, expires_at |-> 0, used |-> None,
        consumed_at |-> 0]]
  /\ inquiries = {} /\ receipts = {}
  /\ calls = [c \in Calls |->
       [phase |-> "IDLE", request |-> None, reply |-> None]]

Transaction(c) ==
  ReplayByKey(c) \/ ReplayByToken(c) \/ Refuse(c) \/ Accept(c)

Next ==
  \/ \E t \in Tokens : IssueToken(t)
  \/ \E c \in Calls : Begin(c) \/ Retry(c) \/ Transaction(c)
  \/ Tick \/ ToggleOption
  \/ \E x \in receipts : RemoveResult(x)

Spec == Init /\ [][Next]_vars

\* The guard is released by every transaction, so each call gets its turn; a
\* client keeps asking until it is answered; the network does not lose every
\* answer to a call that is asked again and again.
Answered(c) == Transaction(c) /\ calls'[c].phase = "ANSWERED"

FairSpec ==
  /\ Spec
  /\ \A c \in Calls : /\ WF_vars(Retry(c))
                      /\ WF_vars(Transaction(c))
                      /\ SF_vars(Answered(c))

-----------------------------------------------------------------------------
(* Properties.                                                              *)

\* Every row, call and answer has its shape.
TypeOK ==
  /\ clock \in Time /\ open \in BOOLEAN
  /\ tokens \in [Tokens -> Token]
  /\ inquiries \subseteq Inquiry
  /\ receipts \subseteq Receipt
  /\ calls \in [Calls -> Call]

\* One token, one inquiry; one key, one receipt (api.md, section 4): however
\* often and under whatever keys a submission is repeated.
AtMostOneInquiry ==
  /\ \A a, b \in inquiries : a.token = b.token => a = b
  /\ \A a, b \in receipts : a.key = b.key => a = b

\* A client that is told its submission was received has an inquiry with the
\* very contents it sent, whichever key or token led to the answer.
ReceiptsAreTruthful ==
  \A c \in Calls :
    (calls[c].reply # None /\ calls[c].reply.code = "ACCEPTED") =>
      \E i \in inquiries : /\ i.id = calls[c].reply.id
                           /\ i.payload = calls[c].request.payload

\* A token is used within its life, and its row says for which receipt: the
\* constraint submission_tokens_consumption never stops a submission.
ConsumedInTime ==
  \A t \in Tokens :
    tokens[t].used # None =>
      /\ tokens[t].issued_at <= tokens[t].consumed_at
      /\ tokens[t].consumed_at < tokens[t].expires_at
      /\ \E i \in inquiries : /\ i.id = tokens[t].used
                              /\ i.token = t
                              /\ i.received_at = tokens[t].consumed_at

\* A used token answers with the prior receipt whenever the payload is the
\* same (api.md, section 4).
SamePayloadGetsReceipt ==
  \A c \in Calls :
    (calls[c].reply # None
     /\ calls[c].reply.code = "SUBMISSION_ALREADY_USED") =>
      \A x \in receipts : x.id = tokens[calls[c].request.token].used =>
                            x.payload # calls[c].request.payload

\* A lost answer is recovered (api.md, section 4): a client whose submission
\* was stored and that keeps sending it gets the receipt, although meanwhile
\* the token expires, the option closes and other calls use the same key.
OwnReceipts(r) == {x \in ByKey(r) : x.payload = r.payload}

LostAnswersAreRecovered ==
  \A c \in Calls :
    (calls[c].phase = "LOST" /\ OwnReceipts(calls[c].request) # {})
      ~> /\ calls[c].phase = "ANSWERED"
         /\ \E x \in OwnReceipts(calls[c].request) :
              \/ calls[c].reply = Accepted(x.id)
              \/ ~x.kept /\ calls[c].reply = Refused("RESULT_EXPIRED")
=============================================================================
