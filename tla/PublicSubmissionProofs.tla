----------------------- MODULE PublicSubmissionProofs -----------------------
(***************************************************************************)
(* Theorems about PublicSubmission, for all sets of tokens, keys, contents *)
(* and calls, and every lifetime.                                          *)
(***************************************************************************)
EXTENDS PublicSubmission, TLAPS

(* A call was begun when its token was known.                               *)
CallOK(q) ==
  q.phase # "IDLE" =>
    /\ q.request \in Request /\ q.request.now <= clock
    /\ tokens[q.request.token].issued \/ q.request.token = Forged
    /\ tokens[q.request.token].issued =>
         tokens[q.request.token].issued_at <= q.request.now

CallsOK == \A c \in Calls : CallOK(calls[c])

(* A token that was never issued was never used.                            *)
TokensOK ==
  /\ ~tokens[Forged].issued
  /\ \A t \in Tokens : ~tokens[t].issued => tokens[t].used = None

TokensInTime ==
  \A t \in Tokens : tokens[t].issued => tokens[t].issued_at <= clock

(* Tokens, inquiries and receipts tell the same story.                      *)
RowsAgree ==
  /\ \A i \in inquiries : tokens[i.token].used = i.id
  /\ \A i \in inquiries : \E x \in receipts : x.id = i.id
  /\ \A i, j \in inquiries : i.id = j.id => i = j
  /\ \A x \in receipts :
       \E i \in inquiries : i.id = x.id /\ i.payload = x.payload

PublicInv ==
  /\ TypeOK /\ CallsOK /\ TokensOK /\ TokensInTime /\ RowsAgree
  /\ AtMostOneInquiry /\ ReceiptsAreTruthful /\ ConsumedInTime

USE PublicAssumption

LEMMA InitOK == Init => PublicInv
<1> SUFFICES ASSUME Init PROVE PublicInv
  OBVIOUS
<1>1. TypeOK
  BY DEF Init, TypeOK, Time, Token, Call, Phases
<1>2. CallsOK /\ ReceiptsAreTruthful
  BY DEF Init, CallsOK, CallOK, ReceiptsAreTruthful
<1>3. TokensOK /\ TokensInTime /\ RowsAgree /\ AtMostOneInquiry
        /\ ConsumedInTime
  BY DEF Init, TokensOK, TokensInTime, RowsAgree, AtMostOneInquiry, ConsumedInTime
<1> QED
  BY <1>1, <1>2, <1>3 DEF PublicInv

(* One call moves on; tokens, inquiries and receipts stay.                  *)
LEMMA CallMoves ==
  ASSUME PublicInv, NEW c \in Calls, NEW STATE q, q \in Call, CallOK(q),
         calls' = [calls EXCEPT ![c] = q],
         UNCHANGED <<clock, open, tokens, inquiries, receipts>>,
         q.reply # None /\ q.reply.code = "ACCEPTED" =>
           \E i \in inquiries : i.id = q.reply.id
                                /\ i.payload = q.request.payload
  PROVE  PublicInv'
<1>1. \A d \in Calls : calls'[d] = IF d = c THEN q ELSE calls[d]
  BY DEF PublicInv, TypeOK
<1>2. TypeOK'
  BY DEF PublicInv, TypeOK
<1>3. CallsOK'
  BY <1>1 DEF PublicInv, CallsOK, CallOK
<1>4. ReceiptsAreTruthful'
  BY <1>1 DEF PublicInv, ReceiptsAreTruthful
<1>5. TokensOK' /\ TokensInTime' /\ RowsAgree' /\ AtMostOneInquiry'
        /\ ConsumedInTime'
  BY DEF PublicInv, TokensOK, TokensInTime, RowsAgree, AtMostOneInquiry, ConsumedInTime
<1> QED
  BY <1>2, <1>3, <1>4, <1>5 DEF PublicInv

(* The end of a transaction with an answer that is true.                    *)
LEMMA FinishOK ==
  ASSUME PublicInv, NEW c \in Calls, Running(c), NEW reply \in Reply,
         Finish(c, reply),
         UNCHANGED <<clock, open, tokens, inquiries, receipts>>,
         reply.code = "ACCEPTED" =>
           \E i \in inquiries : i.id = reply.id
                                /\ i.payload = calls[c].request.payload
  PROVE  PublicInv'
<1>1. PICK phase \in {"ANSWERED", "LOST"} :
        calls' = [calls EXCEPT ![c] =
          [phase |-> phase, request |-> calls[c].request,
           reply |-> IF phase = "LOST" THEN None ELSE reply]]
  BY DEF Finish
<1> DEFINE q == [phase |-> phase, request |-> calls[c].request,
                 reply |-> IF phase = "LOST" THEN None ELSE reply]
<1>2. q \in Call
  BY DEF PublicInv, TypeOK, Call, Phases
<1>3. CallOK(q)
  BY DEF PublicInv, CallsOK, CallOK, Running
<1>4. q.reply # None => q.reply = reply
  OBVIOUS
<1>5. q.request = calls[c].request
  OBVIOUS
<1>6. calls' = [calls EXCEPT ![c] = q]
  BY <1>1
<1> HIDE DEF q
<1> QED
  BY <1>2, <1>3, <1>4, <1>5, <1>6, CallMoves

LEMMA RequestOf ==
  ASSUME PublicInv, NEW c \in Calls, Running(c)
  PROVE  /\ calls[c].request \in Request
         /\ calls[c].request.now <= clock
         /\ tokens[calls[c].request.token].issued =>
              tokens[calls[c].request.token].issued_at <= calls[c].request.now
BY DEF PublicInv, CallsOK, CallOK, Running

LEMMA ReplaysOK ==
  ASSUME PublicInv, NEW c \in Calls,
         ReplayByKey(c) \/ ReplayByToken(c) \/ Refuse(c)
  PROVE  PublicInv'
<1>1. /\ Running(c) /\ UNCHANGED <<clock, open, tokens, inquiries, receipts>>
      /\ receipts \subseteq Receipt
  BY DEF ReplayByKey, ReplayByToken, Refuse, PublicInv, TypeOK
<1>2. ASSUME NEW code \in Codes, code # "ACCEPTED", Finish(c, Refused(code))
      PROVE  PublicInv'
  <2>1. Refused(code) \in Reply /\ Refused(code).code = code
    BY DEF Refused, Reply
  <2> QED
    BY <1>1, <1>2, <2>1, FinishOK
<1>3. ASSUME NEW x \in receipts, x.payload = calls[c].request.payload,
             Finish(c, Accepted(x.id))
      PROVE  PublicInv'
  <2>1. /\ Accepted(x.id) \in Reply /\ Accepted(x.id).id = x.id
    BY <1>1 DEF Accepted, Reply, Receipt, Codes
  <2>2. \E i \in inquiries : i.id = x.id /\ i.payload = x.payload
    BY DEF PublicInv, RowsAgree
  <2> QED
    BY <1>1, <1>3, <2>1, <2>2, FinishOK
<1>4. {"IDEMPOTENCY_MISMATCH", "RESULT_EXPIRED", "SUBMISSION_ALREADY_USED",
       "SUBMISSION_EXPIRED", "OPTION_UNAVAILABLE"} \subseteq Codes
  BY DEF Codes
<1>5. CASE ReplayByKey(c)
  <2>1. PICK x \in receipts : Finish(c, KeyAnswer(x, calls[c].request))
    BY <1>5 DEF ReplayByKey, ByKey
  <2> QED
    BY <1>2, <1>3, <1>4, <2>1 DEF KeyAnswer
<1>6. CASE ReplayByToken(c)
  BY <1>2, <1>3, <1>4, <1>6 DEF ReplayByToken, PriorOf
<1>7. CASE Refuse(c)
  BY <1>2, <1>4, <1>7 DEF Refuse, Refusal
<1> QED
  BY <1>5, <1>6, <1>7

(* The transaction that accepts: the token was issued, not used, and the    *)
(* call began between its issue and its expiry.                             *)
LEMMA AcceptOK ==
  ASSUME PublicInv, NEW c \in Calls, Accept(c) PROVE PublicInv'
<1>1. Running(c)
  BY DEF Accept
<1>2. PICK r \in Request : r = calls[c].request
  BY <1>1, RequestOf
<1>3. /\ r.key \in Keys /\ r.token \in Tokens /\ r.payload \in Payloads
      /\ r.now \in Nat
  BY DEF Request, Time
<1>4. /\ ByKey(r) = {} /\ ~Used(r) /\ Refusal(r) = "NONE"
  BY <1>2 DEF Accept
<1>5. PICK id \in Ids :
        /\ \A x \in receipts : x.id # id
        /\ inquiries' = inquiries \cup {[id |-> id, token |-> r.token,
             payload |-> r.payload, received_at |-> r.now]}
        /\ receipts' = receipts \cup {[id |-> id, key |-> r.key,
             payload |-> r.payload, kept |-> TRUE]}
        /\ tokens' = [tokens EXCEPT ![r.token].used = id,
                                    ![r.token].consumed_at = r.now]
        /\ Finish(c, Accepted(id))
  BY <1>2 DEF Accept
<1>6. UNCHANGED <<clock, open>>
  BY DEF Accept
<1>7. PICK phase \in {"ANSWERED", "LOST"} :
        calls' = [calls EXCEPT ![c] =
          [phase |-> phase, request |-> calls[c].request,
           reply |-> IF phase = "LOST" THEN None ELSE Accepted(id)]]
  BY <1>5 DEF Finish
<1> DEFINE i0 == [id |-> id, token |-> r.token, payload |-> r.payload,
                  received_at |-> r.now]
           x0 == [id |-> id, key |-> r.key, payload |-> r.payload, kept |-> TRUE]
           q == [phase |-> phase, request |-> r,
                 reply |-> IF phase = "LOST" THEN None ELSE Accepted(id)]
           T == tokens[r.token]
           T1 == [T EXCEPT !.used = id, !.consumed_at = r.now]
<1>8. /\ i0 \in Inquiry /\ i0.id = id /\ i0.token = r.token
      /\ i0.payload = r.payload /\ i0.received_at = r.now
  BY <1>3 DEF Inquiry, Time
<1>9. x0 \in Receipt /\ x0.id = id /\ x0.key = r.key /\ x0.payload = r.payload
  BY <1>3 DEF Receipt
<1>10. /\ q \in Call /\ q.request = r /\ q.phase # "IDLE"
       /\ q.reply # None => q.reply.id = id
  BY DEF Call, Phases, Reply, Accepted, Codes
<1>11. /\ T \in Token /\ T.issued /\ T.used = None
       /\ T.issued_at <= r.now /\ r.now < T.expires_at
  <2>1. T \in Token
    BY <1>3 DEF PublicInv, TypeOK
  <2>2. T.issued /\ ~(T.expires_at <= r.now)
    BY <1>4 DEF Refusal
  <2>3. T.used = None
    BY <1>4 DEF Used
  <2>4. T.issued_at <= r.now
    BY <1>1, <1>2, <2>2, RequestOf
  <2> QED
    BY <1>3, <2>1, <2>2, <2>3, <2>4 DEF Token, Time
<1>12. /\ T1 \in Token /\ T1.used = id /\ T1.consumed_at = r.now
       /\ T1.issued = T.issued /\ T1.issued_at = T.issued_at
       /\ T1.expires_at = T.expires_at
  BY <1>3, <1>11 DEF Token, Time
<1>13. /\ tokens' \in [Tokens -> Token]
       /\ tokens' = [tokens EXCEPT ![r.token] = T1]
  BY <1>3, <1>5, <1>12 DEF PublicInv, TypeOK
<1>14. calls' = [calls EXCEPT ![c] = q]
  BY <1>2, <1>7
<1> HIDE DEF i0, x0, q, T1
<1>15. /\ inquiries' = inquiries \cup {i0} /\ receipts' = receipts \cup {x0}
  BY <1>5 DEF i0, x0
<1>16. /\ tokens'[r.token] = T1
       /\ \A t \in Tokens : t # r.token => tokens'[t] = tokens[t]
  BY <1>3, <1>13 DEF PublicInv, TypeOK
<1>17. \A d \in Calls : calls'[d] = IF d = c THEN q ELSE calls[d]
  BY <1>14 DEF PublicInv, TypeOK
<1>18. TypeOK'
  BY <1>6, <1>8, <1>9, <1>10, <1>13, <1>14, <1>15 DEF PublicInv, TypeOK
<1>19. CallsOK'
  <2>1. \A d \in Calls : calls'[d].request = calls[d].request
    BY <1>2, <1>10, <1>17
  <2>2. \A d \in Calls : calls'[d].phase # "IDLE" => calls[d].phase # "IDLE"
    BY <1>1, <1>17 DEF Running
  <2>3. \A t \in Tokens : /\ tokens'[t].issued = tokens[t].issued
                          /\ tokens'[t].issued_at = tokens[t].issued_at
    BY <1>11, <1>12, <1>16
  <2>4. \A d \in Calls : calls[d].phase # "IDLE" =>
                           calls[d].request.token \in Tokens
    BY DEF PublicInv, CallsOK, CallOK, Request
  <2> QED
    BY <1>6, <2>1, <2>2, <2>3, <2>4 DEF PublicInv, CallsOK, CallOK
<1>20. TokensOK' /\ TokensInTime'
  BY <1>6, <1>11, <1>12, <1>16 DEF PublicInv, TokensOK, TokensInTime
<1>21. \A i \in inquiries : i.id # id /\ i.token # r.token /\ i.token \in Tokens
  <2>1. \A i \in inquiries : i \in Inquiry /\ i.id \in Ids /\ i.token \in Tokens
    BY DEF PublicInv, TypeOK, Inquiry
  <2>2. \A i \in inquiries : i.id # id
    BY <1>5 DEF PublicInv, RowsAgree
  <2>3. \A i \in inquiries : i.token # r.token
    BY <1>11, <2>1 DEF PublicInv, RowsAgree
  <2> QED
    BY <2>1, <2>2, <2>3
<1>22. RowsAgree'
  BY <1>8, <1>9, <1>12, <1>15, <1>16, <1>21 DEF PublicInv, RowsAgree
<1>23. \A x \in receipts : x.key # r.key
  BY <1>4 DEF ByKey
<1>24. AtMostOneInquiry'
  BY <1>8, <1>9, <1>15, <1>21, <1>23 DEF PublicInv, AtMostOneInquiry
<1>25. ReceiptsAreTruthful'
  BY <1>8, <1>10, <1>15, <1>17 DEF PublicInv, ReceiptsAreTruthful
<1>26. ConsumedInTime'
  BY <1>8, <1>11, <1>12, <1>15, <1>16 DEF PublicInv, ConsumedInTime
<1> QED
  BY <1>18, <1>19, <1>20, <1>22, <1>24, <1>25, <1>26 DEF PublicInv

LEMMA IssueOK ==
  ASSUME PublicInv, NEW t \in Tokens, IssueToken(t) PROVE PublicInv'
<1>1. /\ t # Forged /\ ~tokens[t].issued
      /\ UNCHANGED <<clock, open, inquiries, receipts, calls>>
  BY DEF IssueToken
<1>2. PICK asked \in 0..clock :
        tokens' = [tokens EXCEPT ![t] =
          [issued |-> TRUE, issued_at |-> clock, expires_at |-> asked + Lifetime,
           used |-> None, consumed_at |-> 0]]
  BY DEF IssueToken
<1> DEFINE T1 == [issued |-> TRUE, issued_at |-> clock,
                  expires_at |-> asked + Lifetime, used |-> None,
                  consumed_at |-> 0]
<1>3. clock \in Nat /\ asked + Lifetime \in Nat
  BY DEF PublicInv, TypeOK, Time
<1>4. T1 \in Token /\ T1.used = None
  BY <1>3 DEF Token, Time
<1>5. tokens' \in [Tokens -> Token] /\ tokens' = [tokens EXCEPT ![t] = T1]
  BY <1>2, <1>4 DEF PublicInv, TypeOK
<1>6. T1.issued
  OBVIOUS
<1> HIDE DEF T1
<1>7. /\ tokens'[t] = T1
      /\ \A u \in Tokens : u # t => tokens'[u] = tokens[u]
  BY <1>5 DEF PublicInv, TypeOK
<1>8. TypeOK'
  BY <1>1, <1>5 DEF PublicInv, TypeOK
<1>9. tokens[t].used = None
  BY <1>1 DEF PublicInv, TokensOK
<1>10. \A c \in Calls : calls[c].phase # "IDLE" =>
         /\ calls[c].request.token # t /\ calls[c].request.token \in Tokens
  <2> SUFFICES ASSUME NEW c \in Calls, calls[c].phase # "IDLE"
               PROVE  /\ calls[c].request.token # t
                      /\ calls[c].request.token \in Tokens
    OBVIOUS
  <2>1. calls[c].request.token \in Tokens
    BY DEF PublicInv, CallsOK, CallOK, Request
  <2> QED
    BY <1>1, <2>1 DEF PublicInv, CallsOK, CallOK
<1>11. CallsOK'
  BY <1>1, <1>7, <1>10 DEF PublicInv, CallsOK, CallOK
<1>12. TokensOK' /\ TokensInTime'
  <2>1. T1.issued_at = clock
    BY DEF T1
  <2> QED
    BY <1>1, <1>3, <1>6, <1>7, <2>1 DEF PublicInv, TokensOK, TokensInTime
<1>13. \A i \in inquiries : i.token # t /\ i.token \in Tokens
  <2>1. \A i \in inquiries : i.id \in Ids /\ i.token \in Tokens
    BY DEF PublicInv, TypeOK, Inquiry
  <2> QED
    BY <1>9, <2>1 DEF PublicInv, RowsAgree
<1>14. RowsAgree'
  BY <1>1, <1>7, <1>13 DEF PublicInv, RowsAgree
<1>15. AtMostOneInquiry' /\ ReceiptsAreTruthful'
  BY <1>1 DEF PublicInv, AtMostOneInquiry, ReceiptsAreTruthful
<1>16. ConsumedInTime'
  BY <1>1, <1>4, <1>7 DEF PublicInv, ConsumedInTime
<1> QED
  BY <1>8, <1>11, <1>12, <1>14, <1>15, <1>16 DEF PublicInv

LEMMA ClientOK ==
  ASSUME PublicInv, NEW c \in Calls, Begin(c) \/ Retry(c) PROVE PublicInv'
<1>1. clock \in Nat
  BY DEF PublicInv, TypeOK, Time
<1>2. ASSUME NEW r \in Request, r.now = clock,
             tokens[r.token].issued \/ r.token = Forged,
             tokens[r.token].issued => tokens[r.token].issued_at <= r.now,
             calls' = [calls EXCEPT ![c] =
               [phase |-> "RUNNING", request |-> r, reply |-> None]],
             UNCHANGED <<clock, open, tokens, inquiries, receipts>>
      PROVE  PublicInv'
  <2> DEFINE q == [phase |-> "RUNNING", request |-> r, reply |-> None]
  <2>1. q \in Call
    BY DEF Call, Phases
  <2>2. CallOK(q)
    <3>1. r.now <= clock
      BY <1>1, <1>2
    <3> QED
      BY <1>2, <3>1 DEF CallOK
  <2>3. q.reply = None
    OBVIOUS
  <2> HIDE DEF q
  <2> QED
    BY <1>2, <2>1, <2>2, <2>3, CallMoves DEF q
<1>3. CASE Begin(c)
  <2>1. PICK k \in Keys, t \in Tokens, p \in Payloads :
          /\ tokens[t].issued \/ t = Forged
          /\ calls' = [calls EXCEPT ![c] =
               [phase |-> "RUNNING",
                request |-> [key |-> k, token |-> t, payload |-> p, now |-> clock],
                reply |-> None]]
    BY <1>3 DEF Begin
  <2>2. PICK r : r = [key |-> k, token |-> t, payload |-> p, now |-> clock]
    OBVIOUS
  <2>3. r \in Request /\ r.token = t /\ r.now = clock
    BY <1>1, <2>2 DEF Request, Time
  <2>4. tokens[t].issued => tokens[t].issued_at <= clock
    BY DEF PublicInv, TokensInTime
  <2> QED
    BY <1>2, <1>3, <2>1, <2>2, <2>3, <2>4 DEF Begin
<1>4. CASE Retry(c)
  <2>1. calls[c].phase # "IDLE"
    BY <1>4 DEF Retry
  <2>2. PICK q \in Request : q = calls[c].request
    BY <2>1 DEF PublicInv, CallsOK, CallOK
  <2>3. /\ q.now \in Nat /\ q.now <= clock /\ q.token \in Tokens
        /\ tokens[q.token].issued \/ q.token = Forged
        /\ tokens[q.token].issued => tokens[q.token].issued_at <= q.now
        /\ tokens[q.token] \in Token
    BY <2>1, <2>2 DEF PublicInv, CallsOK, CallOK, Request, TypeOK, Time
  <2>4. PICK r : r = [q EXCEPT !.now = clock]
    OBVIOUS
  <2>5. r \in Request /\ r.token = q.token /\ r.now = clock
    BY <1>1, <2>4 DEF Request, Time
  <2>6. tokens[q.token].issued => tokens[q.token].issued_at <= clock
    BY <2>3 DEF PublicInv, TokensInTime
  <2>7. /\ calls' = [calls EXCEPT ![c] =
             [phase |-> "RUNNING", request |-> r, reply |-> None]]
        /\ UNCHANGED <<clock, open, tokens, inquiries, receipts>>
    BY <1>4, <2>2, <2>4 DEF Retry
  <2> QED
    BY <1>2, <2>3, <2>5, <2>6, <2>7
<1> QED
  BY <1>3, <1>4

(* Time goes on, and the catalogue changes.                                 *)
LEMMA WorldOK ==
  ASSUME PublicInv, Tick \/ ToggleOption \/ UNCHANGED vars PROVE PublicInv'
<1>1. /\ clock \in Nat /\ clock' \in Nat /\ clock <= clock'
      /\ UNCHANGED <<tokens, inquiries, receipts, calls>> /\ open' \in BOOLEAN
  <2>1. clock \in Nat /\ open \in BOOLEAN
    BY DEF PublicInv, TypeOK, Time
  <2>2. clock' = clock + 1 \/ clock' = clock
    BY DEF Tick, ToggleOption, vars
  <2>3. open' \in BOOLEAN
    BY <2>1 DEF Tick, ToggleOption, vars
  <2>4. UNCHANGED <<tokens, inquiries, receipts, calls>>
    BY DEF Tick, ToggleOption, vars
  <2> QED
    BY <2>1, <2>2, <2>3, <2>4
<1>2. TypeOK'
  BY <1>1 DEF PublicInv, TypeOK, Time
<1>3. CallsOK'
  <2>1. \A c \in Calls : calls[c].phase # "IDLE" => calls[c].request.now \in Nat
    BY DEF PublicInv, CallsOK, CallOK, Request, Time
  <2> QED
    BY <1>1, <2>1 DEF PublicInv, CallsOK, CallOK
<1>4. TokensInTime'
  <2>1. \A t \in Tokens : tokens[t].issued_at \in Nat
    BY DEF PublicInv, TypeOK, Token, Time
  <2> QED
    BY <1>1, <2>1 DEF PublicInv, TokensInTime
<1>5. /\ TokensOK' /\ RowsAgree' /\ AtMostOneInquiry' /\ ReceiptsAreTruthful'
      /\ ConsumedInTime'
  BY <1>1 DEF PublicInv, TokensOK, RowsAgree, AtMostOneInquiry,
              ReceiptsAreTruthful, ConsumedInTime
<1> QED
  BY <1>2, <1>3, <1>4, <1>5 DEF PublicInv

(* A result is removed; its key and its token stay spent.                   *)
LEMMA RemoveOK ==
  ASSUME PublicInv, NEW x \in receipts, RemoveResult(x) PROVE PublicInv'
<1> DEFINE y == [x EXCEPT !.kept = FALSE]
<1>1. x \in Receipt
  BY DEF PublicInv, TypeOK
<1>2. /\ y \in Receipt /\ y.id = x.id /\ y.key = x.key
      /\ y.payload = x.payload
  BY <1>1 DEF Receipt
<1>3. /\ receipts' = (receipts \ {x}) \cup {y}
      /\ UNCHANGED <<clock, open, tokens, inquiries, calls>>
  BY DEF RemoveResult
<1> HIDE DEF y
<1>4. TypeOK'
  BY <1>2, <1>3 DEF PublicInv, TypeOK
<1>5. /\ CallsOK' /\ TokensOK' /\ TokensInTime' /\ ReceiptsAreTruthful'
      /\ ConsumedInTime'
  BY <1>3 DEF PublicInv, CallsOK, CallOK, TokensOK, TokensInTime,
              ReceiptsAreTruthful, ConsumedInTime
<1>6. RowsAgree'
  BY <1>2, <1>3 DEF PublicInv, RowsAgree
<1>7. AtMostOneInquiry'
  BY <1>2, <1>3 DEF PublicInv, AtMostOneInquiry
<1> QED
  BY <1>4, <1>5, <1>6, <1>7 DEF PublicInv

LEMMA StepOK == PublicInv /\ [Next]_vars => PublicInv'
BY IssueOK, ClientOK, ReplaysOK, AcceptOK, WorldOK, RemoveOK
DEF Next, Transaction

LEMMA AlwaysInv == Spec => []PublicInv
BY InitOK, StepOK, PTL DEF Spec

-----------------------------------------------------------------------------

\* Tokens, inquiries, receipts and calls keep their shapes in every order of
\* the transactions and of lost answers (inquiries.py, public_submission.py).
THEOREM TypeCorrect == Spec => []TypeOK
<1>1. PublicInv => TypeOK
  BY DEF PublicInv
<1> QED
  BY <1>1, AlwaysInv, PTL

\* One token gives one inquiry and one key one receipt, for any number of
\* calls that race with times they took before the guard (inquiries.py:147).
THEOREM OneInquiry == Spec => []AtMostOneInquiry
<1>1. PublicInv => AtMostOneInquiry
  BY DEF PublicInv
<1> QED
  BY <1>1, AlwaysInv, PTL

\* Whoever is told that a submission was received has an inquiry with the very
\* contents it sent, also when key, token or a repetition led to the answer
\* (inquiries.py:153-183).
THEOREM ReceiptsCorrect == Spec => []ReceiptsAreTruthful
<1>1. PublicInv => ReceiptsAreTruthful
  BY DEF PublicInv
<1> QED
  BY <1>1, AlwaysInv, PTL

\* A token is used between its issue and its expiry and names the inquiry it
\* gave, although the time of a call may be older than what it reads
\* (inquiries.py:171-204).
THEOREM TokensUsedInTime == Spec => []ConsumedInTime
<1>1. PublicInv => ConsumedInTime
  BY DEF PublicInv
<1> QED
  BY <1>1, AlwaysInv, PTL
=============================================================================
