------------------------ MODULE OwnerSessionsProofs ------------------------
(***************************************************************************)
(* Theorems about OwnerSessions, for every number of tabs, of requests in  *)
(* flight and every scenario.                                              *)
(***************************************************************************)
EXTENDS OwnerSessions, TLAPS

(* What a session says of the account; before provisioning there is none.   *)
SessionsOK ==
  /\ account.credentials = 0 => ~account.enabled
  /\ cookie <= Len(sessions)
  /\ \A n \in DOMAIN sessions :
       /\ sessions[n].credentials = sessions[n].proven
       /\ sessions[n].proven \in 1..account.credentials

(* What a request has read, and what it names.                              *)
RequestOK(q) ==
  /\ q.token <= Len(sessions) /\ q.made <= Len(sessions)
  /\ q.kind = "LOGIN" /\ q.phase = "CHECKED" =>
       q.seen \in 1..account.credentials
  /\ q.phase = "RECHECKED" => q.token \in DOMAIN sessions
  /\ q.late => /\ Over(q.token) /\ q.kind # "LOGIN"
               /\ q.phase \in {"SENT", "ANSWERED"} /\ q.answer # "OK"

RequestsOK == \A r \in Slots : requests[r] # None => RequestOK(requests[r])

SessionInv == TypeOK /\ SessionsOK /\ EachSignOutEndsOne /\ RequestsOK

USE SessionsAssumption

LEMMA InitOK == Init => SessionInv
<1> SUFFICES ASSUME Init PROVE SessionInv
  OBVIOUS
<1>1. left \in Scenario
  BY DEF Init
<1>2. NewSession(1, 1) \in Session
  BY DEF NewSession, Session
<1>3. /\ sessions \in Seq(Session)
      /\ cookie = Len(sessions) /\ cookie \in Nat
      /\ \A n \in DOMAIN sessions : sessions[n] = NewSession(1, 1)
      /\ sessions # <<>> => left.signedIn
  BY <1>1, <1>2 DEF Init, Scenario
<1>4. TypeOK
  BY <1>1, <1>3 DEF Init, TypeOK, Account, Scenario, Screens
<1>5. SessionsOK /\ EachSignOutEndsOne
  BY <1>1, <1>3 DEF Init, Scenario, SessionsOK, EachSignOutEndsOne, NewSession
<1> QED
  BY <1>4, <1>5 DEF Init, SessionInv, RequestsOK

(***************************************************************************)
(* Sessions are added and end, credentials only advance: what was over     *)
(* stays over, and a request that was right stays right.                   *)
(***************************************************************************)
Grows ==
  /\ Len(sessions) <= Len(sessions')
  /\ \A n \in DOMAIN sessions :
       /\ sessions'[n].proven = sessions[n].proven
       /\ sessions[n].ended > 0 => sessions'[n].ended > 0
       /\ sessions[n].expired => sessions'[n].expired
  /\ account.credentials <= account'.credentials
  /\ account'.enabled => account.enabled \/ account.credentials = 0

LEMMA OverStays ==
  ASSUME SessionInv, TypeOK', Grows, NEW n \in Nat, n <= Len(sessions), Over(n)
  PROVE  Over(n)'
<1> sessions \in Seq(Session) /\ sessions' \in Seq(Session)
  BY DEF SessionInv, TypeOK
<1>1. DOMAIN sessions = 1..Len(sessions) /\ DOMAIN sessions' = 1..Len(sessions')
  OBVIOUS
<1>2. CASE n \notin DOMAIN sessions
  BY <1>1, <1>2 DEF Over
<1>3. CASE n \in DOMAIN sessions
  <2>1. sessions[n] \in Session /\ sessions[n].proven \in 1..account.credentials
    BY <1>3 DEF SessionInv, SessionsOK
  <2>2. /\ account.credentials \in Nat /\ account'.credentials \in Nat
        /\ sessions[n].proven \in Nat
    BY <2>1 DEF SessionInv, TypeOK, Account, Session
  <2>3. account'.enabled => account.enabled
    BY <2>1, <2>2 DEF Grows
  <2>4. /\ sessions'[n].proven = sessions[n].proven
        /\ sessions[n].ended > 0 => sessions'[n].ended > 0
        /\ sessions[n].expired => sessions'[n].expired
    BY <1>3 DEF Grows
  <2>5. CASE sessions[n].proven # account.credentials
    BY <2>1, <2>2, <2>4, <2>5 DEF Over, Grows
  <2> QED
    BY <1>3, <2>3, <2>4, <2>5 DEF Over
<1> QED
  BY <1>2, <1>3

LEMMA RequestStays ==
  ASSUME SessionInv, TypeOK', Grows, NEW q \in Request, RequestOK(q)
  PROVE  RequestOK(q)'
<1> sessions \in Seq(Session) /\ sessions' \in Seq(Session)
  BY DEF SessionInv, TypeOK
<1>1. q.token \in Nat /\ q.made \in Nat /\ q.seen \in Nat
  BY DEF Request
<1>2. account.credentials \in Nat /\ account'.credentials \in Nat
  BY DEF SessionInv, TypeOK, Account
<1>3. q.late => Over(q.token)'
  BY <1>1, OverStays DEF RequestOK
<1> QED
  BY <1>1, <1>2, <1>3 DEF RequestOK, Grows

(* A step in which every request stays, loses its tab, or is right anew.    *)
LEMMA RequestsStay ==
  ASSUME SessionInv, TypeOK', Grows,
         \A r \in Slots : \/ requests'[r] = None
                          \/ requests[r] # None /\ requests'[r] = requests[r]
                          \/ /\ requests[r] # None
                             /\ requests'[r] = [requests[r] EXCEPT !.tab = None]
                          \/ RequestOK(requests[r])'
  PROVE  RequestsOK'
<1> SUFFICES ASSUME NEW r \in Slots, requests'[r] # None
             PROVE  RequestOK(requests[r])'
  BY DEF RequestsOK
<1>1. ASSUME requests[r] # None,
             \/ requests'[r] = requests[r]
             \/ requests'[r] = [requests[r] EXCEPT !.tab = None]
      PROVE  RequestOK(requests[r])'
  <2>1. PICK q \in Request : q = requests[r]
    BY <1>1 DEF SessionInv, TypeOK
  <2>2. RequestOK(q)
    BY <1>1, <2>1 DEF SessionInv, RequestsOK
  <2>3. RequestOK(q)'
    BY <2>2, RequestStays
  <2>4. CASE requests'[r] = q
    BY <2>3, <2>4 DEF RequestOK
  <2>5. CASE requests'[r] = [q EXCEPT !.tab = None]
    <3>1. /\ requests'[r].token = q.token /\ requests'[r].made = q.made
          /\ requests'[r].kind = q.kind /\ requests'[r].phase = q.phase
          /\ requests'[r].seen = q.seen /\ requests'[r].late = q.late
          /\ requests'[r].answer = q.answer
      BY <2>5 DEF Request
    <3> QED
      BY <2>3, <3>1 DEF RequestOK
  <2> QED
    BY <1>1, <2>1, <2>4, <2>5
<1> QED
  BY <1>1

-----------------------------------------------------------------------------
(* Steps that leave the sessions and the account alone.                     *)

LEMMA QuietStep ==
  ASSUME SessionInv, UNCHANGED <<account, sessions>>, cookie' <= Len(sessions)
  PROVE  Grows /\ SessionsOK' /\ EachSignOutEndsOne'
<1> sessions \in Seq(Session) /\ account.credentials \in Nat
  BY DEF SessionInv, TypeOK, Account
<1>1. Len(sessions) \in Nat
  OBVIOUS
<1> QED
  BY <1>1 DEF SessionInv, SessionsOK, EachSignOutEndsOne, Grows

(* The slot r moves on, the others stay.                                    *)
LEMMA SlotMoves ==
  ASSUME SessionInv, TypeOK', Grows, NEW r \in Slots, NEW STATE q,
         Continues(r, q), requests'[r] # None => RequestOK(requests[r])'
  PROVE  RequestsOK'
<1>1. \A s \in Slots : s # r => requests'[s] = requests[s]
  BY DEF Continues, SessionInv, TypeOK
<1> QED
  BY <1>1, RequestsStay

LEMMA NewOK ==
  ASSUME SessionInv, NEW t \in Tabs, NEW kind \in Kinds, NEW p \in Nat
  PROVE  New(t, kind, p) \in Request /\ RequestOK(New(t, kind, p))
<1>1. /\ cookie \in Nat /\ csrf[t] \in Nat /\ cookie <= Len(sessions)
      /\ Len(sessions) \in Nat
  BY DEF SessionInv, TypeOK, SessionsOK
<1>2. New(t, kind, p) \in Request
  BY <1>1 DEF New, Request, Kinds
<1>3. None # "OK"
  BY DEF Answers
<1> DEFINE q == New(t, kind, p)
<1>4. /\ q.kind = kind /\ q.token = cookie /\ q.made = 0
      /\ q.phase = "SENT" /\ q.answer = None
  BY DEF New
<1>5. q.late = (kind # "LOGIN" /\ Over(cookie))
  BY DEF New
<1> HIDE DEF q
<1>6. RequestOK(q)
  <2>1. q.late => Over(q.token) /\ q.kind # "LOGIN"
    BY <1>4, <1>5
  <2> QED
    BY <1>1, <1>3, <1>4, <2>1 DEF RequestOK
<1> QED
  BY <1>2, <1>6 DEF q

(* A request is sent: its slot gets it, the others keep what they had.      *)
LEMMA SendOK ==
  ASSUME SessionInv, NEW STATE rs, NEW STATE q, Sends(rs, q),
         UNCHANGED <<account, sessions, cookie>>,
         rs \in [Slots -> Request \cup {None}],
         \A r \in Slots : \/ rs[r] = requests[r]
                          \/ /\ requests[r] # None
                             /\ rs[r] = [requests[r] EXCEPT !.tab = None],
         q \in Request, RequestOK(q),
         csrf' \in [Tabs -> Nat], screen' \in [Tabs -> Screens],
         left' \in Scenario
  PROVE  SessionInv'
<1>1. requests' \in [Slots -> Request \cup {None}]
  BY DEF Sends
<1>2. TypeOK'
  BY <1>1 DEF SessionInv, TypeOK
<1>3. Grows /\ SessionsOK' /\ EachSignOutEndsOne'
  BY QuietStep DEF SessionInv, SessionsOK
<1>4. \A r \in Slots : requests'[r] = rs[r] \/ requests'[r] = q
  BY DEF Sends
<1>5. \A r \in Slots : requests'[r] = q => RequestOK(requests[r])'
  BY DEF RequestOK, Over
<1>6. RequestsOK'
  BY <1>2, <1>3, <1>4, <1>5, RequestsStay
<1> QED
  BY <1>2, <1>3, <1>6 DEF SessionInv

LEMMA SpendType ==
  ASSUME TypeOK, NEW act \in Acts, Spend(act) PROVE left' \in Scenario
<1>1. /\ left \in Scenario /\ left.may \in [Acts -> Nat]
      /\ left.may[act] \in Nat /\ left.may[act] > 0
  BY DEF TypeOK, Spend, Scenario
<1> DEFINE m == [left.may EXCEPT ![act] = @ - 1]
<1>2. m \in [Acts -> Nat]
  BY <1>1
<1>3. left' = [left EXCEPT !.may = m]
  BY DEF Spend
<1> HIDE DEF m
<1> QED
  BY <1>1, <1>2, <1>3 DEF Scenario

LEMMA SendsOK ==
  ASSUME SessionInv, NEW t \in Tabs,
         Load(t) \/ SignIn(t) \/ SignOut(t) \/ SendCommand(t)
  PROVE  SessionInv'
<1>1. /\ csrf \in [Tabs -> Nat] /\ screen \in [Tabs -> Screens]
      /\ requests \in [Slots -> Request \cup {None}]
      /\ account.credentials \in Nat /\ TypeOK
  BY DEF SessionInv, TypeOK, Account
<1>2. CASE Load(t)
  <2>1. Orphaned(t) \in [Slots -> Request \cup {None}]
    BY <1>1 DEF Orphaned, Request
  <2> DEFINE q == [New(t, "SESSION", 0) EXCEPT !.csrf = 0]
  <2>2. q \in Request /\ RequestOK(q)
    <3>1. New(t, "SESSION", 0) \in Request /\ RequestOK(New(t, "SESSION", 0))
      BY NewOK DEF Kinds
    <3> QED
      BY <3>1 DEF Request, RequestOK
  <2> HIDE DEF q
  <2>3. csrf' \in [Tabs -> Nat] /\ screen' \in [Tabs -> Screens]
    BY <1>1, <1>2 DEF Load, Screens
  <2>4. left' \in Scenario
    BY <1>1, <1>2, SpendType DEF Load, Acts
  <2>5. Sends(Orphaned(t), q) /\ UNCHANGED <<account, sessions, cookie>>
    BY <1>2 DEF Load, q
  <2>6. \A r \in Slots :
          \/ Orphaned(t)[r] = requests[r]
          \/ /\ requests[r] # None
             /\ Orphaned(t)[r] = [requests[r] EXCEPT !.tab = None]
    BY DEF Orphaned
  <2> QED
    BY <2>1, <2>2, <2>3, <2>4, <2>5, <2>6, SendOK
<1>3. CASE SignIn(t)
  <2>1. PICK p \in {0, account.credentials} : Sends(requests, New(t, "LOGIN", p))
    BY <1>3 DEF SignIn
  <2>2. p \in Nat
    BY <1>1
  <2>3. New(t, "LOGIN", p) \in Request /\ RequestOK(New(t, "LOGIN", p))
    BY <2>2, NewOK DEF Kinds
  <2>4. left' \in Scenario /\ UNCHANGED <<account, sessions, cookie, csrf, screen>>
    BY <1>1, <1>3, SpendType DEF SignIn, Acts
  <2> QED
    BY <1>1, <2>1, <2>3, <2>4, SendOK
<1>4. ASSUME SignOut(t) \/ SendCommand(t) PROVE SessionInv'
  <2>1. PICK kind \in {"SIGN_OUT", "COMMAND"} : Sends(requests, New(t, kind, 0))
    BY <1>4 DEF SignOut, SendCommand
  <2>2. New(t, kind, 0) \in Request /\ RequestOK(New(t, kind, 0))
    BY NewOK DEF Kinds
  <2>3. left' \in Scenario /\ UNCHANGED <<account, sessions, cookie, csrf, screen>>
    BY <1>1, <1>4, SpendType DEF SignOut, SendCommand, Acts
  <2> QED
    BY <1>1, <2>1, <2>2, <2>3, SendOK
<1> QED
  BY <1>2, <1>3, <1>4

-----------------------------------------------------------------------------
(* Steps of the server, of the operator, and the handlers of answers.       *)

LEMMA AnsweredType ==
  ASSUME NEW q \in Request, NEW a \in Answers PROVE Answered(q, a) \in Request
BY DEF Answered, Request

(* The slot r moves on; neither the sessions nor the account do.            *)
LEMMA ContinueOK ==
  ASSUME SessionInv, NEW r \in Slots, NEW STATE q, Continues(r, q),
         q \in Request \cup {None}, q # None => RequestOK(q),
         UNCHANGED <<account, sessions>>,
         cookie' \in Nat, cookie' <= Len(sessions),
         csrf' \in [Tabs -> Nat], screen' \in [Tabs -> Screens],
         left' \in Scenario
  PROVE  SessionInv'
<1>1. requests' \in [Slots -> Request \cup {None}] /\ requests'[r] = q
  BY DEF Continues, SessionInv, TypeOK
<1>2. TypeOK'
  BY <1>1 DEF SessionInv, TypeOK
<1>3. Grows /\ SessionsOK' /\ EachSignOutEndsOne'
  BY QuietStep
<1>4. requests'[r] # None => RequestOK(requests[r])'
  BY <1>1 DEF RequestOK, Over
<1>5. RequestsOK'
  BY <1>2, <1>3, <1>4, SlotMoves
<1> QED
  BY <1>2, <1>3, <1>5 DEF SessionInv

(* A request answered with a refusal is right.                              *)
LEMMA RefusedOK ==
  ASSUME NEW q \in Request, RequestOK(q), NEW a \in Answers, a # "OK"
  PROVE  Answered(q, a) \in Request /\ RequestOK(Answered(q, a))
<1>1. Answered(q, a) \in Request
  BY AnsweredType
<1> DEFINE x == Answered(q, a)
<1>2. /\ x.token = q.token /\ x.made = q.made /\ x.kind = q.kind
      /\ x.late = q.late /\ x.phase = "ANSWERED" /\ x.answer = a
  BY DEF Answered, Request
<1> HIDE DEF x
<1>3. RequestOK(x)
  BY <1>2 DEF RequestOK
<1> QED
  BY <1>1, <1>3 DEF x

LEMMA ActiveIsNotOver ==
  ASSUME SessionInv, NEW n, Active(n) PROVE ~Over(n) /\ n \in DOMAIN sessions
<1>1. n \in DOMAIN sessions
  BY DEF Active
<1>2. sessions[n] \in Session
  BY <1>1 DEF SessionInv, TypeOK
<1>3. sessions[n].ended = IF sessions[n].revoked THEN 1 ELSE 0
  BY <1>1 DEF SessionInv, EachSignOutEndsOne
<1> QED
  BY <1>1, <1>2, <1>3 DEF Active, Over, SessionInv, SessionsOK

(* A request whose session is active, or that passed the check before, was  *)
(* not late: it may go on to any phase and any answer.                      *)
LEMMA GoesOnOK ==
  ASSUME SessionInv, NEW q \in Request, RequestOK(q), ~q.late,
         NEW x \in Request,
         /\ x.token = q.token /\ x.made = q.made /\ x.kind = q.kind
         /\ x.late = q.late,
         x.kind = "LOGIN" /\ x.phase = "CHECKED" =>
           x.seen \in 1..account.credentials,
         x.phase = "RECHECKED" => x.token \in DOMAIN sessions
  PROVE  RequestOK(x)
BY DEF RequestOK

LEMMA ServerQuietOK ==
  ASSUME SessionInv, NEW r \in Slots,
         \/ ReadAccount(r) \/ ReadSession(r) \/ Authorize(r) \/ Execute(r)
         \/ Recheck(r) \/ Fails(r)
  PROVE  SessionInv'
<1>1. PICK q \in Request : q = requests[r] /\ RequestOK(q)
  <2>1. requests[r] # None
    BY DEF ReadAccount, ReadSession, Authorize, Execute, Recheck, Fails, Pending
  <2>2. requests[r] \in Request /\ RequestOK(requests[r])
    BY <2>1 DEF SessionInv, TypeOK, RequestsOK
  <2> DEFINE R == requests[r]
  <2> HIDE DEF R
  <2> QED
    BY <2>2 DEF R
<1>2. ASSUME NEW x \in Request, RequestOK(x), Continues(r, x), left' \in Scenario,
             UNCHANGED <<account, sessions, cookie, csrf, screen>>
      PROVE  SessionInv'
  <2>1. /\ cookie \in Nat /\ cookie <= Len(sessions)
        /\ csrf \in [Tabs -> Nat] /\ screen \in [Tabs -> Screens]
    BY DEF SessionInv, TypeOK, SessionsOK
  <2> QED
    BY <1>2, <2>1, ContinueOK
<1>3. ASSUME NEW a \in Answers, a # "OK" \/ ~q.late
      PROVE  Answered(q, a) \in Request /\ RequestOK(Answered(q, a))
  <2>1. CASE a # "OK"
    BY <1>1, <2>1, RefusedOK
  <2>2. CASE ~q.late
    <3>1. Answered(q, a) \in Request
      BY AnsweredType
    <3> DEFINE x == Answered(q, a)
    <3>2. /\ x.token = q.token /\ x.made = q.made /\ x.kind = q.kind
          /\ x.late = q.late /\ x.phase = "ANSWERED"
      BY DEF Answered, Request
    <3> HIDE DEF x
    <3>3. RequestOK(x)
      BY <1>1, <2>2, <3>1, <3>2, GoesOnOK DEF x
    <3> QED
      BY <3>1, <3>3 DEF x
  <2> QED
    BY <1>3, <2>1, <2>2
<1>4. Active(q.token) => ~q.late /\ q.token \in DOMAIN sessions
  BY <1>1, ActiveIsNotOver DEF RequestOK
<1>5. left \in Scenario /\ TypeOK
  BY DEF SessionInv, TypeOK
<1>6. {"OK", "AUTH_REQUIRED", "CSRF_FAILED", "UNAVAILABLE"} \subseteq Answers
  BY DEF Answers
<1>7. CASE ReadAccount(r)
  <2>1. q.kind = "LOGIN" /\ ~q.late
    BY <1>1, <1>7 DEF ReadAccount, Pending, RequestOK
  <2>2. CASE account.enabled /\ q.password = account.credentials
    <3> DEFINE x == [q EXCEPT !.phase = "CHECKED", !.seen = account.credentials]
    <3>1. /\ account.credentials \in 1..account.credentials
          /\ account.credentials \in Nat
      BY <2>2 DEF SessionInv, SessionsOK, TypeOK, Account
    <3>2. /\ x \in Request /\ x.token = q.token /\ x.made = q.made
          /\ x.kind = q.kind /\ x.late = q.late /\ x.phase = "CHECKED"
          /\ x.seen = account.credentials
      BY <3>1 DEF Request
    <3>3. Continues(r, x)
      BY <1>1, <1>7, <2>2 DEF ReadAccount
    <3> HIDE DEF x
    <3>4. PICK y : y = x
      OBVIOUS
    <3>5. RequestOK(y) /\ y \in Request /\ Continues(r, y)
      <4>1. /\ y \in Request /\ y.token = q.token /\ y.made = q.made
            /\ y.kind = q.kind /\ y.late = q.late /\ y.phase = "CHECKED"
            /\ y.seen \in 1..account.credentials
        BY <3>1, <3>2, <3>4
      <4> QED
        BY <1>1, <2>1, <3>3, <3>4, <4>1, GoesOnOK
    <3> QED
      BY <1>2, <1>5, <1>7, <3>5 DEF ReadAccount
  <2>3. CASE ~(account.enabled /\ q.password = account.credentials)
    BY <1>1, <1>2, <1>3, <1>5, <1>6, <1>7, <2>3 DEF ReadAccount
  <2> QED
    BY <2>2, <2>3
<1>8. CASE ReadSession(r)
  <2>1. CASE Active(q.token)
    BY <1>1, <1>2, <1>3, <1>4, <1>5, <1>6, <1>8, <2>1 DEF ReadSession
  <2>2. CASE ~Active(q.token)
    BY <1>1, <1>2, <1>3, <1>5, <1>6, <1>8, <2>2 DEF ReadSession
  <2> QED
    BY <2>1, <2>2
<1>9. ASSUME NEW phase \in {"CHECKED", "RECHECKED"}, Active(q.token),
             q.kind # "LOGIN"
      PROVE  /\ [q EXCEPT !.phase = phase] \in Request
             /\ RequestOK([q EXCEPT !.phase = phase])
  <2> DEFINE x == [q EXCEPT !.phase = phase]
  <2>1. /\ x \in Request /\ x.token = q.token /\ x.made = q.made
        /\ x.kind = q.kind /\ x.late = q.late
    BY DEF Request
  <2> HIDE DEF x
  <2>2. RequestOK(x)
    BY <1>1, <1>4, <1>9, <2>1, GoesOnOK
  <2> QED
    BY <2>1, <2>2 DEF x
<1>10. CASE Authorize(r)
  <2>1. q.kind # "LOGIN"
    BY <1>1, <1>10 DEF Authorize, Pending
  <2>2. Guarded(r, "CHECKED")
    BY <1>10 DEF Authorize
  <2>3. CASE ~Active(q.token)
    BY <1>1, <1>2, <1>3, <1>5, <1>6, <1>10, <2>2, <2>3 DEF Authorize, Guarded
  <2>4. CASE Active(q.token) /\ q.csrf # q.token
    BY <1>1, <1>2, <1>3, <1>5, <1>6, <1>10, <2>2, <2>4 DEF Authorize, Guarded
  <2>5. CASE Active(q.token) /\ q.csrf = q.token
    BY <1>1, <1>2, <1>5, <1>9, <1>10, <2>1, <2>2, <2>5 DEF Authorize, Guarded
  <2> QED
    BY <2>3, <2>4, <2>5
<1>11. CASE Execute(r)
  <2>1. ~q.late
    BY <1>1, <1>11 DEF Execute, Pending, RequestOK
  <2> QED
    BY <1>1, <1>2, <1>3, <1>5, <1>6, <1>11, <2>1 DEF Execute
<1>12. CASE Recheck(r)
  <2>1. q.kind # "LOGIN"
    BY <1>1, <1>12 DEF Recheck, Pending
  <2>2. CASE Active(q.token)
    BY <1>1, <1>2, <1>5, <1>9, <1>12, <2>1, <2>2 DEF Recheck
  <2>3. CASE ~Active(q.token)
    BY <1>1, <1>2, <1>3, <1>5, <1>6, <1>12, <2>3 DEF Recheck
  <2> QED
    BY <2>2, <2>3
<1>13. CASE Fails(r)
  <2>1. left' \in Scenario
    BY <1>5, <1>13, SpendType DEF Fails, Acts
  <2> DEFINE a == IF q.kind = "COMMAND" /\ q.phase = "SENT" THEN "AUTH_REQUIRED"
                  ELSE "UNAVAILABLE"
  <2>2. a \in Answers /\ a # "OK"
    BY <1>6
  <2>3. Continues(r, Answered(q, a))
    BY <1>1, <1>13 DEF Fails
  <2> HIDE DEF a
  <2> QED
    BY <1>2, <1>3, <1>13, <2>1, <2>2, <2>3 DEF Fails
<1> QED
  BY <1>7, <1>8, <1>10, <1>11, <1>12, <1>13

(* A sign-in is stored: the versions it read and stores are one.            *)
LEMMA StoreOK ==
  ASSUME SessionInv, NEW r \in Slots, StoreSession(r) PROVE SessionInv'
<1>1. PICK q \in Request : q = requests[r] /\ RequestOK(q)
  <2>1. requests[r] \in Request /\ RequestOK(requests[r])
    BY DEF StoreSession, Pending, SessionInv, TypeOK, RequestsOK
  <2> DEFINE R == requests[r]
  <2> HIDE DEF R
  <2> QED
    BY <2>1 DEF R
<1>2. /\ q.kind = "LOGIN" /\ q.phase = "CHECKED" /\ ~q.late
      /\ q.seen \in 1..account.credentials
  BY <1>1 DEF StoreSession, Pending, RequestOK
<1> DEFINE new == NewSession(q.seen, q.seen)
<1>3. /\ sessions \in Seq(Session) /\ Len(sessions) \in Nat
      /\ account.credentials \in Nat /\ cookie \in Nat
      /\ q.seen \in Nat /\ q.token \in Nat
      /\ requests \in [Slots -> Request \cup {None}]
  BY DEF SessionInv, TypeOK, Account, Request
<1>4. /\ new \in Session /\ new.credentials = q.seen /\ new.proven = q.seen
      /\ new.ended = 0 /\ ~new.revoked
  BY <1>3 DEF NewSession, Session
<1>5. sessions' = Append(sessions, new)
  BY <1>1 DEF StoreSession
<1> HIDE DEF new
<1>6. /\ sessions' \in Seq(Session) /\ Len(sessions') = Len(sessions) + 1
      /\ DOMAIN sessions' = DOMAIN sessions \cup {Len(sessions) + 1}
      /\ \A n \in DOMAIN sessions : sessions'[n] = sessions[n]
      /\ sessions'[Len(sessions) + 1] = new
  BY <1>3, <1>4, <1>5
<1> DEFINE x == [Answered(q, "OK") EXCEPT !.made = Len(sessions) + 1]
<1>7. /\ x \in Request /\ x.token = q.token /\ x.made = Len(sessions) + 1
      /\ x.kind = q.kind /\ x.late = q.late /\ x.phase = "ANSWERED"
  <2> DEFINE y == Answered(q, "OK")
  <2>1. /\ y \in Request /\ y.token = q.token /\ y.kind = q.kind
        /\ y.late = q.late /\ y.phase = "ANSWERED"
    BY AnsweredType DEF Answered, Request, Answers
  <2> HIDE DEF y
  <2>2. Len(sessions) + 1 \in Nat
    BY <1>3
  <2>3. [y EXCEPT !.made = Len(sessions) + 1] \in Request
    BY <2>1, <2>2 DEF Request
  <2> QED
    BY <2>1, <2>3 DEF Request, y
<1>8. Continues(r, x)
  BY <1>1 DEF StoreSession
<1> HIDE DEF x
<1>9. requests' \in [Slots -> Request \cup {None}] /\ requests'[r] = x
  BY <1>3, <1>7, <1>8 DEF Continues
<1>10. TypeOK'
  BY <1>6, <1>9 DEF SessionInv, TypeOK, StoreSession
<1>11. Grows
  BY <1>3, <1>6 DEF Grows, StoreSession
<1>12. SessionsOK'
  BY <1>2, <1>3, <1>4, <1>6 DEF SessionInv, SessionsOK, StoreSession
<1>13. EachSignOutEndsOne'
  BY <1>4, <1>6 DEF SessionInv, EachSignOutEndsOne
<1>14. RequestOK(requests[r])'
  <2>1. /\ requests'[r].token <= Len(sessions')
        /\ requests'[r].made <= Len(sessions')
    BY <1>1, <1>3, <1>6, <1>7, <1>9 DEF RequestOK
  <2>2. requests'[r].phase = "ANSWERED" /\ ~requests'[r].late
    BY <1>2, <1>7, <1>9
  <2> QED
    BY <2>1, <2>2 DEF RequestOK
<1>15. RequestsOK'
  BY <1>8, <1>10, <1>11, <1>14, SlotMoves
<1> QED
  BY <1>10, <1>12, <1>13, <1>15 DEF SessionInv

(* The second transaction of a sign-out.  A late one never gets here.       *)
LEMMA RevokeOK ==
  ASSUME SessionInv, NEW r \in Slots, Revoke(r) PROVE SessionInv'
<1>1. PICK q \in Request : q = requests[r] /\ RequestOK(q)
  <2>1. requests[r] \in Request /\ RequestOK(requests[r])
    BY DEF Revoke, Pending, SessionInv, TypeOK, RequestsOK
  <2> DEFINE R == requests[r]
  <2> HIDE DEF R
  <2> QED
    BY <2>1 DEF R
<1>2. /\ q.kind = "SIGN_OUT" /\ q.phase = "RECHECKED" /\ ~q.late
      /\ q.token \in DOMAIN sessions
  BY <1>1 DEF Revoke, Pending, RequestOK
<1>3. /\ sessions \in Seq(Session) /\ Len(sessions) \in Nat
      /\ requests \in [Slots -> Request \cup {None}]
      /\ cookie \in Nat /\ cookie <= Len(sessions)
      /\ csrf \in [Tabs -> Nat] /\ screen \in [Tabs -> Screens]
      /\ left \in Scenario
  BY DEF SessionInv, TypeOK, SessionsOK
<1>4. ASSUME NEW a \in {"OK", "AUTH_REQUIRED"}
      PROVE  Answered(q, a) \in Request /\ RequestOK(Answered(q, a))
  <2> DEFINE x == Answered(q, a)
  <2>1. /\ x \in Request /\ x.token = q.token /\ x.made = q.made
        /\ x.kind = q.kind /\ x.late = q.late /\ x.phase = "ANSWERED"
    BY AnsweredType DEF Answered, Request, Answers
  <2> HIDE DEF x
  <2>2. RequestOK(x)
    BY <1>1, <1>2, <2>1, GoesOnOK
  <2> QED
    BY <2>1, <2>2 DEF x
<1>5. CASE sessions[q.token].revoked
  BY <1>1, <1>3, <1>4, <1>5, ContinueOK DEF Revoke
<1>6. CASE ~sessions[q.token].revoked
  <2> DEFINE n == q.token
             ended == [sessions[n] EXCEPT !.revoked = TRUE,
                                          !.ended = sessions[n].ended + 1]
  <2>1. sessions' = [sessions EXCEPT ![n].revoked = TRUE, ![n].ended = @ + 1]
    BY <1>1, <1>6 DEF Revoke
  <2>2. sessions[n] \in Session /\ sessions[n].ended = 0
    BY <1>2, <1>3, <1>6 DEF SessionInv, EachSignOutEndsOne
  <2>3. /\ ended \in Session /\ ended.ended = 1 /\ ended.revoked
        /\ ended.expired = sessions[n].expired
        /\ ended.proven = sessions[n].proven
        /\ ended.credentials = sessions[n].credentials
    <3>1. sessions[n].ended + 1 = 1 /\ 1 \in Nat
      BY <2>2
    <3> QED
      BY <2>2, <3>1 DEF Session
  <2>4. sessions' = [sessions EXCEPT ![n] = ended]
    BY <1>2, <2>1
  <2> HIDE DEF ended
  <2>5. /\ sessions' \in Seq(Session) /\ Len(sessions') = Len(sessions)
        /\ DOMAIN sessions' = DOMAIN sessions
        /\ sessions'[n] = ended
        /\ \A m \in DOMAIN sessions : m # n => sessions'[m] = sessions[m]
    BY <1>2, <1>3, <2>3, <2>4
  <2> DEFINE x == Answered(q, "OK")
  <2>6. x \in Request /\ RequestOK(x)
    BY <1>4
  <2>7. Continues(r, x)
    BY <1>1, <1>6 DEF Revoke
  <2> HIDE DEF x
  <2>8. UNCHANGED <<account, cookie, csrf, screen, left>>
    BY DEF Revoke
  <2>9. requests' \in [Slots -> Request \cup {None}] /\ requests'[r] = x
    BY <1>3, <2>6, <2>7 DEF Continues
  <2>10. TypeOK'
    BY <1>3, <2>5, <2>8, <2>9 DEF SessionInv, TypeOK
  <2>11. Grows
    <3>1. account' = account /\ account.credentials \in Nat
      BY <2>8 DEF SessionInv, TypeOK, Account
    <3>2. ended.ended > 0
      BY <2>3
    <3>3. ASSUME NEW m \in DOMAIN sessions
          PROVE  /\ sessions'[m].proven = sessions[m].proven
                 /\ sessions[m].ended > 0 => sessions'[m].ended > 0
                 /\ sessions[m].expired => sessions'[m].expired
      <4>1. CASE m = n
        BY <2>3, <2>5, <3>2, <4>1
      <4>2. CASE m # n
        BY <2>5, <4>2
      <4> QED
        BY <4>1, <4>2
    <3>4. Len(sessions) <= Len(sessions')
      BY <1>3, <2>5
    <3>5. account.credentials <= account'.credentials
      BY <3>1
    <3> QED
      BY <3>1, <3>3, <3>4, <3>5 DEF Grows
  <2>12. SessionsOK'
    <3>1. ASSUME NEW m \in DOMAIN sessions'
          PROVE  /\ sessions'[m].credentials = sessions'[m].proven
                 /\ sessions'[m].proven \in 1..account'.credentials
      <4>1. /\ sessions'[m].credentials = sessions[m].credentials
            /\ sessions'[m].proven = sessions[m].proven
        BY <2>3, <2>5, <3>1
      <4> QED
        BY <2>5, <2>8, <4>1 DEF SessionInv, SessionsOK
    <3> QED
      BY <2>5, <2>8, <3>1 DEF SessionInv, SessionsOK
  <2>13. EachSignOutEndsOne'
    BY <2>3, <2>5 DEF SessionInv, EachSignOutEndsOne
  <2>14. RequestOK(requests[r])'
    <3>1. PICK y \in Request : y = x
      BY <2>6
    <3>2. RequestOK(y)'
      BY <2>6, <2>10, <2>11, <3>1, RequestStays
    <3> QED
      BY <2>9, <3>1, <3>2 DEF RequestOK
  <2>15. RequestsOK'
    BY <2>7, <2>10, <2>11, <2>14, SlotMoves
  <2> QED
    BY <2>10, <2>12, <2>13, <2>15 DEF SessionInv
<1> QED
  BY <1>5, <1>6

(* What the operator and time do: no request is touched.                    *)
LEMMA OperatorOK ==
  ASSUME SessionInv, Operator PROVE SessionInv'
<1>1. /\ sessions \in Seq(Session) /\ Len(sessions) \in Nat
      /\ account \in Account /\ account.credentials \in Nat
      /\ TypeOK
  BY DEF SessionInv, TypeOK, Account
<1>2. SUFFICES TypeOK' /\ Grows /\ SessionsOK' /\ EachSignOutEndsOne'
  <2>1. UNCHANGED requests
    BY DEF Operator, Provision, ChangeCredentials, Disable, Expire
  <2>2. RequestsOK'
    BY <1>2, <2>1, RequestsStay
  <2> QED
    BY <1>2, <2>2 DEF SessionInv
<1>3. CASE Provision
  <2>1. TypeOK'
    BY <1>1, <1>3 DEF Provision, TypeOK, Account
  <2>2. Grows
    BY <1>1, <1>3 DEF Provision, Grows
  <2>3. SessionsOK' /\ EachSignOutEndsOne'
    BY <1>1, <1>3 DEF Provision, SessionInv, SessionsOK, EachSignOutEndsOne
  <2> QED
    BY <2>1, <2>2, <2>3
<1>4. CASE ChangeCredentials
  <2>1. account'.credentials = account.credentials + 1
    BY <1>1, <1>4 DEF ChangeCredentials, Account
  <2>2. account' \in Account /\ account'.enabled = account.enabled
    BY <1>1, <1>4 DEF ChangeCredentials, Account
  <2>3. left' \in Scenario
    BY <1>1, <1>4, SpendType DEF ChangeCredentials, Acts
  <2>4. TypeOK'
    BY <1>1, <1>4, <2>2, <2>3 DEF ChangeCredentials, TypeOK
  <2>5. Grows
    BY <1>1, <1>4, <2>1, <2>2 DEF ChangeCredentials, Grows
  <2>6. \A n \in DOMAIN sessions : sessions[n].proven \in 1..account'.credentials
    BY <1>1, <2>1 DEF SessionInv, SessionsOK
  <2>7. SessionsOK' /\ EachSignOutEndsOne'
    BY <1>1, <1>4, <2>1, <2>2, <2>6
    DEF ChangeCredentials, SessionInv, SessionsOK, EachSignOutEndsOne
  <2> QED
    BY <2>4, <2>5, <2>7
<1>5. CASE Disable
  <2>1. /\ account' \in Account /\ ~account'.enabled
        /\ account'.credentials = account.credentials
    BY <1>1, <1>5 DEF Disable, Account
  <2>2. left' \in Scenario
    BY <1>1, <1>5, SpendType DEF Disable, Acts
  <2>3. TypeOK'
    BY <1>1, <1>5, <2>1, <2>2 DEF Disable, TypeOK
  <2>4. Grows
    BY <1>1, <1>5, <2>1 DEF Disable, Grows
  <2>5. SessionsOK' /\ EachSignOutEndsOne'
    BY <1>1, <1>5, <2>1 DEF Disable, SessionInv, SessionsOK, EachSignOutEndsOne
  <2> QED
    BY <2>3, <2>4, <2>5
<1>6. ASSUME NEW n \in DOMAIN sessions, Expire(n)
      PROVE  TypeOK' /\ Grows /\ SessionsOK' /\ EachSignOutEndsOne'
  <2> DEFINE over == [sessions[n] EXCEPT !.expired = TRUE]
  <2>1. sessions[n] \in Session
    BY <1>1
  <2>2. /\ over \in Session /\ over.expired
        /\ over.ended = sessions[n].ended /\ over.revoked = sessions[n].revoked
        /\ over.proven = sessions[n].proven
        /\ over.credentials = sessions[n].credentials
    BY <2>1 DEF Session
  <2>3. sessions' = [sessions EXCEPT ![n] = over]
    BY <1>6 DEF Expire
  <2> HIDE DEF over
  <2>4. /\ sessions' \in Seq(Session) /\ Len(sessions') = Len(sessions)
        /\ DOMAIN sessions' = DOMAIN sessions /\ sessions'[n] = over
        /\ \A m \in DOMAIN sessions : m # n => sessions'[m] = sessions[m]
    BY <1>1, <2>2, <2>3
  <2>5. left' \in Scenario
    BY <1>1, <1>6, SpendType DEF Expire, Acts
  <2>6. UNCHANGED <<account, cookie, csrf, screen, requests>>
    BY <1>6 DEF Expire
  <2>7. TypeOK'
    BY <1>1, <2>4, <2>5, <2>6 DEF TypeOK
  <2>8. Grows
    BY <1>1, <2>2, <2>4, <2>6 DEF Grows
  <2>9. SessionsOK'
    BY <1>1, <2>2, <2>4, <2>6 DEF SessionInv, SessionsOK
  <2>10. EachSignOutEndsOne'
    BY <2>2, <2>4 DEF SessionInv, EachSignOutEndsOne
  <2> QED
    BY <2>7, <2>8, <2>9, <2>10
<1> QED
  BY <1>3, <1>4, <1>5, <1>6 DEF Operator

LEMMA HandlesOK ==
  ASSUME SessionInv, NEW q \in Request, RequestOK(q), q.tab # None, Handles(q)
  PROVE  /\ cookie' \in Nat /\ cookie' <= Len(sessions)
         /\ csrf' \in [Tabs -> Nat] /\ screen' \in [Tabs -> Screens]
<1>1. /\ cookie \in Nat /\ cookie <= Len(sessions) /\ Len(sessions) \in Nat
      /\ csrf \in [Tabs -> Nat] /\ screen \in [Tabs -> Screens]
  BY DEF SessionInv, TypeOK, SessionsOK
<1>2. /\ q.tab \in Tabs /\ q.made \in Nat /\ q.token \in Nat
      /\ q.kind \in Kinds /\ q.made <= Len(sessions)
  BY DEF Request, RequestOK
<1>3. cookie' \in Nat /\ cookie' <= Len(sessions)
  BY <1>1, <1>2 DEF Handles, Jar
<1>4. Held(q) \in Nat
  BY <1>1, <1>2 DEF Held
<1>5. Leads(q) \in Screens \cup {"NOWHERE"}
  BY <1>2 DEF Leads, Kinds, Screens
<1> QED
  BY <1>1, <1>2, <1>3, <1>4, <1>5 DEF Handles

LEMMA AnswersOK ==
  ASSUME SessionInv, NEW r \in Slots, Deliver(r) \/ Lose(r) \/ Discard(r)
  PROVE  SessionInv'
<1>1. PICK q \in Request : q = requests[r] /\ RequestOK(q)
  <2>1. requests[r] # None
    BY DEF Deliver, Lose, Discard
  <2>2. requests[r] \in Request /\ RequestOK(requests[r])
    BY <2>1 DEF SessionInv, TypeOK, RequestsOK
  <2> DEFINE R == requests[r]
  <2> HIDE DEF R
  <2> QED
    BY <2>2 DEF R
<1>2. /\ cookie \in Nat /\ cookie <= Len(sessions) /\ TypeOK
      /\ csrf \in [Tabs -> Nat] /\ screen \in [Tabs -> Screens]
      /\ left \in Scenario
  BY DEF SessionInv, TypeOK, SessionsOK
<1>3. CASE Discard(r)
  <2>1. Continues(r, None) /\ UNCHANGED <<account, sessions, cookie, csrf, screen, left>>
    BY <1>3 DEF Discard
  <2> QED
    BY <1>2, <2>1, ContinueOK
<1>4. CASE Deliver(r)
  <2>1. /\ Continues(r, None) /\ UNCHANGED <<account, sessions, left>>
        /\ Handles(q) /\ q.tab # None
    BY <1>1, <1>4 DEF Deliver
  <2>2. /\ cookie' \in Nat /\ cookie' <= Len(sessions)
        /\ csrf' \in [Tabs -> Nat] /\ screen' \in [Tabs -> Screens]
    BY <1>1, <2>1, HandlesOK
  <2> QED
    BY <1>2, <2>1, <2>2, ContinueOK
<1>5. CASE Lose(r)
  <2> DEFINE lost == [q EXCEPT !.answer = "LOST"]
             orphan == [q EXCEPT !.tab = None]
  <2>1. /\ lost \in Request /\ lost.token = q.token /\ lost.made = q.made
        /\ lost.kind = q.kind /\ lost.phase = q.phase /\ lost.seen = q.seen
        /\ lost.late = q.late /\ lost.answer = "LOST" /\ lost.tab = q.tab
    BY DEF Request, Answers
  <2>2. /\ orphan \in Request /\ orphan.token = q.token /\ orphan.made = q.made
        /\ orphan.kind = q.kind /\ orphan.phase = q.phase
        /\ orphan.seen = q.seen /\ orphan.late = q.late
        /\ orphan.answer = q.answer
    BY DEF Request
  <2>3. /\ Handles(lost) /\ q.tab # None /\ UNCHANGED <<account, sessions>>
        /\ Continues(r, None) \/ Continues(r, orphan)
    BY <1>1, <1>5 DEF Lose
  <2> HIDE DEF lost, orphan
  <2>4. RequestOK(lost) /\ RequestOK(orphan)
    BY <1>1, <2>1, <2>2 DEF RequestOK
  <2>5. /\ cookie' \in Nat /\ cookie' <= Len(sessions)
        /\ csrf' \in [Tabs -> Nat] /\ screen' \in [Tabs -> Screens]
    <3>1. lost.tab # None
      BY <2>1, <2>3
    <3> QED
      BY <2>1, <2>3, <2>4, <3>1, HandlesOK
  <2>6. left' \in Scenario
    BY <1>2, <1>5, SpendType DEF Lose, Acts
  <2>7. CASE Continues(r, None)
    BY <2>3, <2>5, <2>6, <2>7, ContinueOK
  <2>8. CASE Continues(r, orphan)
    BY <2>2, <2>3, <2>4, <2>5, <2>6, <2>8, ContinueOK
  <2> QED
    BY <2>3, <2>7, <2>8
<1> QED
  BY <1>3, <1>4, <1>5

(* A step that at most shows another screen or uses up an act.              *)
LEMMA ScreenOK ==
  ASSUME SessionInv, UNCHANGED <<account, sessions, cookie, csrf, requests>>,
         screen' \in [Tabs -> Screens], left' \in Scenario
  PROVE  SessionInv'
<1>1. TypeOK'
  BY DEF SessionInv, TypeOK
<1>2. Grows /\ SessionsOK' /\ EachSignOutEndsOne'
  BY QuietStep DEF SessionInv, SessionsOK
<1>3. RequestsOK'
  BY <1>1, <1>2, RequestsStay
<1> QED
  BY <1>1, <1>2, <1>3 DEF SessionInv

LEMMA RefusedReadOK ==
  ASSUME SessionInv, NEW t \in Tabs, ReadRefused(t) PROVE SessionInv'
<1>1. screen' \in [Tabs -> Screens] /\ left' \in Scenario
  BY DEF SessionInv, TypeOK, ReadRefused, Screens
<1> QED
  BY <1>1, ScreenOK DEF ReadRefused

LEMMA StepOK == SessionInv /\ [Next]_sessionVars => SessionInv'
<1> SUFFICES ASSUME SessionInv, [Next]_sessionVars PROVE SessionInv'
  OBVIOUS
<1>1. ASSUME NEW t \in Tabs, \/ Load(t) \/ SignIn(t) \/ SignOut(t)
                            \/ SendCommand(t) \/ ReadRefused(t)
      PROVE  SessionInv'
  BY <1>1, SendsOK, RefusedReadOK
<1>2. ASSUME NEW r \in Slots, Server(r) \/ Deliver(r) \/ Lose(r) \/ Discard(r)
      PROVE  SessionInv'
  BY <1>2, ServerQuietOK, StoreOK, RevokeOK, AnswersOK DEF Server
<1>3. CASE UNCHANGED sessionVars
  <2>1. screen' \in [Tabs -> Screens] /\ left' \in Scenario
    BY <1>3 DEF SessionInv, TypeOK, sessionVars
  <2> QED
    BY <1>3, <2>1, ScreenOK DEF sessionVars
<1> QED
  BY <1>1, <1>2, <1>3, OperatorOK DEF Next

-----------------------------------------------------------------------------
(* What the invariant says.                                                 *)

LEMMA InvMeans ==
  SessionInv => /\ TypeOK /\ ActiveMeansCurrent /\ EachSignOutEndsOne
                /\ LateRequestsGetNothing
BY DEF SessionInv, SessionsOK, ActiveMeansCurrent, Active,
       RequestsOK, RequestOK, LateRequestsGetNothing

\* The account, the sessions, the cookie, the tabs and the requests keep their
\* types through every order of the transactions of sign-in, check, sign-out,
\* of the operator's acts and of lost answers (admin_sessions.py, app.js).
THEOREM SessionTypes == Spec => []TypeOK
<1>1. Spec => []SessionInv
  BY InitOK, StepOK, PTL DEF Spec
<1> QED
  BY <1>1, InvMeans, PTL

\* A session that active_session accepts was opened with the password of now,
\* although the password is checked in one transaction and the session stored
\* in another (admin_sessions.py:99-121).
THEOREM ActiveSessionsAreCurrent == Spec => []ActiveMeansCurrent
<1>1. Spec => []SessionInv
  BY InitOK, StepOK, PTL DEF Spec
<1> QED
  BY <1>1, InvMeans, PTL

\* A session is revoked by exactly one confirmed sign-out, however many pass
\* both checks of revoke before (admin_sessions.py:137-148).
THEOREM SignOutsEndOne == Spec => []EachSignOutEndsOne
<1>1. Spec => []SessionInv
  BY InitOK, StepOK, PTL DEF Spec
<1> QED
  BY <1>1, InvMeans, PTL

\* A request sent after its session had ended is never performed, although the
\* check and the command are two transactions (main.py:213-235).
THEOREM LateRequestsFail == Spec => []LateRequestsGetNothing
<1>1. Spec => []SessionInv
  BY InitOK, StepOK, PTL DEF Spec
<1> QED
  BY <1>1, InvMeans, PTL
=============================================================================
