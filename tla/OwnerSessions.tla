--------------------------- MODULE OwnerSessions ---------------------------
(***************************************************************************)
(* The owner's account and sessions (admin_sessions.py, the session part   *)
(* of main.py, provision_owner.py) and what the owner's browser does with  *)
(* them (login, boot, shell and signOut in app.js).                        *)
(*                                                                         *)
(* The server answers a request in several transactions: a sign-in reads   *)
(* the account in one and stores the session in another; a command or a    *)
(* sign-out checks the session first and is performed later.  Requests of  *)
(* several tabs share one jar of cookies, overtake each other, and their   *)
(* answers may be lost while the server goes on.                           *)
(*                                                                         *)
(* A session is known by its number: the token in the cookie and the CSRF  *)
(* secret are two unguessable names of it.  The password is known by the   *)
(* version of the credentials it belongs to.  A scenario bounds how often  *)
(* people and the environment act, one kind of act at a time.              *)
(***************************************************************************)
EXTENDS Naturals, Sequences

CONSTANTS
  Tabs,       \* tabs of the owner's browser that show the application
  Slots,      \* places for requests in flight
  Scenarios,  \* which tabs are used, and how often each act may happen
  None

VARIABLES
  account,   \* the row of owner_accounts; credentials 0: not provisioned yet
  sessions,  \* table owner_sessions, in the order of creation
  cookie,    \* the session named by the browser's cookie, 0 if there is none
  csrf,      \* session.csrfToken of each tab: a session, 0 if it has none
  screen,    \* what each tab shows
  requests,  \* requests in flight: at the server, or answered
  left       \* the scenario: what people and the environment may still do

sessionVars == <<account, sessions, cookie, csrf, screen, requests, left>>

Account == [enabled : BOOLEAN, credentials : Nat]

\* History: proven is the version of the password that was verified, ended
\* counts the sign-outs of this session that were confirmed.
Session == [credentials : Nat, expired : BOOLEAN, revoked : BOOLEAN,
            proven : Nat, ended : Nat]

Screens == {"CLOSED", "BOOT", "LOGIN", "SHELL"}
Kinds == {"LOGIN", "SESSION", "SIGN_OUT", "COMMAND"}
Answers == {"OK", "AUTH_REQUIRED", "CSRF_FAILED", "UNAVAILABLE", "LOST"}

\* token and csrf are what the request carries; seen is the version of the
\* credentials that the sign-in read; made is the session it stored.
\* History: late tells that the session of the cookie was over when the
\* request was sent.
Request == [kind : Kinds, tab : Tabs \cup {None}, token : Nat, csrf : Nat,
            password : Nat, seen : Nat, made : Nat, late : BOOLEAN,
            phase : {"SENT", "CHECKED", "RECHECKED", "ANSWERED"},
            answer : Answers \cup {None}]

Acts == {"loads", "signIns", "signOuts", "commands", "changes", "disables",
         "expiries", "failures", "moves", "plans"}
Scenario == [tabs : SUBSET Tabs, signedIn : BOOLEAN, may : [Acts -> Nat]]

ASSUME SessionsAssumption ==
  /\ Slots \subseteq Nat
  /\ Scenarios \subseteq Scenario
  /\ None \notin Tabs \cup Answers

TypeOK ==
  /\ account \in Account
  /\ sessions \in Seq(Session)
  /\ cookie \in Nat
  /\ csrf \in [Tabs -> Nat]
  /\ screen \in [Tabs -> Screens]
  /\ requests \in [Slots -> Request \cup {None}]
  /\ left \in Scenario

-----------------------------------------------------------------------------
(* Queries.                                                                 *)

\* Mutant: a revoked session is as good as another.
ActiveThoughRevoked(n) ==
  /\ n \in DOMAIN sessions
  /\ ~sessions[n].expired
  /\ account.enabled
  /\ sessions[n].credentials = account.credentials

\* active_session: the row joined with the account, as of now.
Active(n) ==
  /\ n \in DOMAIN sessions
  /\ ~sessions[n].revoked /\ ~sessions[n].expired
  /\ account.enabled
  /\ sessions[n].credentials = account.credentials

Pending(r, kind, phase) ==
  /\ requests[r] # None
  /\ requests[r].kind = kind /\ requests[r].phase = phase

\* By the history: the session was signed out, expired, or opened with a
\* password that is not the one of an enabled account any more.
Over(n) ==
  \/ n \notin DOMAIN sessions
  \/ sessions[n].ended > 0 \/ sessions[n].expired
  \/ ~account.enabled \/ sessions[n].proven # account.credentials

\* One act of the scenario is used up.
Spend(act) ==
  /\ left.may[act] > 0
  /\ left' = [left EXCEPT !.may[act] = @ - 1]

-----------------------------------------------------------------------------
(* The requests of the browser.                                             *)

Free(rs) == {r \in Slots : rs[r] = None}
First(S) == CHOOSE r \in S : \A q \in S : r <= q

\* The request as the browser sends it: with the cookie it has now.
New(t, kind, password) ==
  [kind |-> kind, tab |-> t, token |-> cookie, csrf |-> csrf[t],
   password |-> password, seen |-> 0, made |-> 0,
   late |-> kind # "LOGIN" /\ Over(cookie),
   phase |-> "SENT", answer |-> None]

Sends(rs, q) ==
  /\ Free(rs) # {}
  /\ requests' = [rs EXCEPT ![First(Free(rs))] = q]

\* Requests whose tab is gone: the server goes on, nobody takes the answer.
Orphaned(t) ==
  [r \in Slots |->
     IF requests[r] # None /\ requests[r].tab = t
     THEN [requests[r] EXCEPT !.tab = None] ELSE requests[r]]

\* boot: the page is opened or loaded again and asks for its session.
Load(t) ==
  /\ t \in left.tabs
  /\ Spend("loads")
  /\ csrf' = [csrf EXCEPT ![t] = 0]
  /\ screen' = [screen EXCEPT ![t] = "BOOT"]
  /\ Sends(Orphaned(t), [New(t, "SESSION", 0) EXCEPT !.csrf = 0])
  /\ UNCHANGED <<account, sessions, cookie>>

\* signIn: the form is submitted, with the password of now or a wrong one.
SignIn(t) ==
  /\ screen[t] = "LOGIN"
  /\ Spend("signIns")
  /\ \E password \in {0, account.credentials} :
       Sends(requests, New(t, "LOGIN", password))
  /\ UNCHANGED <<account, sessions, cookie, csrf, screen>>

\* signOut: the button of the shell.
SignOut(t) ==
  /\ screen[t] = "SHELL"
  /\ Spend("signOuts")
  /\ Sends(requests, New(t, "SIGN_OUT", 0))
  /\ UNCHANGED <<account, sessions, cookie, csrf, screen>>

\* A client that has the cookie and a tab's CSRF token sends a command: the
\* page does not send any yet.
SendCommand(t) ==
  /\ screen[t] = "SHELL"
  /\ Spend("commands")
  /\ Sends(requests, New(t, "COMMAND", 0))
  /\ UNCHANGED <<account, sessions, cookie, csrf, screen>>

-----------------------------------------------------------------------------
(* The server.                                                              *)

Continues(r, q) == requests' = [requests EXCEPT ![r] = q]

\* The request is answered.
Answered(q, answer) == [q EXCEPT !.phase = "ANSWERED", !.answer = answer]

\* login, first transaction, and the check of the password.
ReadAccount(r) ==
  /\ Pending(r, "LOGIN", "SENT")
  /\ LET q == requests[r] IN
       Continues(r,
         IF account.enabled /\ q.password = account.credentials
         THEN [q EXCEPT !.phase = "CHECKED", !.seen = account.credentials]
         ELSE Answered(q, "AUTH_REQUIRED"))
  /\ UNCHANGED <<account, sessions, cookie, csrf, screen, left>>

NewSession(version, proven) ==
  [credentials |-> version, expired |-> FALSE, revoked |-> FALSE,
   proven |-> proven, ended |-> 0]

\* Mutant: the session gets the version the account has when it is stored.
StoreCurrentVersion(r) ==
  /\ Pending(r, "LOGIN", "CHECKED")
  /\ sessions' = Append(sessions,
                        NewSession(account.credentials, requests[r].seen))
  /\ Continues(r, [Answered(requests[r], "OK") EXCEPT
                     !.made = Len(sessions) + 1])
  /\ UNCHANGED <<account, cookie, csrf, screen, left>>

\* login, second transaction.
StoreSession(r) ==
  /\ Pending(r, "LOGIN", "CHECKED")
  /\ sessions' = Append(sessions,
                        NewSession(requests[r].seen, requests[r].seen))
  /\ Continues(r, [Answered(requests[r], "OK") EXCEPT
                     !.made = Len(sessions) + 1])
  /\ UNCHANGED <<account, cookie, csrf, screen, left>>

\* read_admin_session: one transaction.
ReadSession(r) ==
  /\ Pending(r, "SESSION", "SENT")
  /\ Continues(r, Answered(requests[r],
                    IF Active(requests[r].token) THEN "OK"
                    ELSE "AUTH_REQUIRED"))
  /\ UNCHANGED <<account, sessions, cookie, csrf, screen, left>>

\* The session and the CSRF token of a request are checked; then it goes on.
Guarded(r, phase) ==
  LET q == requests[r] IN
  Continues(r,
    IF ~Active(q.token) THEN Answered(q, "AUTH_REQUIRED")
    ELSE IF q.csrf # q.token THEN Answered(q, "CSRF_FAILED")
    ELSE [q EXCEPT !.phase = phase])

\* owner_command_runtime, and the first check of sign_out_admin_session.
Authorize(r) ==
  /\ Pending(r, "COMMAND", "SENT") \/ Pending(r, "SIGN_OUT", "SENT")
  /\ Guarded(r, "CHECKED")
  /\ UNCHANGED <<account, sessions, cookie, csrf, screen, left>>

\* The command is performed in a transaction of its own (OwnerCommands).
Execute(r) ==
  /\ Pending(r, "COMMAND", "CHECKED")
  /\ Continues(r, Answered(requests[r], "OK"))
  /\ UNCHANGED <<account, sessions, cookie, csrf, screen, left>>

\* revoke, first transaction: the session is checked once more.
Recheck(r) ==
  /\ Pending(r, "SIGN_OUT", "CHECKED")
  /\ LET q == requests[r] IN
       Continues(r, IF Active(q.token) THEN [q EXCEPT !.phase = "RECHECKED"]
                    ELSE Answered(q, "AUTH_REQUIRED"))
  /\ UNCHANGED <<account, sessions, cookie, csrf, screen, left>>

\* Mutant: the update does not ask for a session that is not revoked yet.
RevokeAgain(r) ==
  /\ Pending(r, "SIGN_OUT", "RECHECKED")
  /\ sessions' = [sessions EXCEPT
                    ![requests[r].token].revoked = TRUE,
                    ![requests[r].token].ended = @ + 1]
  /\ Continues(r, Answered(requests[r], "OK"))
  /\ UNCHANGED <<account, cookie, csrf, screen, left>>

\* revoke, second transaction: only the one that ends the session confirms.
Revoke(r) ==
  /\ Pending(r, "SIGN_OUT", "RECHECKED")
  /\ LET q == requests[r] IN
       IF sessions[q.token].revoked
       THEN /\ Continues(r, Answered(q, "AUTH_REQUIRED"))
            /\ UNCHANGED sessions
       ELSE /\ Continues(r, Answered(q, "OK"))
            /\ sessions' = [sessions EXCEPT ![q.token].revoked = TRUE,
                                            ![q.token].ended = @ + 1]
  /\ UNCHANGED <<account, cookie, csrf, screen, left>>

\* The database fails, or the limit of sign-ins is reached: a command whose
\* session cannot be checked is answered 401, everything else with an error.
Fails(r) ==
  /\ requests[r] # None /\ requests[r].phase # "ANSWERED"
  /\ Spend("failures")
  /\ LET q == requests[r] IN
       Continues(r, Answered(q,
         IF q.kind = "COMMAND" /\ q.phase = "SENT" THEN "AUTH_REQUIRED"
         ELSE "UNAVAILABLE"))
  /\ UNCHANGED <<account, sessions, cookie, csrf, screen>>

\* provision_owner: one transaction under a lock of the table.
Provision ==
  /\ account.credentials = 0
  /\ account' = [enabled |-> TRUE, credentials |-> 1]
  /\ UNCHANGED <<sessions, cookie, csrf, screen, requests, left>>

\* Outside of the program: an operator changes the credentials.
ChangeCredentials ==
  /\ account.credentials > 0
  /\ Spend("changes")
  /\ account' = [account EXCEPT !.credentials = @ + 1]
  /\ UNCHANGED <<sessions, cookie, csrf, screen, requests>>

\* Outside of the program: an operator disables the account.
Disable ==
  /\ account.enabled
  /\ Spend("disables")
  /\ account' = [account EXCEPT !.enabled = FALSE]
  /\ UNCHANGED <<sessions, cookie, csrf, screen, requests>>

\* The lifetime of a session is over; that the browser drops its cookie then
\* makes no difference, as the server refuses it from now on.
Expire(n) ==
  /\ ~sessions[n].expired
  /\ Spend("expiries")
  /\ sessions' = [sessions EXCEPT ![n].expired = TRUE]
  /\ UNCHANGED <<account, cookie, csrf, screen, requests>>

-----------------------------------------------------------------------------
(* The answers, and the handlers of the page.                               *)

\* The browser takes the cookie of a sign-in and drops it, whatever it is by
\* now, with the answer to a sign-out.
Jar(q) ==
  IF q.kind = "LOGIN" /\ q.answer = "OK" THEN q.made
  ELSE IF q.kind = "SIGN_OUT" /\ q.answer = "OK" THEN 0
  ELSE cookie

\* Where the handler leads: shell(), login(), or nowhere.
Leads(q) ==
  CASE q.kind \in {"LOGIN", "SESSION"} ->
         IF q.answer = "OK" THEN "SHELL" ELSE "LOGIN"
    [] q.kind = "SIGN_OUT" ->
         IF q.answer \in {"UNAVAILABLE", "LOST"} THEN "NOWHERE" ELSE "LOGIN"
    [] q.kind = "COMMAND" -> "NOWHERE"

\* The CSRF token the handler leaves in the tab.
Held(q) ==
  CASE q.kind = "LOGIN" /\ q.answer = "OK" -> q.made
    [] q.kind = "SESSION" /\ q.answer = "OK" -> q.token
    [] q.kind = "SIGN_OUT" /\ Leads(q) = "LOGIN" -> 0
    [] OTHER -> csrf[q.tab]

Handles(q) ==
  /\ cookie' = Jar(q)
  /\ csrf' = [csrf EXCEPT ![q.tab] = Held(q)]
  /\ screen' = [screen EXCEPT
                  ![q.tab] = IF Leads(q) = "NOWHERE" THEN @ ELSE Leads(q)]

\* signIn, boot or signOut goes on with the answer.
Deliver(r) ==
  /\ requests[r] # None /\ requests[r].phase = "ANSWERED"
  /\ requests[r].tab # None
  /\ Handles(requests[r])
  /\ Continues(r, None)
  /\ UNCHANGED <<account, sessions, left>>

\* The network fails: the request never reaches the server, or the server goes
\* on with it and nobody gets the answer.
Lose(r) ==
  /\ requests[r] # None
  /\ requests[r].tab # None
  /\ Spend("failures")
  /\ Handles([requests[r] EXCEPT !.answer = "LOST"])
  /\ \/ Continues(r, None)
     \/ /\ requests[r].phase # "ANSWERED"
        /\ Continues(r, [requests[r] EXCEPT !.tab = None])
  /\ UNCHANGED <<account, sessions>>

\* The answer to a request that nobody waits for.
Discard(r) ==
  /\ requests[r] # None /\ requests[r].phase = "ANSWERED"
  /\ requests[r].tab = None
  /\ Continues(r, None)
  /\ UNCHANGED <<account, sessions, cookie, csrf, screen, left>>

\* A read of the page (OwnerPage) is answered 401: responseError.
ReadRefused(t) ==
  /\ screen[t] = "SHELL"
  /\ screen' = [screen EXCEPT ![t] = "LOGIN"]
  /\ UNCHANGED <<account, sessions, cookie, csrf, requests, left>>

-----------------------------------------------------------------------------

\* Nothing is provisioned yet, or the owner signed in before and closed all.
Init ==
  /\ left \in Scenarios
  /\ account = [enabled |-> left.signedIn,
                credentials |-> IF left.signedIn THEN 1 ELSE 0]
  /\ sessions = IF left.signedIn THEN <<NewSession(1, 1)>> ELSE <<>>
  /\ cookie = Len(sessions)
  /\ csrf = [t \in Tabs |-> 0]
  /\ screen = [t \in Tabs |-> "CLOSED"]
  /\ requests = [r \in Slots |-> None]

Server(r) ==
  \/ ReadAccount(r) \/ StoreSession(r) \/ ReadSession(r) \/ Authorize(r)
  \/ Execute(r) \/ Recheck(r) \/ Revoke(r) \/ Fails(r)

Operator ==
  \/ Provision \/ ChangeCredentials \/ Disable
  \/ \E n \in DOMAIN sessions : Expire(n)

Next ==
  \/ \E t \in Tabs : \/ Load(t) \/ SignIn(t) \/ SignOut(t)
                     \/ SendCommand(t) \/ ReadRefused(t)
  \/ \E r \in Slots : \/ Server(r) \/ Deliver(r) \/ Lose(r) \/ Discard(r)
  \/ Operator

Spec == Init /\ [][Next]_sessionVars

-----------------------------------------------------------------------------

\* A session that is accepted was opened with the password the account has
\* now: changing the credentials ends the sessions before it, also the one of
\* a sign-in that had verified the old password and was not stored yet.
ActiveMeansCurrent ==
  \A n \in DOMAIN sessions :
    Active(n) => sessions[n].proven = account.credentials

\* However many sign-outs of a session run at the same time, exactly one of
\* them is confirmed, and a session is revoked only by a confirmed one.
EachSignOutEndsOne ==
  \A n \in DOMAIN sessions :
    sessions[n].ended = IF sessions[n].revoked THEN 1 ELSE 0

\* A request that was sent after its session had ended, signed out in another
\* tab, expired or outdated by new credentials, is never performed.
LateRequestsGetNothing ==
  \A r \in Slots :
    requests[r] # None /\ requests[r].late => requests[r].answer # "OK"
=============================================================================
