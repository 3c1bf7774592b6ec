----------------------------- MODULE OwnerPage -----------------------------
(***************************************************************************)
(* The views of the owner's page (app.js) over the sessions of             *)
(* OwnerSessions, and the reads the server answers them with               *)
(* (admin_inquiries.list, admin_visits.list).                              *)
(*                                                                         *)
(* A view asks the server and is drawn when the answer comes.  Meanwhile   *)
(* the owner moves on: the answers come in any order, some of them for     *)
(* views that are gone.  The page tells them apart by two counters:        *)
(* viewVersion, compared by the calendar and by a visit, and               *)
(* inquiryRequest, compared by the list.  Here each fetch is marked stale  *)
(* when the counter it compares moves on, and detached when the element    *)
(* it writes into is removed from the page.                                *)
(***************************************************************************)
EXTENDS OwnerSessions, FiniteSets, Functions, SequencesExt

CONSTANTS
  Viewers,    \* the tabs whose views are followed
  Filters,    \* settings of the filters of the list, numbers; 0: no filter
  ListPages,  \* pages the list fills under each setting of the filters
  Inquiries,  \* inquiries that can be opened, numbers
  Months,     \* months of the calendar, numbers
  ThisMonth,  \* the month it is now in the club's time zone
  Visits,     \* visits that may be planned, numbered in the order of their ids
  StartOf,    \* when each visit starts
  MonthsOf,   \* the months that each visit overlaps
  Limit,      \* visits on one page of the calendar's query
  MaxFetches  \* bound of the fetches in flight

ASSUME PageAssumption ==
  /\ Viewers \subseteq Tabs
  /\ Filters \subseteq Nat /\ 0 \in Filters /\ ListPages \in Nat
  /\ Inquiries \subseteq Nat /\ Visits \subseteq Nat
  /\ Months \subseteq Nat \ {0} /\ ThisMonth \in Months
  /\ StartOf \in [Visits -> Nat] /\ MonthsOf \in [Visits -> SUBSET Months]
  /\ Limit \in Nat \ {0} /\ MaxFetches \in Nat
  /\ None # "REFUSED" /\ None \notin [of : Nat, after : Nat]

VARIABLES
  pages,   \* what each followed tab keeps: s, location.hash and #content
  fetches, \* fetches in flight, each under a number of its own
  visits   \* table visits

pageVars == <<pages, fetches, visits>>
vars == <<sessionVars, pageVars>>

\* Which view, and of what: a setting of the filters, an inquiry, a month
\* (0 until the time zone is known), or a visit.
View == [name : {"LIST", "INQUIRY", "CALENDAR", "VISIT"}, of : Nat]
ListOf(f) == [name |-> "LIST", of |-> f]
InquiryOf(i) == [name |-> "INQUIRY", of |-> i]
CalendarOf(m) == [name |-> "CALENDAR", of |-> m]
VisitOf(v) == [name |-> "VISIT", of |-> v]

\* A cursor names the query it belongs to and the last thing of a page: the
\* number of a page of the list, or a visit.
Cursor == [of : Nat, after : Nat]

\* What #content shows.  controls: the button of the next page, or the buttons
\* of the months.  History: since is what was planned when the load began.
Shown == [view : View, cursor : Cursor \cup {None},
          status : {"LOADING", "DATA", "ERROR"}, controls : BOOLEAN,
          items : Seq(Visits), since : SUBSET Visits]

\* event: a change of the hash that the page was not told about yet.
\* History: asked is the view the owner asked for last.
Page == [hash : {"INQUIRIES", "CALENDAR"}, event : BOOLEAN,
         filter : Filters, cursor : Cursor \cup {None},
         next : Cursor \cup {None},
         month : Months \cup {0}, zone : BOOLEAN,
         asked : View, shown : Shown]

\* step: the calendar asks for the time zone first, then for its pages.
Fetch == [tab : Viewers, view : View, step : {"ZONE", "READ"},
          cursor : Cursor \cup {None}, fresh : BOOLEAN, attached : BOOLEAN,
          items : Seq(Visits), seen : SUBSET Cursor, since : SUBSET Visits,
          token : Nat, phase : {"SENT", "CHECKED", "ANSWERED"},
          answer : {"OK", "AUTH_REQUIRED", "REFUSED", "LOST"} \cup {None},
          rows : Seq(Visits), next : Cursor \cup {None}]

PageTypeOK ==
  /\ TypeOK
  /\ pages \in [Viewers -> Page]
  /\ fetches \in [DOMAIN fetches -> Fetch]
  /\ DOMAIN fetches \subseteq Nat /\ IsFiniteSet(DOMAIN fetches)
  /\ \A k \in DOMAIN fetches :
       fetches[k].phase = "ANSWERED" <=> fetches[k].answer # None
  /\ visits \subseteq Visits

-----------------------------------------------------------------------------
(* The views.  Each takes and gives a page p with the fetches f in flight;  *)
(* t is the tab, and jar the cookie that a fetch sent now carries.          *)

\* The counter that fetches for these views compare moves on.
Stale(f, t, names) ==
  [k \in DOMAIN f |->
     IF f[k].tab = t /\ f[k].view.name \in names
     THEN [f[k] EXCEPT !.fresh = FALSE] ELSE f[k]]

NextVersion(f, t) == Stale(f, t, {"CALENDAR", "VISIT"})

\* The element #content is removed.
Detached(f, t) ==
  [k \in DOMAIN f |->
     IF f[k].tab = t THEN [f[k] EXCEPT !.attached = FALSE] ELSE f[k]]

Asks(t, jar, view, step, cursor) ==
  [tab |-> t, view |-> view, step |-> step, cursor |-> cursor,
   fresh |-> TRUE, attached |-> TRUE, items |-> <<>>, seen |-> {},
   since |-> IF view.name = "CALENDAR" /\ step = "READ" THEN visits ELSE {},
   token |-> jar, phase |-> "SENT", answer |-> None, rows |-> <<>>,
   next |-> None]

\* A fetch leaves, under the first number that is not in use, or is over.
Number(f) == First((1..Cardinality(DOMAIN f) + 1) \ DOMAIN f)
Sent(f, x) == [k \in DOMAIN f \cup {Number(f)} |->
                 IF k = Number(f) THEN x ELSE f[k]]
Without(f, k) == Restrict(f, DOMAIN f \ {k})

Blank(view) ==
  [view |-> view, cursor |-> None, status |-> "LOADING", controls |-> FALSE,
   items |-> <<>>, since |-> {}]

Shows(p, shown) == [p EXCEPT !.asked = shown.view, !.shown = shown]

\* loadInquiries: the list stays, with its button, and shows that it loads.
LoadInquiries(t, jar, p, f) ==
  LET view == ListOf(p.filter)
      button == p.shown.view.name = "LIST" /\ p.shown.controls
  IN [p |-> Shows(p, [Blank(view) EXCEPT !.cursor = p.cursor,
                                         !.controls = button]),
      f |-> Sent(Stale(f, t, {"LIST"}),
                 Asks(t, jar, view, "READ", p.cursor))]

ShowInquiryList(t, jar, p, f) ==
  LoadInquiries(t, jar, Shows(p, Blank(ListOf(p.filter))), NextVersion(f, t))

ShowInquiryDetail(t, jar, p, f, i) ==
  [p |-> Shows(p, Blank(InquiryOf(i))),
   f |-> Sent(NextVersion(f, t),
              Asks(t, jar, InquiryOf(i), "READ", None))]

ShowVisitDetail(t, jar, p, f, v) ==
  [p |-> Shows(p, Blank(VisitOf(v))),
   f |-> Sent(NextVersion(f, t), Asks(t, jar, VisitOf(v), "READ", None))]

\* The rest of showCalendar once the time zone is known.
OpenMonth(t, jar, p, f) ==
  LET m == IF p.month = 0 THEN ThisMonth ELSE p.month
      view == CalendarOf(m)
  IN [p |-> [Shows(p, [Blank(view) EXCEPT !.controls = TRUE])
               EXCEPT !.month = m],
      f |-> Sent(f, Asks(t, jar, view, "READ", None))]

\* Without the time zone it is asked for; with it, the hash is compared.
ShowCalendar(t, jar, p, f) ==
  LET blank == Shows(p, Blank(CalendarOf(p.month))) IN
  IF ~p.zone
  THEN [p |-> blank,
        f |-> Sent(NextVersion(f, t),
                   Asks(t, jar, blank.asked, "ZONE", None))]
  ELSE IF p.hash = "CALENDAR"
  THEN OpenMonth(t, jar, blank, NextVersion(f, t))
  ELSE [p |-> blank, f |-> NextVersion(f, t)]

Route(t, jar, p, f) ==
  IF p.hash = "CALENDAR" THEN ShowCalendar(t, jar, p, f)
  ELSE ShowInquiryList(t, jar, p, f)

\* login() and shell(): the whole page is replaced.
LoginView(t, p, f) ==
  [p |-> Shows(p, Blank(ListOf(0))), f |-> NextVersion(Detached(f, t), t)]
ShellView(t, jar, p, f) == Route(t, jar, p, Detached(f, t))

Becomes(t, x) == pages' = [pages EXCEPT ![t] = x.p] /\ fetches' = x.f

-----------------------------------------------------------------------------
(* The handlers of the sessions, with what they do to the views.            *)

NewPage(hash) ==
  [hash |-> hash, event |-> FALSE, filter |-> 0, cursor |-> None,
   next |-> None, month |-> 0, zone |-> FALSE, asked |-> ListOf(0),
   shown |-> Blank(ListOf(0))]

\* Only the hash survives; the fetches of the tab have nobody to answer to.
PageLoad(t) ==
  /\ Load(t)
  /\ IF t \in Viewers
     THEN Becomes(t, [p |-> NewPage(pages[t].hash),
                      f |-> Restrict(fetches, {k \in DOMAIN fetches :
                                               fetches[k].tab # t})])
     ELSE UNCHANGED <<pages, fetches>>
  /\ UNCHANGED visits

\* shell() or login() after an answer; signOut forgets the time zone, too.
Enters(t, q) ==
  IF t \notin Viewers \/ Leads(q) = "NOWHERE"
  THEN UNCHANGED <<pages, fetches>>
  ELSE IF Leads(q) = "SHELL"
  THEN Becomes(t, ShellView(t, Jar(q), pages[t], fetches))
  ELSE Becomes(t, LoginView(t, [pages[t] EXCEPT
                                  !.zone = @ /\ q.kind # "SIGN_OUT"],
                            fetches))

PageDeliver(r) ==
  /\ Deliver(r)
  /\ Enters(requests[r].tab, requests[r])
  /\ UNCHANGED visits

PageLose(r) ==
  /\ Lose(r)
  /\ Enters(requests[r].tab, [requests[r] EXCEPT !.answer = "LOST"])
  /\ UNCHANGED visits

-----------------------------------------------------------------------------
(* The moves of the owner.                                                  *)

Moves(t) ==
  /\ screen[t] = "SHELL"
  /\ Spend("moves")
  /\ Cardinality(DOMAIN fetches) < MaxFetches
  /\ UNCHANGED <<account, sessions, cookie, csrf, screen, requests, visits>>

\* A link of the navigation, or the browser's history: the hash changes at
\* once, the page is told later.
FollowLink(t) ==
  /\ Moves(t)
  /\ ~pages[t].event
  /\ pages' = [pages EXCEPT
       ![t].event = TRUE,
       ![t].hash = IF @ = "CALENDAR" THEN "INQUIRIES" ELSE "CALENDAR"]
  /\ UNCHANGED fetches

\* onhashchange; on the login view route finds no #content.
HashChanged(t) ==
  /\ pages[t].event
  /\ LET p == [pages[t] EXCEPT !.event = FALSE] IN
       Becomes(t, IF screen[t] = "SHELL" THEN Route(t, cookie, p, fetches)
                  ELSE [p |-> p, f |-> NextVersion(fetches, t)])
  /\ UNCHANGED <<sessionVars, visits>>

OpenInquiry(t, i) ==
  /\ Moves(t)
  /\ pages[t].shown.view.name = "LIST" /\ pages[t].shown.status = "DATA"
  /\ Becomes(t, ShowInquiryDetail(t, cookie, pages[t], fetches, i))

\* The button of a detail: to the list, or to the calendar.
Back(t) ==
  /\ Moves(t)
  /\ \/ /\ pages[t].shown.view.name = "INQUIRY"
        /\ Becomes(t, ShowInquiryList(t, cookie, pages[t], fetches))
     \/ /\ pages[t].shown.view.name = "VISIT"
        /\ Becomes(t, ShowCalendar(t, cookie, pages[t], fetches))

\* A filter changes: the cursor is reset.
ChangeFilter(t, filter) ==
  /\ Moves(t)
  /\ pages[t].shown.view.name = "LIST" /\ filter # pages[t].filter
  /\ Becomes(t, LoadInquiries(t, cookie,
                  [pages[t] EXCEPT !.filter = filter, !.cursor = None],
                  fetches))

\* The button of the next page; it stays while the list loads.
NextPage(t) ==
  /\ Moves(t)
  /\ pages[t].shown.view.name = "LIST" /\ pages[t].shown.controls
  /\ Becomes(t, LoadInquiries(t, cookie,
                  [pages[t] EXCEPT !.cursor = pages[t].next], fetches))

\* changeMonth by one, or back to the current month.
ChangeMonth(t, m) ==
  /\ Moves(t)
  /\ pages[t].shown.view.name = "CALENDAR" /\ pages[t].shown.controls
  /\ m \in {pages[t].month - 1, pages[t].month + 1, ThisMonth}
  /\ Becomes(t, ShowCalendar(t, cookie, [pages[t] EXCEPT !.month = m],
                             fetches))

OpenVisit(t, v) ==
  /\ Moves(t)
  /\ pages[t].shown.view.name = "CALENDAR" /\ pages[t].shown.status = "DATA"
  /\ v \in Range(pages[t].shown.items)
  /\ Becomes(t, ShowVisitDetail(t, cookie, pages[t], fetches, v))

-----------------------------------------------------------------------------
(* The reads.                                                               *)

\* Of two visits that start together the one with the greater id is later.
Later(v, w) ==
  \/ StartOf[v] > StartOf[w]
  \/ StartOf[v] = StartOf[w] /\ v > w

\* Mutant: the query goes on after the start of the last visit.
StartsAfter(v, cursor) ==
  cursor # None => StartOf[v] > StartOf[cursor.after]

\* The query goes on after the last visit of the page before.
Follows(v, cursor) == cursor # None => Later(v, cursor.after)

\* Mutant: the query that a cursor was made for is not compared.
FitsAny(cursor, of) == TRUE

\* A cursor is refused unless it was made for the same query.
Fits(cursor, of) == cursor = None \/ cursor.of = of

Refusal == [answer |-> "REFUSED", rows |-> <<>>, next |-> None]

\* AdminInquiryReader.list, one page; what is on it does not matter here.
InquiryRows(of, cursor) ==
  LET page == IF cursor = None THEN 1 ELSE cursor.after + 1 IN
  IF ~Fits(cursor, of) THEN Refusal
  ELSE [answer |-> "OK", rows |-> <<>>,
        next |-> IF page < ListPages THEN [of |-> of, after |-> page]
                 ELSE None]

\* The first visits of S in order, at most Limit of them.
FirstOf(S) ==
  CHOOSE rows \in BoundedSeq(S, Limit) :
    /\ \A i, j \in DOMAIN rows : i < j => Later(rows[j], rows[i])
    /\ \A v \in S \ Range(rows) :
         Len(rows) = Limit /\ \A i \in DOMAIN rows : Later(v, rows[i])

\* AdminVisitReader.list: the first visits of the month after the cursor.
VisitRows(of, cursor) ==
  LET after == {v \in visits : of \in MonthsOf[v] /\ Follows(v, cursor)}
      rows == FirstOf(after)
  IN IF ~Fits(cursor, of) THEN Refusal
     ELSE [answer |-> "OK", rows |-> rows,
           next |-> IF after = Range(rows) THEN None
                    ELSE [of |-> of, after |-> rows[Limit]]]

\* What the server finds for a fetch.
Found(x) ==
  CASE x.step = "READ" /\ x.view.name = "LIST" ->
         InquiryRows(x.view.of, x.cursor)
    [] x.step = "READ" /\ x.view.name = "CALENDAR" ->
         VisitRows(x.view.of, x.cursor)
    [] OTHER -> [answer |-> "OK", rows |-> <<>>, next |-> None]

FetchBecomes(k, x) ==
  /\ fetches' = [fetches EXCEPT ![k] = x]
  /\ UNCHANGED <<account, sessions, cookie, csrf, screen, requests, pages,
                 visits>>

AnsweredWith(x, answer) == [x EXCEPT !.phase = "ANSWERED", !.answer = answer]

\* Mutant: a session that is over is noticed and not answered.
CheckSilently(k) ==
  /\ fetches[k].phase = "SENT" /\ fetches[k].step = "READ"
  /\ FetchBecomes(k, [fetches[k] EXCEPT
                        !.phase = IF Active(fetches[k].token)
                                  THEN "CHECKED" ELSE "ANSWERED"])
  /\ UNCHANGED left

\* owner_read_runtime: the session is checked in a transaction of its own.
CheckFetch(k) ==
  /\ fetches[k].phase = "SENT" /\ fetches[k].step = "READ"
  /\ FetchBecomes(k, IF Active(fetches[k].token)
                     THEN [fetches[k] EXCEPT !.phase = "CHECKED"]
                     ELSE AnsweredWith(fetches[k], "AUTH_REQUIRED"))
  /\ UNCHANGED left

\* The read itself; the catalogue with the time zone is public.
AnswerFetch(k) ==
  /\ fetches[k].phase = IF fetches[k].step = "ZONE" THEN "SENT" ELSE "CHECKED"
  /\ LET found == Found(fetches[k]) IN
       FetchBecomes(k, [AnsweredWith(fetches[k], found.answer) EXCEPT
                          !.rows = found.rows, !.next = found.next])
  /\ UNCHANGED left

\* The server or the network fails; a session that cannot be checked is 401.
FailFetch(k) ==
  /\ fetches[k].phase # "ANSWERED"
  /\ Spend("failures")
  /\ \E answer \in {"LOST",
                    IF fetches[k].phase = "SENT" /\ fetches[k].step = "READ"
                    THEN "AUTH_REQUIRED" ELSE "REFUSED"} :
       FetchBecomes(k, AnsweredWith(fetches[k], answer))

\* The owner plans a visit elsewhere.
PlanVisit(v) ==
  /\ v \notin visits
  /\ Spend("plans")
  /\ visits' = visits \cup {v}
  /\ UNCHANGED <<account, sessions, cookie, csrf, screen, requests, pages,
                 fetches>>

-----------------------------------------------------------------------------
(* The answers to the reads.                                                *)

\* The element that the list, or the calendar, writes into is in the page.
InPage(t, name) == screen[t] = "SHELL" /\ pages[t].shown.view.name = name

\* Under the hash of the calendar an answer for the list is dropped, but the
\* catch does not look at the hash: it shows that the fetch failed.
HeedsList(x) ==
  x.fresh /\ (pages[x.tab].hash # "CALENDAR" \/ x.answer = "LOST")

\* Mutant: a visit is drawn whenever its answer comes.
HeedsLateVisits(x) ==
  CASE x.view.name = "LIST" -> HeedsList(x)
    [] x.view.name = "INQUIRY" -> TRUE
    [] x.view.name = "VISIT" -> x.attached
    [] OTHER -> x.fresh /\ (x.step = "READ" => InPage(x.tab, "CALENDAR"))

\* Whether the handler of an answer looks at it: the detail of an inquiry
\* compares nothing.
Heeds(x) ==
  CASE x.view.name = "LIST" -> HeedsList(x)
    [] x.view.name = "INQUIRY" -> TRUE
    [] x.view.name = "VISIT" -> x.fresh
    [] OTHER -> x.fresh /\ (x.step = "READ" => InPage(x.tab, "CALENDAR"))

\* The answer to the fetch k has come, and its handler is not responseError.
Comes(k, name, step) ==
  /\ fetches[k].phase = "ANSWERED"
  /\ fetches[k].view.name = name /\ fetches[k].step = step
  /\ fetches[k].answer = "AUTH_REQUIRED" => ~Heeds(fetches[k])
  /\ UNCHANGED <<sessionVars, visits>>

\* The page of its tab goes on as p.
Leaves(k, p) ==
  Becomes(fetches[k].tab, [p |-> p, f |-> Without(fetches, k)])

\* A detail is drawn, or the message that it is not to be had; the message of
\* a refusal is added to whatever stands there, the text that it loads too.
Drawn(p, x) ==
  LET status == IF x.answer = "OK" THEN "DATA" ELSE "ERROR" IN
  IF x.answer # "REFUSED"
  THEN [p EXCEPT !.shown = [Blank(x.view) EXCEPT !.status = status]]
  ELSE IF p.shown.view = x.view /\ p.shown.status = "LOADING"
  THEN [p EXCEPT !.shown.status = "ERROR"]
  ELSE p

\* responseError: 401 leads to the login view.
TakeRefusal(k) ==
  LET t == fetches[k].tab IN
  /\ fetches[k].answer = "AUTH_REQUIRED" /\ Heeds(fetches[k])
  /\ screen' = [screen EXCEPT ![t] = "LOGIN"]
  /\ Becomes(t, LoginView(t, pages[t], Without(fetches, k)))
  /\ UNCHANGED <<account, sessions, cookie, csrf, requests, left, visits>>

\* Mutant: the catch of the list is forgotten.
TakeListOnly(k) ==
  LET x == fetches[k]
      p == pages[x.tab]
      next == [p EXCEPT !.next = x.next]
  IN
  /\ Comes(k, "LIST", "READ")
  /\ Leaves(k, IF ~Heeds(x) \/ x.answer # "OK" THEN p
               ELSE IF InPage(x.tab, "LIST")
               THEN [next EXCEPT !.shown.status = "DATA",
                                 !.shown.controls = x.next # None]
               ELSE next)

\* loadInquiries goes on.  If the list is not in the page, only the cursor of
\* the next page is taken.
TakeList(k) ==
  LET x == fetches[k]
      p == pages[x.tab]
      next == IF x.answer = "OK" THEN [p EXCEPT !.next = x.next] ELSE p
  IN
  /\ Comes(k, "LIST", "READ")
  /\ Leaves(k, IF ~Heeds(x) THEN p
               ELSE IF ~InPage(x.tab, "LIST") THEN next
               ELSE IF x.answer # "OK"
               THEN [p EXCEPT !.shown.status = "ERROR"]
               ELSE [next EXCEPT !.shown.status = "DATA",
                                 !.shown.controls = x.next # None])

\* showInquiryDetail goes on, whatever is shown by now.
TakeInquiry(k) ==
  LET x == fetches[k]
      p == pages[x.tab]
  IN
  /\ Comes(k, "INQUIRY", "READ")
  /\ Leaves(k, IF x.attached THEN Drawn(p, x) ELSE p)

\* showVisitDetail goes on, if it is still wanted.
TakeVisit(k) ==
  LET x == fetches[k]
      p == pages[x.tab]
  IN
  /\ Comes(k, "VISIT", "READ")
  /\ Leaves(k, IF Heeds(x) THEN Drawn(p, x) ELSE p)

\* clubTimezone, and the rest of showCalendar; the time zone is kept even if
\* the calendar is not wanted any more.
TakeZone(k) ==
  LET x == fetches[k]
      p == [pages[x.tab] EXCEPT !.zone = @ \/ x.answer = "OK"]
  IN
  /\ Comes(k, "CALENDAR", "ZONE")
  /\ IF x.answer = "OK" /\ x.fresh /\ p.hash = "CALENDAR"
     THEN Becomes(x.tab, OpenMonth(x.tab, cookie, p, Without(fetches, k)))
     ELSE Leaves(k, IF x.answer # "OK" /\ x.fresh
                    THEN [p EXCEPT !.shown = [Blank(CalendarOf(p.month))
                                                EXCEPT !.status = "ERROR"]]
                    ELSE p)

\* visitPages asks for the next page, also when the calendar is gone.
Loops(x) == x.next \in x.seen
AskMore(k) ==
  LET x == fetches[k] IN
  /\ Comes(k, "CALENDAR", "READ")
  /\ x.answer = "OK" /\ x.next # None /\ ~Loops(x)
  /\ fetches' = Sent(Without(fetches, k),
       [x EXCEPT !.items = @ \o x.rows, !.seen = @ \cup {x.next},
                 !.cursor = x.next, !.token = cookie, !.phase = "SENT",
                 !.answer = None, !.rows = <<>>, !.next = None])
  /\ UNCHANGED pages

\* loadCalendar goes on after the last page, or after a failure.
TakeVisits(k) ==
  LET x == fetches[k]
      p == pages[x.tab]
      done == x.answer = "OK" /\ x.next = None
  IN
  /\ Comes(k, "CALENDAR", "READ")
  /\ x.answer = "OK" => done \/ Loops(x)
  /\ Leaves(k, IF ~Heeds(x) \/ (done /\ p.hash # "CALENDAR") THEN p
               ELSE IF done
               THEN [p EXCEPT !.shown.status = "DATA",
                              !.shown.items = x.items \o x.rows,
                              !.shown.since = x.since]
               ELSE [p EXCEPT !.shown.status = "ERROR"])

-----------------------------------------------------------------------------

PageInit ==
  /\ Init
  /\ \E hash \in {"INQUIRIES", "CALENDAR"} :
       pages = [t \in Viewers |-> NewPage(hash)]
  /\ fetches = <<>>
  /\ visits = {}

Person ==
  \/ \E t \in Viewers :
       \/ FollowLink(t) \/ HashChanged(t) \/ Back(t) \/ NextPage(t)
       \/ \E i \in Inquiries : OpenInquiry(t, i)
       \/ \E filter \in Filters : ChangeFilter(t, filter)
       \/ \E m \in Months : ChangeMonth(t, m)
       \/ \E v \in Visits : OpenVisit(t, v)
  \/ \E v \in Visits : PlanVisit(v)

Reads(k) == CheckFetch(k) \/ AnswerFetch(k) \/ FailFetch(k)

Takes(k) ==
  \/ TakeRefusal(k) \/ TakeList(k) \/ TakeInquiry(k) \/ TakeVisit(k)
  \/ TakeZone(k) \/ AskMore(k) \/ TakeVisits(k)

\* Steps of the sessions that the views take no part in.
Sessions ==
  \/ \E t \in Tabs : SignIn(t) \/ SignOut(t) \/ SendCommand(t)
  \/ \E t \in Tabs \ Viewers : ReadRefused(t)
  \/ \E r \in Slots : Server(r) \/ Discard(r)
  \/ Operator

PageNext ==
  \/ Person
  \/ \E k \in DOMAIN fetches : Reads(k) \/ Takes(k)
  \/ \E t \in Tabs : PageLoad(t)
  \/ \E r \in Slots : PageDeliver(r) \/ PageLose(r)
  \/ Sessions /\ UNCHANGED pageVars

PageSpec == PageInit /\ [][PageNext]_vars

-----------------------------------------------------------------------------

\* What the owner sees is what the owner asked for last, under the filters,
\* the page of the list and the month that are set: no answer that comes late
\* takes the place of another view.  The detail of an inquiry is the exception,
\* see ListIsAwaited.
ShownIsAsked ==
  \A t \in Viewers :
    LET p == pages[t]
        s == pages[t].shown
    IN screen[t] = "SHELL" =>
         \/ /\ s.view = p.asked
            /\ s.view.name = "LIST" =>
                 s.view.of = p.filter /\ s.cursor = p.cursor
            /\ s.view.name = "CALENDAR" => s.view.of = p.month
         \/ s.view.name = "INQUIRY" /\ s.status # "LOADING"

\* An answer is on its way that will replace what the tab shows while it loads.
Awaited(t) ==
  \/ pages[t].event
  \/ \E k \in DOMAIN fetches :
       /\ fetches[k].tab = t /\ fetches[k].view = pages[t].shown.view
       /\ Heeds(fetches[k])
       /\ fetches[k].view.name = "INQUIRY" => fetches[k].attached

Loading(t) == screen[t] = "SHELL" /\ pages[t].shown.status = "LOADING"

\* No view loads for ever: whatever is answered, dropped or refused on the way,
\* an answer is coming that ends the loading, or the hash has changed.  The
\* list under the hash of the calendar is the exception, see ListIsAwaited.
LoadingIsAwaited ==
  \A t \in Viewers :
    Loading(t) =>
      \/ Awaited(t)
      \/ pages[t].shown.view.name = "LIST" /\ pages[t].hash = "CALENDAR"

\* A month that is drawn holds every visit that overlaps it and was planned
\* when its first page was asked for, and every visit once, in order, although
\* it was read page by page while visits were planned.
CalendarIsComplete ==
  \A t \in Viewers :
    LET s == pages[t].shown IN
    s.view.name = "CALENDAR" /\ s.status = "DATA" =>
      /\ {v \in s.since : s.view.of \in MonthsOf[v]} \subseteq Range(s.items)
      /\ \A i, j \in DOMAIN s.items : i < j => Later(s.items[j], s.items[i])
      /\ \A i \in DOMAIN s.items : s.view.of \in MonthsOf[s.items[i]]

\* A page of the list that is drawn continues a page of the same list, although
\* the button of the next page outlives a change of the filters.
ListFitsFilters ==
  \A t \in Viewers :
    LET s == pages[t].shown IN
    s.view.name = "LIST" /\ s.status = "DATA" =>
      s.cursor = None \/ s.cursor.of = s.view.of

\* When the list is opened or a detail is closed, the list is on its way: it is
\* not, if the detail was drawn over the calendar by a late answer.
ListIsAwaited ==
  \A t \in Viewers :
    Loading(t) /\ pages[t].shown.view.name = "LIST" => Awaited(t)
=============================================================================
