-------------------------- MODULE OwnerPageProofs --------------------------
(***************************************************************************)
(* The theorems about the page with its views: those about the sessions    *)
(* hold for it, too, and what it shows is what the owner asked for, and    *)
(* all of it.                                                              *)
(*                                                                         *)
(* The second part rests on the inductive invariant PageInv.  It relates   *)
(* each fetch in flight to what its tab shows by now (TabOK) and to what   *)
(* was read before it (FetchOK).  A step of one tab leaves the fetches of  *)
(* the others alone (KeepsOthers), so each handler is taken by itself.     *)
(***************************************************************************)
EXTENDS OwnerPage, OwnerSessionsProofs, FiniteSetTheorems, SequenceTheorems

\* What people do on the page, and failing reads, use up acts of the scenario
\* and change nothing else of the sessions.
LEMMA ActsOK ==
  ASSUME SessionInv, NEW act \in Acts, Spend(act),
         UNCHANGED <<account, sessions, cookie, csrf, screen, requests>>
  PROVE  SessionInv'
<1>1. left' \in Scenario /\ screen' \in [Tabs -> Screens]
  BY SpendType DEF SessionInv, TypeOK
<1> QED
  BY <1>1, ScreenOK

LEMMA PersonOK == ASSUME SessionInv, Person PROVE SessionInv'
<1>1. ASSUME NEW t \in Viewers, Moves(t) PROVE SessionInv'
  BY <1>1, ActsOK DEF Moves, Acts
<1>2. ASSUME NEW t \in Viewers, HashChanged(t) PROVE SessionInv'
  BY <1>2, StepOK DEF HashChanged
<1>3. ASSUME NEW v \in Visits, PlanVisit(v) PROVE SessionInv'
  BY <1>3, ActsOK DEF PlanVisit, Acts
<1> QED
  BY <1>1, <1>2, <1>3
  DEF Person, FollowLink, Back, NextPage, OpenInquiry, ChangeFilter,
      ChangeMonth, OpenVisit

LEMMA FetchesOK ==
  ASSUME SessionInv, NEW k \in DOMAIN fetches, Reads(k) \/ Takes(k)
  PROVE  SessionInv'
<1>1. CASE TakeRefusal(k)
  <2>1. screen' \in [Tabs -> Screens] /\ left' \in Scenario
    BY <1>1 DEF SessionInv, TypeOK, TakeRefusal, Screens
  <2> QED
    BY <1>1, <2>1, ScreenOK DEF TakeRefusal
<1>2. CASE FailFetch(k)
  <2>1. /\ Spend("failures")
        /\ UNCHANGED <<account, sessions, cookie, csrf, screen, requests>>
    BY <1>2 DEF FailFetch, FetchBecomes
  <2> QED
    BY <2>1, ActsOK DEF Acts
<1>3. CASE UNCHANGED sessionVars
  BY <1>3, StepOK
<1>4. CheckFetch(k) \/ AnswerFetch(k) => UNCHANGED sessionVars
  BY DEF CheckFetch, AnswerFetch, FetchBecomes, sessionVars
<1>5. TakeList(k) \/ TakeInquiry(k) \/ TakeVisit(k) \/ TakeZone(k)
        \/ AskMore(k) \/ TakeVisits(k) => UNCHANGED sessionVars
  BY DEF TakeList, TakeInquiry, TakeVisit, TakeZone, AskMore, TakeVisits, Comes
<1> QED
  BY <1>1, <1>2, <1>3, <1>4, <1>5 DEF Reads, Takes

LEMMA PageStepOK == SessionInv /\ [PageNext]_vars => SessionInv'
<1> SUFFICES ASSUME SessionInv, [PageNext]_vars PROVE SessionInv'
  OBVIOUS
<1>1. CASE Sessions
  BY <1>1, StepOK DEF Sessions, Next
<1>2. ASSUME NEW t \in Tabs, PageLoad(t) PROVE SessionInv'
  BY <1>2, SendsOK DEF PageLoad
<1>3. ASSUME NEW r \in Slots, PageDeliver(r) \/ PageLose(r) PROVE SessionInv'
  BY <1>3, AnswersOK DEF PageDeliver, PageLose
<1>4. CASE UNCHANGED vars
  BY <1>4, StepOK DEF vars
<1> QED
  BY <1>1, <1>2, <1>3, <1>4, PersonOK, FetchesOK DEF PageNext

\* With all views, their reads and the moves of the owner, sessions that are
\* accepted are current, each sign-out ends one session, and a late request
\* gets nothing (app.js over admin_sessions.py).
THEOREM SessionsUnderThePage ==
  PageSpec => [](ActiveMeansCurrent /\ EachSignOutEndsOne
                 /\ LateRequestsGetNothing)
<1>1. PageInit => SessionInv
  BY InitOK DEF PageInit
<1>2. PageSpec => []SessionInv
  BY <1>1, PageStepOK, PTL DEF PageSpec
<1> QED
  BY <1>2, InvMeans, PTL
-----------------------------------------------------------------------------
(* The inductive invariant.  A tab t shows the screen c and keeps the page  *)
(* p, while the fetches f are in flight.                                    *)

\* The answer to x is dropped once viewVersion moves on.
Versioned(x) == x.fresh /\ x.view.name \in {"CALENDAR", "VISIT"}

\* The answer to x ends the loading of what p shows.
Replaces(t, p, x) ==
  /\ x.tab = t /\ x.view = p.shown.view
  /\ IF x.view.name = "INQUIRY" THEN x.attached ELSE x.fresh

\* ShownIsAsked for one page.
ShownOK(c, p) ==
  c = "SHELL" =>
    \/ /\ p.shown.view = p.asked
       /\ p.shown.view.name = "LIST" =>
            p.shown.view.of = p.filter /\ p.shown.cursor = p.cursor
       /\ p.shown.view.name = "CALENDAR" => p.shown.view.of = p.month
    \/ p.shown.view.name = "INQUIRY" /\ p.shown.status # "LOADING"

\* The calendar and its visits are asked for under their hash only, unless the
\* page is about to hear that it changed.
HashOK(c, p) ==
  c = "SHELL" /\ p.asked.name \in {"CALENDAR", "VISIT"} =>
    p.event \/ p.hash = "CALENDAR"

\* One fetch at most for the present version of the views, and for the view
\* that was asked for.
VersionOK(t, c, p, f) ==
  \A k \in DOMAIN f : f[k].tab = t /\ Versioned(f[k]) =>
    /\ c = "SHELL" /\ f[k].view = p.asked
    /\ f[k].view.name = "CALENDAR" => f[k].view.of = p.month
    /\ \A j \in DOMAIN f : f[j].tab = t /\ Versioned(f[j]) => j = k

\* The list is asked for as it is shown.
ListOK(t, c, p, f) ==
  \A k \in DOMAIN f :
    /\ f[k].tab = t /\ f[k].fresh /\ f[k].view.name = "LIST"
    /\ c = "SHELL" /\ p.shown.view.name = "LIST"
    => f[k].view = p.shown.view /\ f[k].cursor = p.shown.cursor

AwaitOK(t, c, p, f) ==
  c = "SHELL" /\ p.shown.status = "LOADING" =>
    \/ p.event
    \/ p.shown.view.name = "LIST" /\ p.hash = "CALENDAR"
    \/ \E k \in DOMAIN f : Replaces(t, p, f[k])

Ordered(items) ==
  \A i, j \in DOMAIN items : i < j => Later(items[j], items[i])
InMonth(items, m) == \A i \in DOMAIN items : m \in MonthsOf[items[i]]

\* CalendarIsComplete and ListFitsFilters for one page.
DrawnOK(p) ==
  LET s == p.shown IN
  s.status = "DATA" =>
    /\ s.view.name = "CALENDAR" =>
         /\ {v \in s.since : s.view.of \in MonthsOf[v]} \subseteq Range(s.items)
         /\ Ordered(s.items) /\ InMonth(s.items, s.view.of)
    /\ s.view.name = "LIST" => Fits(s.cursor, s.view.of)

TabOK(t, c, p, f) ==
  /\ ShownOK(c, p) /\ HashOK(c, p) /\ VersionOK(t, c, p, f)
  /\ ListOK(t, c, p, f) /\ AwaitOK(t, c, p, f) /\ DrawnOK(p)

\* The pages of a month read so far: what they hold is in order, before all
\* that follows the cursor, and nothing is left out.
SoFarOK(x, held) ==
  LET m == x.view.of IN
  /\ x.since \subseteq held
  /\ x.cursor # None => x.cursor.after \in Visits
  /\ Ordered(x.items) /\ InMonth(x.items, m)
  /\ \A v \in Visits, i \in DOMAIN x.items :
       Follows(v, x.cursor) => Later(v, x.items[i])
  /\ \A v \in x.since :
       m \in MonthsOf[v] => v \in Range(x.items) \/ Follows(v, x.cursor)

\* The page that was answered continues them.
GoesOn(x) ==
  LET m == x.view.of IN
  /\ Ordered(x.rows) /\ InMonth(x.rows, m)
  /\ \A i \in DOMAIN x.rows : Follows(x.rows[i], x.cursor)
  /\ \A v \in x.since :
       m \in MonthsOf[v] /\ Follows(v, x.cursor) =>
         v \in Range(x.rows) \/ (x.next # None /\ Follows(v, x.next))
  /\ x.next # None =>
       /\ x.next.after \in Visits
       /\ \A v \in Visits : Follows(v, x.next) =>
            Follows(v, x.cursor) /\ \A i \in DOMAIN x.rows : Later(v, x.rows[i])

FetchOK(x, held) ==
  /\ x.phase = "ANSWERED" <=> x.answer # None
  /\ x.view.name = "LIST" /\ x.step = "READ" /\ x.answer = "OK" =>
       Fits(x.cursor, x.view.of)
  /\ x.view.name = "CALENDAR" /\ x.step = "READ" =>
       SoFarOK(x, held) /\ (x.answer = "OK" => GoesOn(x))

PageTypes ==
  /\ pages \in [Viewers -> Page]
  /\ fetches \in [DOMAIN fetches -> Fetch]
  /\ DOMAIN fetches \subseteq Nat /\ IsFiniteSet(DOMAIN fetches)
  /\ visits \subseteq Visits

PageInv ==
  /\ SessionInv /\ PageTypes
  /\ \A k \in DOMAIN fetches : FetchOK(fetches[k], visits)
  /\ \A t \in Viewers : TabOK(t, screen[t], pages[t], fetches)

-----------------------------------------------------------------------------
(* Lemmas about the operators: the least number of a set, and the first     *)
(* visits of a set in order. The library orders the finite sets; that is    *)
(* all the induction needed.                                                *)

\* Every set of numbers has a least one.
LEMMA Least ==
  ASSUME NEW S \in SUBSET Nat, S # {}
  PROVE  First(S) \in S /\ \A q \in S : First(S) <= q
<1> DEFINE T == {0..n : n \in S}
<1>1. \A n \in Nat : 0..n \in FiniteSubsetsOf(Nat)
  BY FS_Interval DEF FiniteSubsetsOf
<1>2. T \subseteq FiniteSubsetsOf(Nat) /\ T # {}
  BY <1>1
<1>3. PICK X \in T : \A Y \in T : ~(<<Y, X>> \in StrictSubsetOrdering(Nat))
  <2> HIDE DEF T
  <2> QED
    BY <1>2, FS_StrictSubsetOrderingWellFounded, WFMin
<1>4. PICK x \in S : X = 0..x
  BY <1>3
<1>5. \A y \in S : x <= y
  <2> SUFFICES ASSUME NEW y \in S, y < x PROVE FALSE
    OBVIOUS
  <2>1. 0..y \subseteq 0..x /\ x \in 0..x /\ x \notin 0..y
    OBVIOUS
  <2>2. 0..y \in T /\ 0..y \subseteq Nat /\ 0..x \subseteq Nat /\ 0..y # 0..x
    BY <2>1
  <2> QED
    BY <1>3, <1>4, <2>1, <2>2 DEF StrictSubsetOrdering
<1> QED
  BY <1>5 DEF First

\* A fetch that is sent takes the place of no other.
LEMMA NumberIsFree ==
  ASSUME NEW f, DOMAIN f \subseteq Nat, IsFiniteSet(DOMAIN f)
  PROVE  Number(f) \in Nat \ DOMAIN f
<1> DEFINE n == Cardinality(DOMAIN f)
<1>1. n \in Nat
  BY FS_CardinalityType
<1>2. IsFiniteSet(1..n + 1) /\ Cardinality(1..n + 1) = n + 1
  BY <1>1, FS_Interval
<1>3. (1..n + 1) \ DOMAIN f # {}
  <2>1. ASSUME 1..n + 1 \subseteq DOMAIN f PROVE FALSE
    BY <1>1, <1>2, <2>1, FS_Subset
  <2> QED
    BY <2>1
<1>4. First((1..n + 1) \ DOMAIN f) \in (1..n + 1) \ DOMAIN f
  BY <1>1, <1>3, Least
<1> QED
  BY <1>1, <1>4 DEF Number

\* The visits are in one order.
LEMMA LaterIsOrder ==
  ASSUME NEW u \in Visits, NEW v \in Visits, NEW w \in Visits
  PROVE  /\ ~Later(v, v)
         /\ v # w => Later(v, w) \/ Later(w, v)
         /\ Later(u, v) /\ Later(v, w) => Later(u, w)
  BY PageAssumption DEF Later

LEMMA Earliest ==
  ASSUME NEW S \in SUBSET Visits, S # {}
  PROVE  \E v \in S : \A w \in S \ {v} : Later(w, v)
<1>1. \A v \in S : v \in Nat /\ StartOf[v] \in Nat
  BY PageAssumption
<1> DEFINE Starts == {StartOf[v] : v \in S}
           start == First(Starts)
           Same == {v \in S : StartOf[v] = start}
<1>2. start \in Starts /\ \A q \in Starts : start <= q
  <2>1. Starts \in SUBSET Nat /\ Starts # {}
    BY <1>1
  <2> HIDE DEF Starts
  <2> QED
    BY <2>1, Least
<1>3. PICK v \in Same : \A w \in Same : v <= w
  <2>1. Same \in SUBSET Nat /\ Same # {}
    BY <1>1, <1>2
  <2> HIDE DEF Same
  <2> QED
    BY <2>1, Least
<1>4. ASSUME NEW w \in S \ {v} PROVE Later(w, v)
  <2>1. start <= StartOf[w] /\ StartOf[v] = start
    BY <1>2
  <2>2. StartOf[w] = start => v <= w
    BY <1>3
  <2> QED
    BY <1>1, <2>1, <2>2 DEF Later
<1> QED
  BY <1>4

\* What FirstOf chooses, for any length n of a page.
IsFirst(S, n, rows) ==
  /\ Ordered(rows)
  /\ \A v \in S \ Range(rows) :
       Len(rows) = n /\ \A i \in DOMAIN rows : Later(v, rows[i])

LEMMA BoundedSeqMeans ==
  ASSUME NEW S, NEW n \in Nat, NEW rows
  PROVE  rows \in BoundedSeq(S, n) <=> rows \in Seq(S) /\ Len(rows) <= n
<1>1. ASSUME rows \in Seq(S), Len(rows) <= n PROVE rows \in BoundedSeq(S, n)
  BY <1>1, LenProperties DEF BoundedSeq, SeqOf
<1>2. ASSUME rows \in BoundedSeq(S, n) PROVE rows \in Seq(S) /\ Len(rows) <= n
  <2> PICK m \in 0..n : rows \in [1..m -> S]
    BY <1>2 DEF BoundedSeq, SeqOf
  <2> QED
    OBVIOUS
<1> QED
  BY <1>1, <1>2

\* A page that may hold one visit more.
LEMMA OneMore ==
  ASSUME NEW S \in SUBSET Visits, NEW n \in Nat,
         NEW rows \in BoundedSeq(S, n), IsFirst(S, n, rows)
  PROVE  \E more \in BoundedSeq(S, n + 1) : IsFirst(S, n + 1, more)
<1>1. rows \in Seq(S) /\ Len(rows) <= n /\ Len(rows) \in Nat
      /\ DOMAIN rows = 1..Len(rows)
  BY BoundedSeqMeans, LenProperties
<1>2. CASE S \subseteq Range(rows)
  <2>1. rows \in BoundedSeq(S, n + 1)
    BY <1>1, BoundedSeqMeans
  <2> QED
    BY <1>2, <2>1 DEF IsFirst
<1>3. CASE ~(S \subseteq Range(rows))
  <2>1. PICK v \in S \ Range(rows) : \A w \in (S \ Range(rows)) \ {v} : Later(w, v)
    BY <1>3, Earliest
  <2> DEFINE more == Append(rows, v)
  <2>2. /\ more \in Seq(S) /\ Len(more) = Len(rows) + 1
        /\ \A i \in 1..Len(rows) : more[i] = rows[i]
        /\ more[Len(rows) + 1] = v
    BY <1>1, AppendProperties
  <2>3. Len(rows) = n /\ \A i \in DOMAIN rows : Later(v, rows[i])
    BY DEF IsFirst
  <2>4. DOMAIN more = 1..n + 1
    BY <2>2, <2>3, LenProperties
  <2>5. more \in BoundedSeq(S, n + 1)
    <3> HIDE DEF more
    <3> QED
      BY <2>2, <2>3, BoundedSeqMeans
  <2>6. Ordered(more)
    <3> HIDE DEF more
    <3> SUFFICES ASSUME NEW i \in 1..n + 1, NEW j \in 1..n + 1, i < j
                 PROVE  Later(more[j], more[i])
      BY <2>4 DEF Ordered
    <3>1. i \in 1..n /\ more[i] = rows[i]
      BY <2>2, <2>3
    <3>2. CASE j = n + 1
      BY <1>1, <2>2, <2>3, <3>1, <3>2
    <3>3. CASE j \in 1..n
      BY <1>1, <2>2, <2>3, <3>1, <3>3 DEF IsFirst, Ordered
    <3> QED
      BY <3>2, <3>3
  <2>7. ASSUME NEW w \in S \ Range(more), NEW i \in DOMAIN more
        PROVE  Later(w, more[i])
    <3> HIDE DEF more
    <3>1. w \notin Range(rows) /\ w # v
      BY <1>1, <2>2, <2>3, <2>4 DEF Range
    <3>2. CASE i = n + 1
      BY <2>1, <2>2, <2>3, <3>1, <3>2
    <3>3. CASE i \in 1..n
      BY <1>1, <2>2, <2>3, <3>1, <3>3 DEF IsFirst
    <3> QED
      BY <2>4, <3>2, <3>3
  <2> QED
    BY <2>2, <2>3, <2>5, <2>6, <2>7 DEF IsFirst
<1> QED
  BY <1>2, <1>3

\* There is a page of every length, else there is a least length without one.
LEMMA FirstExist ==
  ASSUME NEW S \in SUBSET Visits, NEW n \in Nat
  PROVE  \E rows \in BoundedSeq(S, n) : IsFirst(S, n, rows)
<1> DEFINE Bad == {m \in Nat : ~ \E rows \in BoundedSeq(S, m) : IsFirst(S, m, rows)}
<1>1. ASSUME Bad # {} PROVE FALSE
  <2>1. PICK m \in Bad : \A k \in Bad : m <= k
    <3>1. Bad \in SUBSET Nat
      OBVIOUS
    <3> HIDE DEF Bad
    <3> QED
      BY <1>1, <3>1, Least
  <2>2. m # 0
    <3>1. << >> \in BoundedSeq(S, 0)
      <4>1. << >> \in Seq(S) /\ Len(<< >>) <= 0 /\ 0 \in Nat
        BY EmptySeq
      <4> HIDE DEF Bad
      <4> QED
        BY ONLY <4>1, BoundedSeqMeans
    <3>2. IsFirst(S, 0, << >>)
      BY DEF IsFirst, Ordered
    <3> QED
      BY <3>1, <3>2
  <2>3. m - 1 \in Nat /\ m - 1 \notin Bad
    BY <2>1, <2>2
  <2>4. PICK rows \in BoundedSeq(S, m - 1) : IsFirst(S, m - 1, rows)
    BY <2>3
  <2>5. (m - 1) + 1 = m
    OBVIOUS
  <2> QED
    BY <2>3, <2>4, <2>5, OneMore
<1> QED
  BY <1>1

\* What the query of the calendar takes from the visits it finds.
LEMMA FirstOfMeans ==
  ASSUME NEW S \in SUBSET Visits
  PROVE  /\ FirstOf(S) \in Seq(S) /\ Len(FirstOf(S)) <= Limit
         /\ IsFirst(S, Limit, FirstOf(S))
<1>1. FirstOf(S) \in BoundedSeq(S, Limit) /\ IsFirst(S, Limit, FirstOf(S))
  BY FirstExist, PageAssumption DEF FirstOf, IsFirst, Ordered
<1> QED
  BY <1>1, BoundedSeqMeans, PageAssumption

-----------------------------------------------------------------------------
(* Fetches: what marking, sending and ending them changes.                  *)

\* Fetches in flight as they ought to be.
Good(f) ==
  /\ f \in [DOMAIN f -> Fetch]
  /\ DOMAIN f \subseteq Nat /\ IsFiniteSet(DOMAIN f)
  /\ \A k \in DOMAIN f : FetchOK(f[k], visits)

\* The fetches of the other tabs are the same.
KeepsOthers(t, f, g) ==
  \A k \in Nat : /\ k \in DOMAIN g /\ g[k].tab # t => k \in DOMAIN f /\ g[k] = f[k]
                 /\ k \in DOMAIN f /\ f[k].tab # t => k \in DOMAIN g /\ g[k] = f[k]

\* y is x but for the marks that it got.
Marked(x, y) ==
  /\ y \in Fetch
  /\ y.tab = x.tab /\ y.view = x.view /\ y.step = x.step
  /\ y.cursor = x.cursor /\ y.items = x.items /\ y.seen = x.seen
  /\ y.since = x.since /\ y.token = x.token /\ y.phase = x.phase
  /\ y.answer = x.answer /\ y.rows = x.rows /\ y.next = x.next

LEMMA MarksOK ==
  ASSUME NEW x, NEW y, Marked(x, y), NEW held, FetchOK(x, held)
  PROVE  FetchOK(y, held)
BY DEF Marked, FetchOK, SoFarOK, GoesOn, Fits, Follows

\* A mark leaves the rest of a fetch alone.
LEMMA MarkOK ==
  ASSUME NEW x \in Fetch
  PROVE  /\ Marked(x, x) /\ x.fresh \in BOOLEAN /\ x.attached \in BOOLEAN
         /\ LET y == [x EXCEPT !.fresh = FALSE] IN
              Marked(x, y) /\ y.attached = x.attached /\ y.fresh = FALSE
         /\ LET y == [x EXCEPT !.attached = FALSE] IN
              Marked(x, y) /\ y.fresh = x.fresh /\ y.attached = FALSE
<1>1. [x EXCEPT !.fresh = FALSE] \in Fetch
  BY Zenon DEF Fetch
<1>2. [x EXCEPT !.attached = FALSE] \in Fetch
  BY Zenon DEF Fetch
<1>3. LET y == [x EXCEPT !.fresh = FALSE] IN
        Marked(x, y) /\ y.attached = x.attached /\ y.fresh = FALSE
  BY <1>1 DEF Marked, Fetch
<1>4. LET y == [x EXCEPT !.attached = FALSE] IN
        Marked(x, y) /\ y.fresh = x.fresh /\ y.attached = FALSE
  BY <1>2 DEF Marked, Fetch
<1>5. x.fresh \in BOOLEAN /\ x.attached \in BOOLEAN
  BY DEF Fetch
<1> QED
  BY <1>3, <1>4, <1>5 DEF Marked

LEMMA StaleMeans ==
  ASSUME NEW f, Good(f), NEW t, NEW names
  PROVE  LET g == Stale(f, t, names) IN
         /\ Good(g) /\ KeepsOthers(t, f, g) /\ DOMAIN g = DOMAIN f
         /\ \A k \in DOMAIN f :
              /\ Marked(f[k], g[k]) /\ g[k].attached = f[k].attached
              /\ g[k].fresh <=> /\ f[k].fresh
                                /\ ~(f[k].tab = t /\ f[k].view.name \in names)
<1> DEFINE g == Stale(f, t, names)
<1>1. DOMAIN g = DOMAIN f
  BY DEF Stale
<1>2. ASSUME NEW k \in DOMAIN f
      PROVE  /\ Marked(f[k], g[k]) /\ g[k].attached = f[k].attached
             /\ g[k].fresh <=> /\ f[k].fresh
                               /\ ~(f[k].tab = t /\ f[k].view.name \in names)
  <2>1. f[k] \in Fetch
    BY DEF Good
  <2>2. g[k] = IF f[k].tab = t /\ f[k].view.name \in names
               THEN [f[k] EXCEPT !.fresh = FALSE] ELSE f[k]
    BY DEF Stale
  <2> HIDE DEF g
  <2> QED
    BY <2>1, <2>2, MarkOK
<1>3. KeepsOthers(t, f, g)
  BY <1>1, <1>2 DEF KeepsOthers, Stale
<1>4. g \in [DOMAIN g -> Fetch]
  <2>1. \A k \in DOMAIN f : g[k] \in Fetch
    BY <1>2 DEF Marked
  <2> QED
    BY <1>1, <2>1 DEF Stale
<1>5. \A k \in DOMAIN g : FetchOK(g[k], visits)
  BY <1>1, <1>2, MarksOK DEF Good
<1> HIDE DEF g
<1>6. Good(g)
  BY <1>1, <1>4, <1>5 DEF Good
<1> QED
  BY <1>1, <1>2, <1>3, <1>6 DEF g

LEMMA DetachedMeans ==
  ASSUME NEW f, Good(f), NEW t
  PROVE  LET g == Detached(f, t) IN
         /\ Good(g) /\ KeepsOthers(t, f, g) /\ DOMAIN g = DOMAIN f
         /\ \A k \in DOMAIN f :
              /\ Marked(f[k], g[k]) /\ g[k].fresh = f[k].fresh
              /\ g[k].attached <=> f[k].attached /\ f[k].tab # t
<1> DEFINE g == Detached(f, t)
<1>1. DOMAIN g = DOMAIN f
  BY DEF Detached
<1>2. ASSUME NEW k \in DOMAIN f
      PROVE  /\ Marked(f[k], g[k]) /\ g[k].fresh = f[k].fresh
             /\ g[k].attached <=> f[k].attached /\ f[k].tab # t
  <2>1. f[k] \in Fetch
    BY DEF Good
  <2>2. g[k] = IF f[k].tab = t THEN [f[k] EXCEPT !.attached = FALSE] ELSE f[k]
    BY DEF Detached
  <2> HIDE DEF g
  <2> QED
    BY <2>1, <2>2, MarkOK
<1>3. KeepsOthers(t, f, g)
  BY <1>1, <1>2 DEF KeepsOthers, Detached
<1>4. g \in [DOMAIN g -> Fetch]
  <2>1. \A k \in DOMAIN f : g[k] \in Fetch
    BY <1>2 DEF Marked
  <2> QED
    BY <1>1, <2>1 DEF Detached
<1>5. \A k \in DOMAIN g : FetchOK(g[k], visits)
  BY <1>1, <1>2, MarksOK DEF Good
<1> HIDE DEF g
<1>6. Good(g)
  BY <1>1, <1>4, <1>5 DEF Good
<1> QED
  BY <1>1, <1>2, <1>3, <1>6 DEF g

LEMMA SentMeans ==
  ASSUME NEW f, Good(f), NEW x \in Fetch, FetchOK(x, visits)
  PROVE  LET g == Sent(f, x) IN
         /\ Good(g) /\ KeepsOthers(x.tab, f, g)
         /\ Number(f) \in Nat /\ Number(f) \notin DOMAIN f
         /\ DOMAIN g = DOMAIN f \cup {Number(f)} /\ g[Number(f)] = x
         /\ \A k \in DOMAIN f : g[k] = f[k]
<1> DEFINE g == Sent(f, x)
           n == Number(f)
<1>1. n \in Nat /\ n \notin DOMAIN f
  BY NumberIsFree DEF Good
<1> HIDE DEF n
<1>2. DOMAIN g = DOMAIN f \cup {n} /\ g[n] = x /\ \A k \in DOMAIN f : g[k] = f[k]
  BY <1>1 DEF Sent, n
<1>3. g \in [DOMAIN g -> Fetch]
  <2>1. \A k \in DOMAIN f \cup {n} : g[k] \in Fetch
    BY <1>2 DEF Good
  <2> QED
    BY <1>2, <2>1 DEF Sent, n
<1> HIDE DEF g
<1>4. IsFiniteSet(DOMAIN g) /\ DOMAIN g \subseteq Nat
  BY <1>1, <1>2, FS_AddElement DEF Good
<1>5. Good(g)
  BY <1>2, <1>3, <1>4 DEF Good
<1>6. KeepsOthers(x.tab, f, g)
  BY <1>1, <1>2 DEF KeepsOthers
<1> QED
  BY <1>1, <1>2, <1>5, <1>6 DEF g, n

LEMMA RestrictMeans ==
  ASSUME NEW f, Good(f), NEW S \in SUBSET DOMAIN f
  PROVE  /\ Good(Restrict(f, S)) /\ DOMAIN Restrict(f, S) = S
         /\ \A k \in S : Restrict(f, S)[k] = f[k]
<1> DEFINE g == Restrict(f, S)
<1>1. DOMAIN g = S /\ \A k \in S : g[k] = f[k]
  BY DEF Restrict
<1>2. g \in [S -> Fetch]
  BY DEF Good, Restrict
<1>3. IsFiniteSet(S) /\ S \subseteq Nat
  BY FS_Subset DEF Good
<1> HIDE DEF g
<1>4. Good(g)
  BY <1>1, <1>2, <1>3 DEF Good
<1> QED
  BY <1>1, <1>4 DEF g

LEMMA WithoutMeans ==
  ASSUME NEW f, Good(f), NEW k \in DOMAIN f
  PROVE  LET g == Without(f, k) IN
         /\ Good(g) /\ KeepsOthers(f[k].tab, f, g)
         /\ DOMAIN g = DOMAIN f \ {k}
         /\ \A j \in DOMAIN f \ {k} : g[j] = f[j]
<1>1. DOMAIN f \ {k} \in SUBSET DOMAIN f
  OBVIOUS
<1> QED
  BY <1>1, RestrictMeans DEF Without, KeepsOthers

-----------------------------------------------------------------------------
(* Views: what each of them gives is a page and fetches as they ought to    *)
(* be.                                                                      *)

\* No answer is on its way for the present version of the views of t.
NoneVersioned(t, f) == \A k \in DOMAIN f : f[k].tab = t => ~Versioned(f[k])

\* What the view operators give: a page and fetches as they ought to be.
ViewOK(t, f, r) ==
  /\ r.p \in Page /\ Good(r.f) /\ KeepsOthers(t, f, r.f)
  /\ TabOK(t, "SHELL", r.p, r.f)

LEMMA NoneMeans ==
  /\ None \notin {"OK", "AUTH_REQUIRED", "REFUSED", "LOST"} /\ None \notin Cursor
BY SessionsAssumption, PageAssumption DEF Answers, Cursor

LEMMA KeepsBoth ==
  ASSUME NEW t, NEW f, NEW g, NEW h, KeepsOthers(t, f, g), KeepsOthers(t, g, h)
  PROVE  KeepsOthers(t, f, h)
BY DEF KeepsOthers

LEMMA BlankOK ==
  ASSUME NEW view \in View
  PROVE  /\ Blank(view) \in Shown
         /\ Blank(view).view = view /\ Blank(view).cursor = None
         /\ Blank(view).status = "LOADING" /\ Blank(view).controls = FALSE
BY EmptySeq DEF Blank, Shown

\* What loads with a cursor or with buttons.
Kept(view, cursor, controls) ==
  [Blank(view) EXCEPT !.cursor = cursor, !.controls = controls]

LEMMA KeptOK ==
  ASSUME NEW view \in View, NEW cursor \in Cursor \cup {None},
         NEW controls \in BOOLEAN
  PROVE  LET s == Kept(view, cursor, controls) IN
         /\ s \in Shown /\ s.view = view
         /\ s.cursor = cursor /\ s.status = "LOADING"
BY EmptySeq DEF Kept, Blank, Shown

LEMMA ShowsOK ==
  ASSUME NEW p \in Page, NEW s \in Shown
  PROVE  LET q == Shows(p, s) IN
         /\ q \in Page
         /\ q.hash = p.hash /\ q.event = p.event /\ q.filter = p.filter
         /\ q.cursor = p.cursor /\ q.next = p.next /\ q.month = p.month
         /\ q.zone = p.zone /\ q.asked = s.view /\ q.shown = s
<1>1. s.view \in View
  BY DEF Shown
<1>2. Shows(p, s) \in Page
  BY <1>1, Zenon DEF Shows, Page
<1> QED
  BY <1>2 DEF Shows, Page

LEMMA PageFields ==
  ASSUME NEW p \in Page
  PROVE  /\ p.hash \in {"INQUIRIES", "CALENDAR"} /\ p.event \in BOOLEAN
         /\ p.filter \in Filters /\ p.filter \in Nat
         /\ p.cursor \in Cursor \cup {None} /\ p.next \in Cursor \cup {None}
         /\ p.month \in Months \cup {0} /\ p.month \in Nat
         /\ p.zone \in BOOLEAN /\ p.asked \in View /\ p.shown \in Shown
         /\ p.shown.view \in View /\ p.shown.controls \in BOOLEAN
         /\ p.shown.view.name \in {"LIST", "INQUIRY", "CALENDAR", "VISIT"}
         /\ p.shown.view.of \in Nat
BY PageAssumption DEF Page, Shown, View

LEMMA ViewsOK ==
  /\ \A n \in Nat :
       /\ ListOf(n) \in View /\ ListOf(n).name = "LIST" /\ ListOf(n).of = n
       /\ InquiryOf(n) \in View /\ InquiryOf(n).name = "INQUIRY"
       /\ CalendarOf(n) \in View /\ CalendarOf(n).name = "CALENDAR"
       /\ CalendarOf(n).of = n
       /\ VisitOf(n) \in View /\ VisitOf(n).name = "VISIT"
BY DEF View, ListOf, InquiryOf, CalendarOf, VisitOf

LEMMA AsksOK ==
  ASSUME PageTypes, NEW t \in Viewers, NEW jar \in Nat, NEW view \in View,
         NEW step \in {"ZONE", "READ"}, NEW cursor \in Cursor \cup {None},
         view.name = "CALENDAR" => cursor = None
  PROVE  LET x == Asks(t, jar, view, step, cursor) IN
         /\ x \in Fetch /\ FetchOK(x, visits)
         /\ x.tab = t /\ x.view = view /\ x.cursor = cursor
         /\ x.fresh /\ x.attached
<1> DEFINE x == Asks(t, jar, view, step, cursor)
<1>1. /\ x.tab = t /\ x.view = view /\ x.cursor = cursor
      /\ x.fresh = TRUE /\ x.attached = TRUE
      /\ x.phase = "SENT" /\ x.answer = None /\ x.items = << >>
      /\ x.since = IF view.name = "CALENDAR" /\ step = "READ" THEN visits ELSE {}
      /\ x.step = step
  BY DEF Asks
<1>2. x \in Fetch
  <2>1. x.since \subseteq Visits /\ << >> \in Seq(Visits) /\ {} \subseteq Cursor
    BY <1>1, EmptySeq DEF PageTypes
  <2> DEFINE since == IF view.name = "CALENDAR" /\ step = "READ"
                      THEN visits ELSE {}
  <2>2. since \in SUBSET Visits
    BY DEF PageTypes
  <2> HIDE DEF since
  <2>3. [tab |-> t, view |-> view, step |-> step, cursor |-> cursor,
         fresh |-> TRUE, attached |-> TRUE, items |-> << >>, seen |-> {},
         since |-> since, token |-> jar, phase |-> "SENT", answer |-> None,
         rows |-> << >>, next |-> None] \in Fetch
    BY <2>1, <2>2 DEF Fetch
  <2> QED
    BY <2>3 DEF Asks, since
<1> HIDE DEF x
<1>3. FetchOK(x, visits)
  BY <1>1, NoneMeans DEF FetchOK, SoFarOK, Ordered, InMonth, Follows
<1> QED
  BY <1>1, <1>2, <1>3 DEF x

\* The view that has just been asked for, with its fetch sent.
LEMMA OpenedOK ==
  ASSUME NEW t \in Viewers, NEW f, Good(f), NoneVersioned(t, f),
         NEW p \in Page, NEW x \in Fetch, FetchOK(x, visits),
         x.tab = t, x.fresh, x.attached,
         x.view = p.shown.view, p.shown.view = p.asked,
         p.shown.status = "LOADING",
         p.asked.name \in {"CALENDAR", "VISIT"} => p.event \/ p.hash = "CALENDAR",
         p.asked.name = "CALENDAR" => p.asked.of = p.month,
         p.asked.name = "LIST" =>
           /\ p.asked.of = p.filter
           /\ p.shown.cursor = p.cursor /\ x.cursor = p.cursor
           /\ \A k \in DOMAIN f :
                f[k].tab = t /\ f[k].fresh => f[k].view.name # "LIST"
  PROVE  ViewOK(t, f, [p |-> p, f |-> Sent(f, x)])
<1> DEFINE g == Sent(f, x)
           n == Number(f)
<1>1. /\ Good(g) /\ KeepsOthers(t, f, g) /\ n \in Nat /\ n \notin DOMAIN f
      /\ DOMAIN g = DOMAIN f \cup {n} /\ g[n] = x
      /\ \A k \in DOMAIN f : g[k] = f[k]
  BY SentMeans
<1> HIDE DEF g, n
<1>2. ShownOK("SHELL", p) /\ HashOK("SHELL", p) /\ DrawnOK(p)
  BY DEF ShownOK, HashOK, DrawnOK
<1>3. VersionOK(t, "SHELL", p, g)
  BY <1>1 DEF VersionOK, NoneVersioned, Versioned
<1>4. ListOK(t, "SHELL", p, g)
  BY <1>1 DEF ListOK
<1>5. AwaitOK(t, "SHELL", p, g)
  BY <1>1 DEF AwaitOK, Replaces
<1> QED
  BY <1>1, <1>2, <1>3, <1>4, <1>5 DEF ViewOK, TabOK, g

LEMMA NextVersionMeans ==
  ASSUME NEW f, Good(f), NEW t
  PROVE  /\ Good(NextVersion(f, t)) /\ KeepsOthers(t, f, NextVersion(f, t))
         /\ NoneVersioned(t, NextVersion(f, t))
<1> DEFINE g == NextVersion(f, t)
<1>1. /\ Good(g) /\ KeepsOthers(t, f, g) /\ DOMAIN g = DOMAIN f
      /\ \A k \in DOMAIN f :
           /\ Marked(f[k], g[k])
           /\ g[k].fresh <=> /\ f[k].fresh
                             /\ ~(f[k].tab = t
                                  /\ f[k].view.name \in {"CALENDAR", "VISIT"})
  BY StaleMeans DEF NextVersion
<1> HIDE DEF g
<1>2. NoneVersioned(t, g)
  BY <1>1 DEF NoneVersioned, Versioned, Marked
<1> QED
  BY <1>1, <1>2 DEF g

LEMMA LoadInquiriesOK ==
  ASSUME PageTypes, NEW t \in Viewers, NEW jar \in Nat,
         NEW f, Good(f), NoneVersioned(t, f), NEW p \in Page
  PROVE  ViewOK(t, f, LoadInquiries(t, jar, p, f))
<1> DEFINE view == ListOf(p.filter)
           button == p.shown.view.name = "LIST" /\ p.shown.controls
           s == Kept(view, p.cursor, button)
           q == Shows(p, s)
           g == Stale(f, t, {"LIST"})
           x == Asks(t, jar, view, "READ", p.cursor)
<1>1. /\ view \in View /\ view.name = "LIST" /\ view.of = p.filter
      /\ p.cursor \in Cursor \cup {None} /\ button \in BOOLEAN
  BY PageFields, ViewsOK
<1>2. /\ Good(g) /\ KeepsOthers(t, f, g) /\ DOMAIN g = DOMAIN f
      /\ \A k \in DOMAIN f :
           /\ Marked(f[k], g[k])
           /\ g[k].fresh <=> /\ f[k].fresh
                             /\ ~(f[k].tab = t /\ f[k].view.name \in {"LIST"})
  BY StaleMeans
<1> HIDE DEF view, button, g
<1>3. /\ s \in Shown /\ s.view = view /\ s.cursor = p.cursor
      /\ s.status = "LOADING"
  BY <1>1, KeptOK
<1>4. /\ x \in Fetch /\ FetchOK(x, visits) /\ x.tab = t /\ x.view = view
      /\ x.cursor = p.cursor /\ x.fresh /\ x.attached
  BY <1>1, AsksOK
<1> HIDE DEF s, x
<1>5. /\ q \in Page /\ q.asked = view /\ q.shown = s
      /\ q.filter = p.filter /\ q.cursor = p.cursor
  BY <1>3, ShowsOK
<1> HIDE DEF q
<1>6. NoneVersioned(t, g)
        /\ \A k \in DOMAIN g :
             g[k].tab = t /\ g[k].fresh => g[k].view.name # "LIST"
  BY <1>2 DEF NoneVersioned, Versioned, Marked
<1>7. ViewOK(t, g, [p |-> q, f |-> Sent(g, x)])
  BY <1>1, <1>2, <1>3, <1>4, <1>5, <1>6, OpenedOK
<1>8. ViewOK(t, f, [p |-> q, f |-> Sent(g, x)])
  BY <1>2, <1>7, KeepsBoth DEF ViewOK
<1> QED
  BY <1>8 DEF LoadInquiries, Kept, view, button, s, q, g, x

\* Opening a view after the version of the views moved on.
LEMMA NextViewOK ==
  ASSUME NEW t, NEW f, Good(f), NEW r, ViewOK(t, NextVersion(f, t), r)
  PROVE  ViewOK(t, f, r)
BY NextVersionMeans, KeepsBoth DEF ViewOK

LEMMA ShowInquiryListOK ==
  ASSUME PageTypes, NEW t \in Viewers, NEW jar \in Nat,
         NEW f, Good(f), NEW p \in Page
  PROVE  ViewOK(t, f, ShowInquiryList(t, jar, p, f))
<1> DEFINE q == Shows(p, Blank(ListOf(p.filter)))
<1>1. q \in Page
  BY PageFields, ViewsOK, BlankOK, ShowsOK
<1> HIDE DEF q
<1>2. ViewOK(t, NextVersion(f, t), LoadInquiries(t, jar, q, NextVersion(f, t)))
  BY <1>1, NextVersionMeans, LoadInquiriesOK
<1> QED
  BY <1>2, NextViewOK DEF ShowInquiryList, q

\* A detail is opened; a visit, only under the hash of the calendar.
LEMMA DetailOK ==
  ASSUME PageTypes, NEW t \in Viewers, NEW jar \in Nat,
         NEW f, Good(f), NEW p \in Page, NEW view \in View,
         view.name \in {"INQUIRY", "VISIT"},
         view.name = "VISIT" => p.event \/ p.hash = "CALENDAR"
  PROVE  ViewOK(t, f, [p |-> Shows(p, Blank(view)),
                       f |-> Sent(NextVersion(f, t),
                                  Asks(t, jar, view, "READ", None))])
<1> DEFINE q == Shows(p, Blank(view))
           x == Asks(t, jar, view, "READ", None)
           g == NextVersion(f, t)
<1>1. /\ q \in Page /\ q.asked = view /\ q.shown.view = view
      /\ q.shown.status = "LOADING" /\ q.event = p.event /\ q.hash = p.hash
  <2>1. /\ Blank(view) \in Shown /\ Blank(view).view = view
        /\ Blank(view).status = "LOADING"
    BY BlankOK
  <2> QED
    BY <2>1, ShowsOK
<1>2. /\ x \in Fetch /\ FetchOK(x, visits) /\ x.tab = t /\ x.view = view
      /\ x.fresh /\ x.attached
  BY AsksOK
<1>3. Good(g) /\ NoneVersioned(t, g)
  BY NextVersionMeans
<1> HIDE DEF q, x, g
<1>4. ViewOK(t, g, [p |-> q, f |-> Sent(g, x)])
  BY <1>1, <1>2, <1>3, OpenedOK
<1> QED
  BY <1>4, NextViewOK DEF q, x, g

LEMMA OpenMonthOK ==
  ASSUME PageTypes, NEW t \in Viewers, NEW jar \in Nat,
         NEW f, Good(f), NoneVersioned(t, f), NEW p \in Page,
         p.hash = "CALENDAR"
  PROVE  ViewOK(t, f, OpenMonth(t, jar, p, f))
<1> DEFINE m == IF p.month = 0 THEN ThisMonth ELSE p.month
           view == CalendarOf(m)
           s == [Blank(view) EXCEPT !.controls = TRUE]
           q == [Shows(p, s) EXCEPT !.month = m]
           x == Asks(t, jar, view, "READ", None)
<1>1. m \in Months /\ m \in Nat
  BY PageFields, PageAssumption
<1> HIDE DEF m
<1>2. view \in View /\ view.name = "CALENDAR" /\ view.of = m
  BY <1>1, ViewsOK
<1> HIDE DEF view
<1>3. s \in Shown /\ s.view = view /\ s.status = "LOADING"
  BY <1>2, EmptySeq DEF Blank, Shown
<1>4. /\ x \in Fetch /\ FetchOK(x, visits) /\ x.tab = t /\ x.view = view
      /\ x.fresh /\ x.attached
  BY <1>2, AsksOK
<1> HIDE DEF s, x
<1>5. /\ Shows(p, s) \in Page /\ Shows(p, s).asked = view
      /\ Shows(p, s).shown = s /\ Shows(p, s).hash = "CALENDAR"
  BY <1>3, ShowsOK
<1>6. /\ q \in Page /\ q.asked = view /\ q.shown = s /\ q.month = m
      /\ q.hash = "CALENDAR"
  BY <1>1, <1>5 DEF Page
<1> HIDE DEF q
<1>7. ViewOK(t, f, [p |-> q, f |-> Sent(f, x)])
  BY <1>2, <1>3, <1>4, <1>6, OpenedOK
<1> QED
  BY <1>7 DEF OpenMonth, m, view, s, q, x

LEMMA ShowCalendarOK ==
  ASSUME PageTypes, NEW t \in Viewers, NEW jar \in Nat,
         NEW f, Good(f), NEW p \in Page, p.event \/ p.hash = "CALENDAR"
  PROVE  ViewOK(t, f, ShowCalendar(t, jar, p, f))
<1> DEFINE view == CalendarOf(p.month)
           q == Shows(p, Blank(view))
           x == Asks(t, jar, view, "ZONE", None)
           g == NextVersion(f, t)
<1>1. p.month \in Nat /\ view \in View /\ view.name = "CALENDAR"
      /\ view.of = p.month
  BY PageFields, ViewsOK
<1> HIDE DEF view
<1>2. /\ q \in Page /\ q.asked = view /\ q.shown.view = view
      /\ q.shown.status = "LOADING" /\ q.event = p.event /\ q.hash = p.hash
      /\ q.month = p.month
  <2>1. /\ Blank(view) \in Shown /\ Blank(view).view = view
        /\ Blank(view).status = "LOADING"
    BY <1>1, BlankOK
  <2> QED
    BY <2>1, ShowsOK
<1>3. /\ x \in Fetch /\ FetchOK(x, visits) /\ x.tab = t /\ x.view = view
      /\ x.fresh /\ x.attached
  BY <1>1, AsksOK
<1>4. Good(g) /\ NoneVersioned(t, g) /\ KeepsOthers(t, f, g)
  BY NextVersionMeans
<1> HIDE DEF q, x, g
<1>5. CASE ~p.zone
  <2>1. ViewOK(t, g, [p |-> q, f |-> Sent(g, x)])
    BY <1>1, <1>2, <1>3, <1>4, OpenedOK
  <2>2. ShowCalendar(t, jar, p, f) = [p |-> q, f |-> Sent(g, x)]
    BY <1>2, <1>5 DEF ShowCalendar, view, q, x, g
  <2> QED
    BY <1>4, <2>1, <2>2, KeepsBoth DEF ViewOK
<1>6. CASE p.zone /\ p.hash = "CALENDAR"
  <2>1. ViewOK(t, g, OpenMonth(t, jar, q, g))
    BY <1>2, <1>4, <1>6, OpenMonthOK
  <2>2. ShowCalendar(t, jar, p, f) = OpenMonth(t, jar, q, g)
    BY <1>6 DEF ShowCalendar, view, q, g
  <2> QED
    BY <1>4, <2>1, <2>2, KeepsBoth DEF ViewOK
<1>7. CASE p.zone /\ p.hash # "CALENDAR"
  <2>1. ShowCalendar(t, jar, p, f) = [p |-> q, f |-> g]
    BY <1>7 DEF ShowCalendar, view, q, g
  <2>2. q.event
    BY <1>2, <1>7
  <2>3. TabOK(t, "SHELL", q, g)
    BY <1>1, <1>2, <1>4, <2>2
    DEF TabOK, ShownOK, HashOK, VersionOK, ListOK, AwaitOK, DrawnOK,
        NoneVersioned
  <2> QED
    BY <1>2, <1>4, <2>1, <2>3 DEF ViewOK
<1> QED
  BY <1>5, <1>6, <1>7

LEMMA RouteOK ==
  ASSUME PageTypes, NEW t \in Viewers, NEW jar \in Nat,
         NEW f, Good(f), NEW p \in Page
  PROVE  ViewOK(t, f, Route(t, jar, p, f))
BY ShowCalendarOK, ShowInquiryListOK DEF Route

LEMMA ShellViewOK ==
  ASSUME PageTypes, NEW t \in Viewers, NEW jar \in Nat,
         NEW f, Good(f), NEW p \in Page
  PROVE  ViewOK(t, f, ShellView(t, jar, p, f))
<1>1. Good(Detached(f, t)) /\ KeepsOthers(t, f, Detached(f, t))
  BY DetachedMeans
<1>2. ViewOK(t, Detached(f, t), ShellView(t, jar, p, f))
  BY <1>1, RouteOK DEF ShellView
<1> QED
  BY <1>1, <1>2, KeepsBoth DEF ViewOK

\* Without a shell nothing is shown that could be wrong.
LEMMA LoginViewOK ==
  ASSUME NEW t \in Viewers, NEW f, Good(f), NEW p \in Page
  PROVE  LET r == LoginView(t, p, f) IN
         /\ r.p \in Page /\ Good(r.f) /\ KeepsOthers(t, f, r.f)
         /\ \A c \in Screens \ {"SHELL"} : TabOK(t, c, r.p, r.f)
<1> DEFINE q == Shows(p, Blank(ListOf(0)))
           d == Detached(f, t)
           g == NextVersion(d, t)
<1>1. q \in Page /\ q.shown.status = "LOADING"
  <2>1. Blank(ListOf(0)) \in Shown /\ Blank(ListOf(0)).status = "LOADING"
    BY ViewsOK, BlankOK
  <2> QED
    BY <2>1, ShowsOK
<1>2. Good(d) /\ KeepsOthers(t, f, d)
  BY DetachedMeans
<1> HIDE DEF q, d
<1>3. Good(g) /\ KeepsOthers(t, d, g) /\ NoneVersioned(t, g)
  BY <1>2, NextVersionMeans
<1> HIDE DEF g
<1>4. \A c \in Screens \ {"SHELL"} : TabOK(t, c, q, g)
  BY <1>1, <1>3
  DEF TabOK, ShownOK, HashOK, VersionOK, ListOK, AwaitOK, DrawnOK,
      NoneVersioned
<1>5. KeepsOthers(t, f, g)
  BY <1>2, <1>3, KeepsBoth
<1> QED
  BY <1>1, <1>3, <1>4, <1>5 DEF LoginView, q, d, g

-----------------------------------------------------------------------------
(* The server: what it finds for a fetch, and what it makes of it.          *)

Phases == {"SENT", "CHECKED", "ANSWERED"}
Replies == {"OK", "AUTH_REQUIRED", "REFUSED", "LOST"} \cup {None}

\* An answer to the fetch x.
Answering(x, phase, answer, rows, next) ==
  [x EXCEPT !.phase = phase, !.answer = answer, !.rows = rows, !.next = next]

LEMMA AnsweringOK ==
  ASSUME NEW x \in Fetch, NEW phase \in Phases, NEW answer \in Replies,
         NEW rows \in Seq(Visits), NEW next \in Cursor \cup {None}
  PROVE  LET y == Answering(x, phase, answer, rows, next) IN
         /\ y \in Fetch
         /\ y.tab = x.tab /\ y.view = x.view /\ y.step = x.step
         /\ y.cursor = x.cursor /\ y.fresh = x.fresh /\ y.attached = x.attached
         /\ y.items = x.items /\ y.seen = x.seen /\ y.since = x.since
         /\ y.phase = phase /\ y.answer = answer /\ y.rows = rows /\ y.next = next
<1>1. Answering(x, phase, answer, rows, next) \in Fetch
  BY Zenon DEF Answering, Fetch, Phases, Replies
<1> QED
  BY <1>1 DEF Answering, Fetch

LEMMA FetchFields ==
  ASSUME NEW x \in Fetch
  PROVE  /\ x.tab \in Viewers /\ x.view \in View /\ x.view.of \in Nat
         /\ x.view.name \in {"LIST", "INQUIRY", "CALENDAR", "VISIT"}
         /\ x.step \in {"ZONE", "READ"} /\ x.cursor \in Cursor \cup {None}
         /\ x.fresh \in BOOLEAN /\ x.attached \in BOOLEAN
         /\ x.items \in Seq(Visits) /\ x.seen \subseteq Cursor
         /\ x.since \subseteq Visits /\ x.token \in Nat
         /\ x.phase \in Phases /\ x.answer \in Replies
         /\ x.rows \in Seq(Visits) /\ x.next \in Cursor \cup {None}
BY DEF Fetch, View, Phases, Replies

\* The query of the calendar answers the next page of the month, in order,
\* and leaves nothing out before the cursor that it gives.
LEMMA VisitRowsOK ==
  ASSUME PageTypes, NEW x \in Fetch, x.view.name = "CALENDAR",
         SoFarOK(x, visits)
  PROVE  LET found == VisitRows(x.view.of, x.cursor) IN
         /\ found.answer \in {"OK", "REFUSED"}
         /\ found.rows \in Seq(Visits) /\ found.next \in Cursor \cup {None}
         /\ \A y : /\ y.view = x.view /\ y.cursor = x.cursor
                   /\ y.since = x.since /\ y.rows = found.rows
                   /\ y.next = found.next /\ found.answer = "OK"
                   => GoesOn(y)
<1> DEFINE m == x.view.of
           S == {v \in visits : m \in MonthsOf[v] /\ Follows(v, x.cursor)}
           rows == FirstOf(S)
           last == rows[Limit]
           next == IF S = Range(rows) THEN None ELSE [of |-> m, after |-> last]
<1>1. S \in SUBSET Visits
  BY DEF PageTypes
<1>2. \A v \in S : m \in MonthsOf[v] /\ Follows(v, x.cursor)
  OBVIOUS
<1>3. \A v \in x.since : m \in MonthsOf[v] /\ Follows(v, x.cursor) => v \in S
  BY DEF SoFarOK
<1>4. m \in Nat
  BY FetchFields
<1>5. VisitRows(m, x.cursor) =
        IF ~Fits(x.cursor, m) THEN Refusal
        ELSE [answer |-> "OK", rows |-> rows, next |-> next]
  BY DEF VisitRows
<1> HIDE DEF S, m
<1>6. rows \in Seq(S) /\ Len(rows) <= Limit /\ IsFirst(S, Limit, rows)
  BY <1>1, FirstOfMeans
<1> HIDE DEF rows
<1>7. /\ Len(rows) \in Nat /\ DOMAIN rows = 1..Len(rows)
      /\ \A i \in DOMAIN rows : rows[i] \in S
      /\ Range(rows) \subseteq S /\ rows \in Seq(Visits)
  BY <1>1, <1>6, LenProperties, ElementOfSeq, RangeOfSeq, SeqMonotonic
<1>8. ASSUME S # Range(rows)
      PROVE  /\ Limit \in DOMAIN rows /\ last \in S /\ last \in Visits
             /\ \A v \in S \ Range(rows) : Later(v, last)
             /\ next.after = last /\ next \in Cursor
  <2>1. PICK v \in S : v \notin Range(rows)
    BY <1>7, <1>8
  <2>2. Len(rows) = Limit /\ \A w \in S \ Range(rows) :
                               \A i \in DOMAIN rows : Later(w, rows[i])
    BY <1>6, <2>1 DEF IsFirst
  <2>3. Limit \in DOMAIN rows
    BY <1>7, <2>2, PageAssumption
  <2>4. last \in S /\ last \in Visits /\ last \in Nat
    BY <1>1, <1>7, <2>3, PageAssumption
  <2> HIDE DEF last
  <2>5. next.after = last /\ next \in Cursor
    BY <1>4, <1>8, <2>4 DEF Cursor
  <2> QED
    BY <2>2, <2>3, <2>4, <2>5 DEF last
<1>9. next \in Cursor \cup {None} /\ (next # None => S # Range(rows))
      /\ (S # Range(rows) => next # None)
  BY <1>8, NoneMeans
<1>10. ASSUME NEW y, y.view = x.view, y.cursor = x.cursor, y.since = x.since,
              y.rows = rows, y.next = next
       PROVE  GoesOn(y)
  <2>1. Ordered(rows) /\ InMonth(rows, m)
    BY <1>2, <1>6, <1>7 DEF IsFirst, InMonth
  <2>2. \A i \in DOMAIN rows : Follows(rows[i], x.cursor)
    BY <1>2, <1>7
  <2>3. ASSUME NEW v \in x.since, m \in MonthsOf[v], Follows(v, x.cursor)
        PROVE  v \in Range(rows) \/ (next # None /\ Follows(v, next))
    <3>1. v \in S
      BY <1>3, <2>3
    <3> HIDE DEF next, last
    <3> QED
      BY <1>8, <1>9, <3>1 DEF Follows
  <2>4. ASSUME next # None
        PROVE  /\ next.after \in Visits
               /\ \A v \in Visits : Follows(v, next) =>
                    /\ Follows(v, x.cursor)
                    /\ \A i \in DOMAIN rows : Later(v, rows[i])
    <3>1. /\ Limit \in DOMAIN rows /\ last \in S /\ last \in Visits
          /\ next.after = last
      BY <1>8, <1>9, <2>4
    <3>2. last = rows[Limit]
      OBVIOUS
    <3> HIDE DEF next, last
    <3> SUFFICES ASSUME NEW v \in Visits, Follows(v, next)
                 PROVE  /\ Follows(v, x.cursor)
                        /\ \A i \in DOMAIN rows : Later(v, rows[i])
      BY <3>1
    <3>3. Later(v, last)
      BY <2>4, <3>1 DEF Follows
    <3>4. Follows(v, x.cursor)
      <4>1. Follows(last, x.cursor)
        BY <1>2, <3>1
      <4> QED
        BY <3>1, <3>3, <4>1, LaterIsOrder DEF Follows, SoFarOK
    <3>5. ASSUME NEW i \in DOMAIN rows PROVE Later(v, rows[i])
      <4>1. rows[i] \in Visits /\ i \in Nat /\ i <= Limit
        BY <1>1, <1>6, <1>7, PageAssumption
      <4>2. CASE i = Limit
        BY <3>2, <3>3, <4>2
      <4>3. CASE i < Limit
        <5>1. Later(last, rows[i])
          BY <2>1, <3>1, <3>2, <4>3 DEF Ordered
        <5> QED
          BY <3>1, <3>3, <4>1, <5>1, LaterIsOrder
      <4> QED
        BY <4>1, <4>2, <4>3, PageAssumption
    <3> QED
      BY <3>4, <3>5
  <2> HIDE DEF next, last
  <2> QED
    BY <1>10, <2>1, <2>2, <2>3, <2>4 DEF GoesOn, m
<1>11. Refusal.answer = "REFUSED" /\ Refusal.rows = << >> /\ Refusal.next = None
  BY DEF Refusal
<1> HIDE DEF next, last
<1>12. << >> \in Seq(Visits)
  BY EmptySeq
<1> DEFINE found == VisitRows(m, x.cursor)
<1>13. CASE Fits(x.cursor, m)
  <2>1. found.answer = "OK" /\ found.rows = rows /\ found.next = next
    BY <1>5, <1>13
  <2> HIDE DEF found
  <2> QED
    BY <1>7, <1>9, <1>10, <2>1 DEF m, found
<1>14. CASE ~Fits(x.cursor, m)
  <2>1. found.answer = "REFUSED" /\ found.rows = << >> /\ found.next = None
    BY <1>5, <1>11, <1>14
  <2> HIDE DEF found
  <2> QED
    BY <1>12, <2>1 DEF m, found
<1> QED
  BY <1>13, <1>14

LEMMA InquiryRowsOK ==
  ASSUME NEW of \in Nat, NEW cursor \in Cursor \cup {None}
  PROVE  LET found == InquiryRows(of, cursor) IN
         /\ found.answer \in {"OK", "REFUSED"}
         /\ found.rows \in Seq(Visits) /\ found.next \in Cursor \cup {None}
         /\ found.answer = "OK" => Fits(cursor, of)
<1> DEFINE page == IF cursor = None THEN 1 ELSE cursor.after + 1
           next == IF page < ListPages THEN [of |-> of, after |-> page] ELSE None
<1>1. page \in Nat
  BY DEF Cursor
<1> HIDE DEF page
<1>2. next \in Cursor \cup {None}
  BY <1>1 DEF Cursor
<1>3. InquiryRows(of, cursor) =
        IF ~Fits(cursor, of) THEN Refusal
        ELSE [answer |-> "OK", rows |-> << >>, next |-> next]
  BY DEF InquiryRows, page
<1> HIDE DEF next
<1>4. << >> \in Seq(Visits)
  BY EmptySeq
<1> QED
  BY <1>2, <1>3, <1>4 DEF Refusal

\* g differs from f only in what the server did.
Alike(f, g) ==
  /\ DOMAIN g = DOMAIN f
  /\ \A k \in DOMAIN f :
       /\ g[k].tab = f[k].tab /\ g[k].view = f[k].view
       /\ g[k].cursor = f[k].cursor
       /\ g[k].fresh = f[k].fresh /\ g[k].attached = f[k].attached

LEMMA AlikeOK ==
  ASSUME NEW f, NEW g, Alike(f, g), NEW t, NEW c, NEW p, TabOK(t, c, p, f)
  PROVE  TabOK(t, c, p, g)
<1>1. VersionOK(t, c, p, g)
  BY DEF Alike, TabOK, VersionOK, Versioned
<1>2. ListOK(t, c, p, g)
  BY DEF Alike, TabOK, ListOK
<1>3. AwaitOK(t, c, p, g)
  BY DEF Alike, TabOK, AwaitOK, Replaces
<1> QED
  BY <1>1, <1>2, <1>3 DEF TabOK

\* A step of the server at one fetch.
LEMMA ServedOK ==
  ASSUME PageInv, SessionInv', NEW k \in DOMAIN fetches,
         NEW phase \in Phases, NEW answer \in Replies,
         NEW rows \in Seq(Visits), NEW next \in Cursor \cup {None},
         FetchOK(Answering(fetches[k], phase, answer, rows, next), visits),
         FetchBecomes(k, Answering(fetches[k], phase, answer, rows, next))
  PROVE  PageInv'
<1> DEFINE x == fetches[k]
           y == Answering(x, phase, answer, rows, next)
<1>1. x \in Fetch
  BY DEF PageInv, PageTypes
<1> HIDE DEF x
<1>2. /\ y \in Fetch /\ y.tab = x.tab /\ y.view = x.view /\ y.cursor = x.cursor
      /\ y.fresh = x.fresh /\ y.attached = x.attached
  BY <1>1, AnsweringOK
<1>3. fetches' = [fetches EXCEPT ![k] = y] /\ UNCHANGED <<pages, visits, screen>>
  BY DEF FetchBecomes, x
<1> HIDE DEF y
<1>4. /\ DOMAIN fetches' = DOMAIN fetches
      /\ \A j \in DOMAIN fetches : fetches'[j] = IF j = k THEN y ELSE fetches[j]
  BY <1>3
<1>5. PageTypes'
  BY <1>2, <1>3, <1>4 DEF PageInv, PageTypes
<1>6. \A j \in DOMAIN fetches' : FetchOK(fetches'[j], visits)
  BY <1>4 DEF PageInv, x, y
<1>7. Alike(fetches, fetches')
  BY <1>2, <1>4 DEF Alike, x
<1>8. \A t \in Viewers : TabOK(t, screen[t], pages[t], fetches')
  BY <1>7, AlikeOK DEF PageInv
<1> QED
  BY <1>3, <1>5, <1>6, <1>8 DEF PageInv

\* Who is not given what was asked for has lost nothing.
LEMMA ServedFetchOK ==
  ASSUME NEW x \in Fetch, FetchOK(x, visits),
         NEW phase \in Phases, NEW answer \in Replies,
         NEW rows \in Seq(Visits), NEW next \in Cursor \cup {None},
         phase = "ANSWERED" <=> answer # None,
         answer = "OK" =>
           LET y == Answering(x, phase, answer, rows, next) IN
           /\ x.view.name = "LIST" /\ x.step = "READ" => Fits(x.cursor, x.view.of)
           /\ x.view.name = "CALENDAR" /\ x.step = "READ" => GoesOn(y)
  PROVE  FetchOK(Answering(x, phase, answer, rows, next), visits)
<1> DEFINE y == Answering(x, phase, answer, rows, next)
<1>1. /\ y.view = x.view /\ y.step = x.step /\ y.cursor = x.cursor
      /\ y.items = x.items /\ y.since = x.since
      /\ y.phase = phase /\ y.answer = answer
  BY AnsweringOK
<1> HIDE DEF y
<1>2. answer = "OK" =>
        /\ x.view.name = "LIST" /\ x.step = "READ" => Fits(x.cursor, x.view.of)
        /\ x.view.name = "CALENDAR" /\ x.step = "READ" => GoesOn(y)
  BY DEF y
<1>3. SoFarOK(x, visits) => SoFarOK(y, visits)
  BY <1>1 DEF SoFarOK
<1>4. FetchOK(y, visits)
  BY <1>1, <1>2, <1>3 DEF FetchOK
<1> QED
  BY <1>4 DEF y

LEMMA CheckOK ==
  ASSUME PageInv, SessionInv', NEW k \in DOMAIN fetches, CheckFetch(k)
  PROVE  PageInv'
<1> DEFINE x == fetches[k]
<1>1. x \in Fetch /\ FetchOK(x, visits) /\ x.phase = "SENT"
  BY DEF PageInv, PageTypes, CheckFetch
<1>2. x.answer = None
  BY <1>1, FetchFields DEF FetchOK
<1>3. x.rows \in Seq(Visits) /\ x.next \in Cursor \cup {None}
  BY <1>1, FetchFields
<1>4. ASSUME NEW phase \in {"CHECKED", "ANSWERED"},
             NEW answer \in {None, "AUTH_REQUIRED"},
             phase = "ANSWERED" <=> answer # None,
             FetchBecomes(k, Answering(x, phase, answer, x.rows, x.next))
      PROVE  PageInv'
  <2>1. phase \in Phases /\ answer \in Replies /\ answer # "OK"
    BY NoneMeans DEF Phases, Replies
  <2>2. FetchOK(Answering(x, phase, answer, x.rows, x.next), visits)
    <3> HIDE DEF x
    <3> QED
      BY <1>1, <1>3, <1>4, <2>1, ServedFetchOK
  <2> QED
    BY <1>3, <1>4, <2>1, <2>2, ServedOK
<1>5. CASE Active(x.token)
  <2>1. [x EXCEPT !.phase = "CHECKED"]
          = Answering(x, "CHECKED", None, x.rows, x.next)
    BY <1>1, <1>2 DEF Answering, Fetch
  <2>2. FetchBecomes(k, [x EXCEPT !.phase = "CHECKED"])
    BY <1>5 DEF CheckFetch
  <2> QED
    BY <1>4, <2>1, <2>2
<1>6. CASE ~Active(x.token)
  <2>1. AnsweredWith(x, "AUTH_REQUIRED")
          = Answering(x, "ANSWERED", "AUTH_REQUIRED", x.rows, x.next)
    BY <1>1, <1>2 DEF Answering, AnsweredWith, Fetch
  <2>2. FetchBecomes(k, AnsweredWith(x, "AUTH_REQUIRED"))
    BY <1>6 DEF CheckFetch
  <2> QED
    BY <1>4, <2>1, <2>2, NoneMeans
<1> QED
  BY <1>5, <1>6

LEMMA FailOK ==
  ASSUME PageInv, SessionInv', NEW k \in DOMAIN fetches, FailFetch(k)
  PROVE  PageInv'
<1> DEFINE x == fetches[k]
<1>1. x \in Fetch /\ FetchOK(x, visits)
  BY DEF PageInv, PageTypes
<1>2. PICK answer \in {"LOST", "AUTH_REQUIRED", "REFUSED"} :
        FetchBecomes(k, AnsweredWith(x, answer))
  BY DEF FailFetch
<1>3. AnsweredWith(x, answer)
        = Answering(x, "ANSWERED", answer, x.rows, x.next)
  BY <1>1 DEF Answering, AnsweredWith, Fetch
<1>4. x.rows \in Seq(Visits) /\ x.next \in Cursor \cup {None}
  BY <1>1, FetchFields
<1>5. /\ "ANSWERED" \in Phases /\ answer \in Replies
      /\ answer # "OK" /\ answer # None
  BY NoneMeans DEF Phases, Replies
<1>6. FetchOK(Answering(x, "ANSWERED", answer, x.rows, x.next), visits)
  <2> HIDE DEF x
  <2> QED
    BY <1>1, <1>4, <1>5, ServedFetchOK
<1>7. FetchBecomes(k, Answering(x, "ANSWERED", answer, x.rows, x.next))
  BY <1>2, <1>3
<1> QED
  BY <1>4, <1>5, <1>6, <1>7, ServedOK

LEMMA AnswerOK ==
  ASSUME PageInv, SessionInv', NEW k \in DOMAIN fetches, AnswerFetch(k)
  PROVE  PageInv'
<1> DEFINE x == fetches[k]
           found == Found(x)
           y == Answering(x, "ANSWERED", found.answer, found.rows, found.next)
<1>1. x \in Fetch /\ FetchOK(x, visits) /\ PageTypes
  BY DEF PageInv, PageTypes
<1>2. FetchBecomes(k, [AnsweredWith(x, found.answer) EXCEPT
                         !.rows = found.rows, !.next = found.next])
  BY DEF AnswerFetch
<1>3. [AnsweredWith(x, found.answer) EXCEPT
         !.rows = found.rows, !.next = found.next] = y
  BY <1>1 DEF Answering, AnsweredWith, Fetch
<1> HIDE DEF x
<1>4. /\ found.answer \in {"OK", "REFUSED"} /\ found.rows \in Seq(Visits)
      /\ found.next \in Cursor \cup {None}
      /\ found.answer = "OK" =>
           /\ x.view.name = "LIST" /\ x.step = "READ" => Fits(x.cursor, x.view.of)
           /\ x.view.name = "CALENDAR" /\ x.step = "READ" => GoesOn(y)
  <2>1. CASE x.step = "READ" /\ x.view.name = "LIST"
    <3>1. found = InquiryRows(x.view.of, x.cursor)
      BY <2>1 DEF Found
    <3>2. x.view.of \in Nat /\ x.cursor \in Cursor \cup {None}
      BY <1>1, FetchFields
    <3> HIDE DEF found
    <3> QED
      BY <2>1, <3>1, <3>2, InquiryRowsOK
  <2>2. CASE x.step = "READ" /\ x.view.name = "CALENDAR"
    <3>1. found = VisitRows(x.view.of, x.cursor)
      BY <2>2 DEF Found
    <3>2. SoFarOK(x, visits)
      BY <1>1, <2>2 DEF FetchOK
    <3> HIDE DEF found
    <3>3. /\ found.answer \in {"OK", "REFUSED"} /\ found.rows \in Seq(Visits)
          /\ found.next \in Cursor \cup {None}
          /\ \A z : /\ z.view = x.view /\ z.cursor = x.cursor
                    /\ z.since = x.since /\ z.rows = found.rows
                    /\ z.next = found.next /\ found.answer = "OK"
                    => GoesOn(z)
      BY <1>1, <2>2, <3>1, <3>2, VisitRowsOK
    <3>4. /\ y.view = x.view /\ y.cursor = x.cursor /\ y.since = x.since
          /\ y.rows = found.rows /\ y.next = found.next
      <4>1. "ANSWERED" \in Phases /\ found.answer \in Replies
        BY <3>3 DEF Phases, Replies
      <4> QED
        BY <1>1, <3>3, <4>1, AnsweringOK
    <3> HIDE DEF y
    <3> QED
      BY <2>2, <3>3, <3>4
  <2>3. CASE ~(x.step = "READ" /\ x.view.name \in {"LIST", "CALENDAR"})
    <3>1. found = [answer |-> "OK", rows |-> << >>, next |-> None]
      BY <2>3 DEF Found
    <3>2. << >> \in Seq(Visits)
      BY EmptySeq
    <3> QED
      BY <2>3, <3>1, <3>2
  <2> QED
    BY <2>1, <2>2, <2>3
<1> HIDE DEF found
<1>5. /\ "ANSWERED" \in Phases /\ found.answer \in Replies
      /\ found.answer # None
  BY <1>4, NoneMeans DEF Phases, Replies
<1>6. FetchOK(y, visits)
  BY <1>1, <1>4, <1>5, ServedFetchOK
<1> QED
  BY <1>2, <1>3, <1>4, <1>5, <1>6, ServedOK DEF x

-----------------------------------------------------------------------------
(* The moves of the owner.                                                  *)

LEMMA OthersOK ==
  ASSUME NEW t, NEW u, u # t, NEW f, NEW g,
         DOMAIN f \subseteq Nat, DOMAIN g \subseteq Nat, KeepsOthers(t, f, g),
         NEW c, NEW p, TabOK(u, c, p, f)
  PROVE  TabOK(u, c, p, g)
<1>1. \A k \in DOMAIN g : g[k].tab = u => k \in DOMAIN f /\ g[k] = f[k]
  BY DEF KeepsOthers
<1>2. \A k \in DOMAIN f : f[k].tab = u => k \in DOMAIN g /\ g[k] = f[k]
  BY DEF KeepsOthers
<1>3. VersionOK(u, c, p, g)
  BY <1>1 DEF TabOK, VersionOK
<1>4. ListOK(u, c, p, g)
  BY <1>1 DEF TabOK, ListOK
<1>5. AwaitOK(u, c, p, g)
  BY <1>2 DEF TabOK, AwaitOK, Replaces
<1> QED
  BY <1>3, <1>4, <1>5 DEF TabOK

\* A step of the page of one tab.
LEMMA BecomesOK ==
  ASSUME PageInv, SessionInv', NEW t \in Viewers, NEW r,
         r.p \in Page, Good(r.f), KeepsOthers(t, fetches, r.f),
         TabOK(t, screen'[t], r.p, r.f),
         \A u \in Viewers \ {t} : screen'[u] = screen[u],
         Becomes(t, r), visits' = visits
  PROVE  PageInv'
<1>1. /\ pages \in [Viewers -> Page] /\ DOMAIN fetches \subseteq Nat
      /\ visits \subseteq Visits
  BY DEF PageInv, PageTypes
<1>2. /\ pages' = [pages EXCEPT ![t] = r.p] /\ fetches' = r.f
  BY DEF Becomes
<1>3. pages' \in [Viewers -> Page]
  BY <1>1, <1>2
<1>4. PageTypes'
  BY <1>1, <1>2, <1>3 DEF Good, PageTypes
<1>5. \A k \in DOMAIN fetches' : FetchOK(fetches'[k], visits')
  BY <1>2 DEF Good
<1>6. ASSUME NEW u \in Viewers PROVE TabOK(u, screen'[u], pages'[u], fetches')
  <2>1. CASE u = t
    BY <1>1, <1>2, <2>1
  <2>2. CASE u # t
    <3>1. TabOK(u, screen[u], pages[u], fetches)
      BY DEF PageInv
    <3>2. pages'[u] = pages[u] /\ screen'[u] = screen[u]
      BY <1>1, <1>2, <2>2
    <3>3. DOMAIN r.f \subseteq Nat
      BY DEF Good
    <3> QED
      BY <1>1, <1>2, <2>2, <3>1, <3>2, <3>3, OthersOK
  <2> QED
    BY <2>1, <2>2
<1> QED
  BY <1>4, <1>5, <1>6 DEF PageInv

LEMMA GoodNow == ASSUME PageInv PROVE Good(fetches) /\ PageTypes
BY DEF PageInv, PageTypes, Good

LEMMA TabNow ==
  ASSUME PageInv, NEW t \in Viewers
  PROVE  /\ pages[t] \in Page /\ TabOK(t, screen[t], pages[t], fetches)
         /\ t \in Tabs /\ screen[t] \in Screens /\ cookie \in Nat
BY PageAssumption DEF PageInv, PageTypes, SessionInv, TypeOK

\* A view of the shell is opened.
LEMMA OpensOK ==
  ASSUME PageInv, SessionInv', NEW t \in Viewers, screen[t] = "SHELL",
         screen' = screen, visits' = visits,
         NEW r, ViewOK(t, fetches, r), Becomes(t, r)
  PROVE  PageInv'
BY BecomesOK DEF ViewOK

\* Where the calendar or a visit is shown, the hash is that of the calendar,
\* and where the list is shown, neither is on its way.
LEMMA ShownMeans ==
  ASSUME NEW t \in Viewers, NEW p \in Page, NEW f, TabOK(t, "SHELL", p, f)
  PROVE  /\ p.shown.view.name \in {"CALENDAR", "VISIT"} =>
              p.event \/ p.hash = "CALENDAR"
         /\ p.shown.view.name = "LIST" => NoneVersioned(t, f)
<1>1. ASSUME p.shown.view.name \in {"CALENDAR", "VISIT"}
      PROVE  p.event \/ p.hash = "CALENDAR"
  BY <1>1 DEF TabOK, ShownOK, HashOK
<1>2. ASSUME p.shown.view.name = "LIST" PROVE NoneVersioned(t, f)
  BY <1>2 DEF TabOK, ShownOK, VersionOK, NoneVersioned, Versioned
<1> QED
  BY <1>1, <1>2

LEMMA MovesMean ==
  ASSUME NEW t \in Viewers, Moves(t)
  PROVE  screen[t] = "SHELL" /\ screen' = screen /\ visits' = visits
BY DEF Moves

LEMMA FollowLinkOK ==
  ASSUME PageInv, SessionInv', NEW t \in Viewers, FollowLink(t)
  PROVE  PageInv'
<1> DEFINE p == pages[t]
           hash == IF p.hash = "CALENDAR" THEN "INQUIRIES" ELSE "CALENDAR"
           q == [p EXCEPT !.event = TRUE, !.hash = hash]
           r == [p |-> q, f |-> fetches]
<1>1. p \in Page /\ TabOK(t, "SHELL", p, fetches)
  BY TabNow, MovesMean DEF FollowLink
<1>2. Becomes(t, r)
  BY TabNow DEF FollowLink, Becomes, PageInv, PageTypes
<1> HIDE DEF p
<1>3. hash \in {"INQUIRIES", "CALENDAR"}
  OBVIOUS
<1> HIDE DEF hash
<1>4. q \in Page
  BY <1>1, <1>3, Zenon DEF Page
<1>5. /\ q.event = TRUE /\ q.asked = p.asked /\ q.shown = p.shown
      /\ q.filter = p.filter /\ q.cursor = p.cursor /\ q.month = p.month
  BY <1>1 DEF Page
<1> HIDE DEF q
<1>6. TabOK(t, "SHELL", q, fetches)
  BY <1>1, <1>5
  DEF TabOK, ShownOK, HashOK, VersionOK, ListOK, AwaitOK, DrawnOK
<1>7. ViewOK(t, fetches, r)
  BY <1>4, <1>6, GoodNow DEF ViewOK, KeepsOthers
<1> HIDE DEF r
<1> QED
  BY <1>2, <1>7, MovesMean, OpensOK DEF FollowLink

LEMMA HashChangedOK ==
  ASSUME PageInv, SessionInv', NEW t \in Viewers, HashChanged(t)
  PROVE  PageInv'
<1> DEFINE p == [pages[t] EXCEPT !.event = FALSE]
           g == NextVersion(fetches, t)
           r == IF screen[t] = "SHELL" THEN Route(t, cookie, p, fetches)
                ELSE [p |-> p, f |-> g]
<1>1. Becomes(t, r) /\ visits' = visits /\ screen' = screen
  BY DEF HashChanged, sessionVars
<1>2. p \in Page /\ p.shown = pages[t].shown
  BY TabNow DEF Page
<1> HIDE DEF p
<1>3. CASE screen[t] = "SHELL"
  <2>1. ViewOK(t, fetches, Route(t, cookie, p, fetches))
    BY <1>2, GoodNow, TabNow, RouteOK
  <2>2. Becomes(t, Route(t, cookie, p, fetches))
    BY <1>1, <1>3
  <2> QED
    BY <1>1, <1>3, <2>1, <2>2, OpensOK
<1>4. CASE screen[t] # "SHELL"
  <2>1. Good(g) /\ KeepsOthers(t, fetches, g) /\ NoneVersioned(t, g)
    BY GoodNow, NextVersionMeans
  <2>2. r.p = p /\ r.f = g
    BY <1>4
  <2> HIDE DEF g
  <2>3. TabOK(t, screen'[t], p, g)
    BY <1>1, <1>2, <1>4, <2>1, TabNow
    DEF TabOK, ShownOK, HashOK, VersionOK, ListOK, AwaitOK, DrawnOK,
        NoneVersioned
  <2> HIDE DEF r
  <2> QED
    BY <1>1, <1>2, <2>1, <2>2, <2>3, BecomesOK
<1> QED
  BY <1>3, <1>4

LEMMA OpenInquiryOK ==
  ASSUME PageInv, SessionInv', NEW t \in Viewers, NEW i \in Inquiries,
         OpenInquiry(t, i)
  PROVE  PageInv'
<1>1. InquiryOf(i) \in View /\ InquiryOf(i).name = "INQUIRY"
  BY ViewsOK, PageAssumption
<1>2. ViewOK(t, fetches, ShowInquiryDetail(t, cookie, pages[t], fetches, i))
  BY <1>1, GoodNow, TabNow, DetailOK DEF ShowInquiryDetail
<1> QED
  BY <1>2, MovesMean, OpensOK DEF OpenInquiry

LEMMA OpenVisitOK ==
  ASSUME PageInv, SessionInv', NEW t \in Viewers, NEW v \in Visits,
         OpenVisit(t, v)
  PROVE  PageInv'
<1>1. VisitOf(v) \in View /\ VisitOf(v).name = "VISIT"
  BY ViewsOK, PageAssumption
<1>2. pages[t].event \/ pages[t].hash = "CALENDAR"
  BY MovesMean, TabNow, ShownMeans DEF OpenVisit
<1>3. ViewOK(t, fetches, ShowVisitDetail(t, cookie, pages[t], fetches, v))
  BY <1>1, <1>2, GoodNow, TabNow, DetailOK DEF ShowVisitDetail
<1> QED
  BY <1>3, MovesMean, OpensOK DEF OpenVisit

LEMMA BackOK ==
  ASSUME PageInv, SessionInv', NEW t \in Viewers, Back(t)
  PROVE  PageInv'
<1>1. screen[t] = "SHELL" /\ screen' = screen /\ visits' = visits
  BY MovesMean DEF Back
<1>2. ViewOK(t, fetches, ShowInquiryList(t, cookie, pages[t], fetches))
  BY GoodNow, TabNow, ShowInquiryListOK
<1>3. ASSUME pages[t].shown.view.name = "VISIT"
      PROVE  ViewOK(t, fetches, ShowCalendar(t, cookie, pages[t], fetches))
  <2>1. pages[t].event \/ pages[t].hash = "CALENDAR"
    BY <1>1, <1>3, TabNow, ShownMeans
  <2> QED
    BY <2>1, GoodNow, TabNow, ShowCalendarOK
<1> QED
  BY <1>1, <1>2, <1>3, OpensOK DEF Back

\* The list is loaded again, under another filter or with another cursor.
LEMMA ReloadOK ==
  ASSUME PageInv, SessionInv', NEW t \in Viewers, Moves(t),
         pages[t].shown.view.name = "LIST", NEW p \in Page,
         Becomes(t, LoadInquiries(t, cookie, p, fetches))
  PROVE  PageInv'
<1>1. screen[t] = "SHELL" /\ screen' = screen /\ visits' = visits
  BY MovesMean
<1>2. NoneVersioned(t, fetches)
  BY <1>1, TabNow, ShownMeans
<1>3. ViewOK(t, fetches, LoadInquiries(t, cookie, p, fetches))
  BY <1>2, GoodNow, TabNow, LoadInquiriesOK
<1> QED
  BY <1>1, <1>3, OpensOK

LEMMA ChangeFilterOK ==
  ASSUME PageInv, SessionInv', NEW t \in Viewers, NEW filter \in Filters,
         ChangeFilter(t, filter)
  PROVE  PageInv'
<1>1. [pages[t] EXCEPT !.filter = filter, !.cursor = None] \in Page
  BY TabNow, Zenon DEF Page
<1> QED
  BY <1>1, ReloadOK DEF ChangeFilter

LEMMA NextPageOK ==
  ASSUME PageInv, SessionInv', NEW t \in Viewers, NextPage(t)
  PROVE  PageInv'
<1>1. [pages[t] EXCEPT !.cursor = pages[t].next] \in Page
  BY TabNow DEF Page
<1> QED
  BY <1>1, ReloadOK DEF NextPage

LEMMA ChangeMonthOK ==
  ASSUME PageInv, SessionInv', NEW t \in Viewers, NEW m \in Months,
         ChangeMonth(t, m)
  PROVE  PageInv'
<1> DEFINE p == [pages[t] EXCEPT !.month = m]
<1>1. /\ p \in Page /\ p.event = pages[t].event /\ p.hash = pages[t].hash
  BY TabNow DEF Page
<1>2. p.event \/ p.hash = "CALENDAR"
  BY <1>1, MovesMean, TabNow, ShownMeans DEF ChangeMonth
<1>3. Becomes(t, ShowCalendar(t, cookie, p, fetches))
  BY DEF ChangeMonth
<1> HIDE DEF p
<1>4. ViewOK(t, fetches, ShowCalendar(t, cookie, p, fetches))
  BY <1>1, <1>2, GoodNow, TabNow, ShowCalendarOK
<1> QED
  BY <1>3, <1>4, MovesMean, OpensOK DEF ChangeMonth

LEMMA PlanVisitOK ==
  ASSUME PageInv, SessionInv', NEW v \in Visits, PlanVisit(v)
  PROVE  PageInv'
<1>1. /\ visits \subseteq visits' /\ visits' \subseteq Visits
      /\ UNCHANGED <<screen, pages, fetches>>
  BY DEF PlanVisit, PageInv, PageTypes
<1>2. PageTypes'
  BY <1>1 DEF PageInv, PageTypes
<1>3. \A k \in DOMAIN fetches : FetchOK(fetches[k], visits')
  <2> SUFFICES ASSUME NEW k \in DOMAIN fetches PROVE FetchOK(fetches[k], visits')
    OBVIOUS
  <2>1. SoFarOK(fetches[k], visits) => SoFarOK(fetches[k], visits')
    BY <1>1 DEF SoFarOK
  <2> QED
    BY <2>1 DEF PageInv, FetchOK
<1>4. \A t \in Viewers : TabOK(t, screen[t], pages[t], fetches)
  BY DEF PageInv
<1> QED
  BY <1>1, <1>2, <1>3, <1>4 DEF PageInv

-----------------------------------------------------------------------------
(* The steps of the sessions.                                               *)

\* A step that the pages take no part in.
LEMMA QuietOK ==
  ASSUME PageInv, SessionInv', UNCHANGED pageVars,
         \A u \in Viewers : screen'[u] = screen[u]
  PROVE  PageInv'
<1>1. UNCHANGED <<pages, fetches, visits>>
  BY DEF pageVars
<1>2. PageTypes'
  BY <1>1 DEF PageInv, PageTypes
<1>3. \A k \in DOMAIN fetches : FetchOK(fetches[k], visits)
  BY DEF PageInv
<1>4. \A t \in Viewers : TabOK(t, screen'[t], pages[t], fetches)
  BY DEF PageInv
<1> QED
  BY <1>1, <1>2, <1>3, <1>4 DEF PageInv

LEMMA NewPageOK ==
  ASSUME NEW hash \in {"INQUIRIES", "CALENDAR"}
  PROVE  NewPage(hash) \in Page /\ NewPage(hash).shown.status = "LOADING"
<1>1. /\ ListOf(0) \in View /\ Blank(ListOf(0)) \in Shown
      /\ Blank(ListOf(0)).status = "LOADING"
  BY ViewsOK, BlankOK
<1>2. 0 \in Filters
  BY PageAssumption
<1> QED
  BY <1>1, <1>2 DEF NewPage, Page

LEMMA PageLoadOK ==
  ASSUME PageInv, SessionInv', NEW t \in Tabs, PageLoad(t)
  PROVE  PageInv'
<1>1. screen' = [screen EXCEPT ![t] = "BOOT"] /\ visits' = visits
  BY DEF PageLoad, Load
<1>2. screen \in [Tabs -> Screens] /\ Viewers \subseteq Tabs
  BY PageAssumption DEF PageInv, SessionInv, TypeOK
<1>3. \A u \in Viewers \ {t} : screen'[u] = screen[u]
  BY <1>1, <1>2
<1>4. CASE t \in Viewers
  <2> DEFINE S == {k \in DOMAIN fetches : fetches[k].tab # t}
             p == NewPage(pages[t].hash)
             g == Restrict(fetches, S)
             r == [p |-> p, f |-> g]
  <2>1. p \in Page /\ p.shown.status = "LOADING"
    BY <1>4, TabNow, PageFields, NewPageOK
  <2>2. S \in SUBSET DOMAIN fetches
    OBVIOUS
  <2>3. \A k \in DOMAIN fetches : k \in S <=> fetches[k].tab # t
    OBVIOUS
  <2>4. Becomes(t, r)
    BY <1>4 DEF PageLoad
  <2> HIDE DEF S, p
  <2>5. Good(g) /\ DOMAIN g = S /\ \A k \in S : g[k] = fetches[k]
    BY <2>2, GoodNow, RestrictMeans
  <2> HIDE DEF g
  <2>6. KeepsOthers(t, fetches, g)
    BY <2>2, <2>3, <2>5 DEF KeepsOthers
  <2>7. TabOK(t, "BOOT", p, g)
    BY <2>1, <2>2, <2>3, <2>5
    DEF TabOK, ShownOK, HashOK, VersionOK, ListOK, AwaitOK, DrawnOK
  <2>8. screen'[t] = "BOOT" /\ r.p = p /\ r.f = g
    BY <1>1, <1>2
  <2> HIDE DEF r
  <2> QED
    BY <1>1, <1>3, <1>4, <2>1, <2>4, <2>5, <2>6, <2>7, <2>8, BecomesOK
<1>5. CASE t \notin Viewers
  BY <1>1, <1>3, <1>5, QuietOK DEF PageLoad, pageVars
<1> QED
  BY <1>4, <1>5

\* The views when a request of the sessions is answered.
LEMMA EntersOK ==
  ASSUME PageInv, SessionInv', NEW q \in Request, q.tab \in Tabs,
         Handles(q), Enters(q.tab, q), visits' = visits
  PROVE  PageInv'
<1> DEFINE t == q.tab
<1>1. screen \in [Tabs -> Screens] /\ cookie \in Nat /\ Viewers \subseteq Tabs
  BY PageAssumption DEF PageInv, SessionInv, TypeOK
<1>2. screen' = [screen EXCEPT
                   ![t] = IF Leads(q) = "NOWHERE" THEN @ ELSE Leads(q)]
  BY DEF Handles
<1>3. \A u \in Viewers \ {t} : screen'[u] = screen[u]
  BY <1>1, <1>2
<1>4. Leads(q) \in {"SHELL", "LOGIN", "NOWHERE"}
  BY DEF Leads, Request, Kinds
<1>5. CASE t \notin Viewers \/ Leads(q) = "NOWHERE"
  <2>1. \A u \in Viewers : screen'[u] = screen[u]
    BY <1>1, <1>2, <1>3, <1>5
  <2> QED
    BY <1>5, <2>1, QuietOK DEF Enters, pageVars
<1>6. CASE t \in Viewers /\ Leads(q) = "SHELL"
  <2> DEFINE r == ShellView(t, Jar(q), pages[t], fetches)
  <2>1. Jar(q) \in Nat
    BY <1>1 DEF Jar, Request
  <2>2. ViewOK(t, fetches, r)
    BY <1>6, <2>1, GoodNow, TabNow, ShellViewOK
  <2>3. Becomes(t, r) /\ screen'[t] = "SHELL"
    BY <1>1, <1>2, <1>6 DEF Enters
  <2> HIDE DEF r, t
  <2> QED
    BY <1>3, <1>6, <2>2, <2>3, BecomesOK DEF ViewOK
<1>7. CASE t \in Viewers /\ Leads(q) = "LOGIN"
  <2> DEFINE zone == pages[t].zone /\ q.kind # "SIGN_OUT"
             p == [pages[t] EXCEPT !.zone = zone]
             r == LoginView(t, p, fetches)
  <2>1. p \in Page
    <3>1. pages[t] \in Page /\ zone \in BOOLEAN
      BY <1>7, TabNow
    <3> HIDE DEF zone
    <3> QED
      BY <3>1, Zenon DEF Page
  <2>2. Becomes(t, r) /\ screen'[t] = "LOGIN"
    BY <1>1, <1>2, <1>7 DEF Enters
  <2> HIDE DEF p, t
  <2>3. /\ r.p \in Page /\ Good(r.f) /\ KeepsOthers(t, fetches, r.f)
        /\ \A c \in Screens \ {"SHELL"} : TabOK(t, c, r.p, r.f)
    BY <1>7, <2>1, GoodNow, LoginViewOK
  <2> HIDE DEF r
  <2>4. TabOK(t, screen'[t], r.p, r.f)
    BY <2>2, <2>3 DEF Screens
  <2> QED
    BY <1>3, <1>7, <2>2, <2>3, <2>4, BecomesOK
<1> QED
  BY <1>4, <1>5, <1>6, <1>7

LEMMA AnsweredOK ==
  ASSUME PageInv, SessionInv', NEW r \in Slots, PageDeliver(r) \/ PageLose(r)
  PROVE  PageInv'
<1> DEFINE q == requests[r]
           lost == [q EXCEPT !.answer = "LOST"]
<1>1. q \in Request /\ q.tab \in Tabs /\ visits' = visits
  BY DEF PageInv, SessionInv, TypeOK, PageDeliver, PageLose, Deliver, Lose,
         Request
<1>2. CASE PageDeliver(r)
  BY <1>1, <1>2, EntersOK DEF PageDeliver, Deliver
<1>3. CASE PageLose(r)
  <2>1. lost \in Request /\ lost.tab = q.tab
    BY <1>1 DEF Request, Answers
  <2>2. Handles(lost) /\ Enters(lost.tab, lost)
    BY <1>3, <2>1 DEF PageLose, Lose
  <2> HIDE DEF lost, q
  <2> QED
    BY <1>1, <2>1, <2>2, EntersOK
<1> QED
  BY <1>2, <1>3

LEMMA SessionStepOK ==
  ASSUME PageInv, SessionInv', Sessions, UNCHANGED pageVars
  PROVE  PageInv'
<1>1. screen \in [Tabs -> Screens] /\ Viewers \subseteq Tabs
  BY PageAssumption DEF PageInv, SessionInv, TypeOK
<1>2. CASE UNCHANGED screen
  BY <1>2, QuietOK
<1>3. ASSUME NEW t \in Tabs \ Viewers, ReadRefused(t) PROVE PageInv'
  <2>1. \A u \in Viewers : screen'[u] = screen[u]
    BY <1>1, <1>3 DEF ReadRefused
  <2> QED
    BY <2>1, QuietOK
<1>4. ASSUME NEW t \in Tabs, SignIn(t) \/ SignOut(t) \/ SendCommand(t)
      PROVE  UNCHANGED screen
  BY <1>4 DEF SignIn, SignOut, SendCommand
<1>5. ASSUME NEW r \in Slots, Server(r) \/ Discard(r) PROVE UNCHANGED screen
  BY <1>5 DEF Server, Discard, ReadAccount, StoreSession, ReadSession,
              Authorize, Execute, Recheck, Revoke, Fails
<1>6. Operator => UNCHANGED screen
  BY DEF Operator, Provision, ChangeCredentials, Disable, Expire
<1> QED
  BY <1>2, <1>3, <1>4, <1>5, <1>6 DEF Sessions

-----------------------------------------------------------------------------
(* The answers.                                                             *)

\* q is set like p: it may differ in what it shows, and in what it keeps of
\* the server's answers.
SetLike(p, q) ==
  /\ q \in Page
  /\ q.hash = p.hash /\ q.event = p.event /\ q.filter = p.filter
  /\ q.cursor = p.cursor /\ q.month = p.month /\ q.asked = p.asked

\* Without the answer to x what p shows would load for ever.
Misses(t, c, p, x) ==
  /\ Replaces(t, p, x) /\ c = "SHELL" /\ p.shown.status = "LOADING"
  /\ ~p.event /\ ~(p.shown.view.name = "LIST" /\ p.hash = "CALENDAR")

\* A fetch is over, and what is shown stays.
LEMMA LeftOK ==
  ASSUME NEW t, NEW c, NEW f, Good(f), NEW k \in DOMAIN f,
         NEW p, NEW q, TabOK(t, c, p, f), SetLike(p, q), q.shown = p.shown,
         ~Misses(t, c, p, f[k])
  PROVE  TabOK(t, c, q, Without(f, k))
<1> DEFINE g == Without(f, k)
<1>1. DOMAIN g = DOMAIN f \ {k} /\ \A j \in DOMAIN f \ {k} : g[j] = f[j]
  BY WithoutMeans
<1> HIDE DEF g
<1>2. ShownOK(c, q) /\ HashOK(c, q) /\ DrawnOK(q)
  BY DEF TabOK, ShownOK, HashOK, DrawnOK, SetLike
<1>3. VersionOK(t, c, q, g)
  BY <1>1 DEF TabOK, VersionOK, SetLike
<1>4. ListOK(t, c, q, g)
  BY <1>1 DEF TabOK, ListOK
<1>5. AwaitOK(t, c, q, g)
  BY <1>1 DEF TabOK, AwaitOK, SetLike, Misses, Replaces
<1> QED
  BY <1>2, <1>3, <1>4, <1>5 DEF TabOK, g

\* A fetch is over, and what is shown does not load any more.
LEMMA RedrawnOK ==
  ASSUME NEW t, NEW c, NEW f, Good(f), NEW k \in DOMAIN f,
         NEW p, NEW q, TabOK(t, c, p, f), SetLike(p, q),
         q.shown.status # "LOADING", ShownOK(c, q), DrawnOK(q),
         q.shown.view.name = "LIST" =>
           q.shown.view = p.shown.view /\ q.shown.cursor = p.shown.cursor
  PROVE  TabOK(t, c, q, Without(f, k))
<1> DEFINE g == Without(f, k)
<1>1. DOMAIN g = DOMAIN f \ {k} /\ \A j \in DOMAIN f \ {k} : g[j] = f[j]
  BY WithoutMeans
<1> HIDE DEF g
<1>2. HashOK(c, q) /\ AwaitOK(t, c, q, g)
  BY DEF TabOK, HashOK, AwaitOK, SetLike
<1>3. VersionOK(t, c, q, g)
  BY <1>1 DEF TabOK, VersionOK, SetLike
<1>4. ListOK(t, c, q, g)
  BY <1>1 DEF TabOK, ListOK
<1> QED
  BY <1>2, <1>3, <1>4 DEF TabOK, g

LEMMA FetchNow ==
  ASSUME PageInv, NEW k \in DOMAIN fetches
  PROVE  /\ fetches[k] \in Fetch /\ fetches[k].tab \in Viewers
         /\ FetchOK(fetches[k], visits)
BY FetchFields DEF PageInv, PageTypes

LEMMA LeavesOK ==
  ASSUME PageInv, SessionInv', NEW k \in DOMAIN fetches,
         UNCHANGED <<sessionVars, visits>>,
         NEW q \in Page, Leaves(k, q),
         TabOK(fetches[k].tab, screen[fetches[k].tab], q, Without(fetches, k))
  PROVE  PageInv'
<1> DEFINE t == fetches[k].tab
           r == [p |-> q, f |-> Without(fetches, k)]
<1>1. Good(Without(fetches, k)) /\ KeepsOthers(t, fetches, Without(fetches, k))
  BY GoodNow, WithoutMeans
<1>2. t \in Viewers /\ Becomes(t, r) /\ screen' = screen
  BY FetchNow DEF Leaves, sessionVars
<1>3. r.p = q /\ r.f = Without(fetches, k)
  OBVIOUS
<1> HIDE DEF r
<1> QED
  BY <1>1, <1>2, <1>3, BecomesOK

LEMMA TakeRefusalOK ==
  ASSUME PageInv, SessionInv', NEW k \in DOMAIN fetches, TakeRefusal(k)
  PROVE  PageInv'
<1> DEFINE t == fetches[k].tab
           g == Without(fetches, k)
           r == LoginView(t, pages[t], g)
<1>1. /\ screen' = [screen EXCEPT ![t] = "LOGIN"] /\ Becomes(t, r)
      /\ visits' = visits
  BY DEF TakeRefusal
<1>2. t \in Viewers /\ pages[t] \in Page
  BY FetchNow, TabNow
<1>3. screen \in [Tabs -> Screens] /\ Viewers \subseteq Tabs
  BY PageAssumption DEF PageInv, SessionInv, TypeOK
<1>4. screen'[t] = "LOGIN" /\ \A u \in Viewers \ {t} : screen'[u] = screen[u]
  BY <1>1, <1>2, <1>3
<1>5. Good(g) /\ KeepsOthers(t, fetches, g)
  BY GoodNow, WithoutMeans
<1> HIDE DEF t, g
<1>6. /\ r.p \in Page /\ Good(r.f) /\ KeepsOthers(t, g, r.f)
      /\ \A c \in Screens \ {"SHELL"} : TabOK(t, c, r.p, r.f)
  BY <1>2, <1>5, LoginViewOK
<1> HIDE DEF r
<1>7. KeepsOthers(t, fetches, r.f) /\ TabOK(t, screen'[t], r.p, r.f)
  BY <1>4, <1>5, <1>6, KeepsBoth DEF Screens
<1> QED
  BY <1>1, <1>2, <1>4, <1>6, <1>7, BecomesOK

\* What the answer to a fetch changes of what is shown.
WithStatus(s, status) == [s EXCEPT !.status = status]
WithButton(s, controls) == [s EXCEPT !.status = "DATA", !.controls = controls]
WithVisits(s, items, since) ==
  [s EXCEPT !.status = "DATA", !.items = items, !.since = since]

LEMMA WithStatusOK ==
  ASSUME NEW s \in Shown, NEW status \in {"LOADING", "DATA", "ERROR"}
  PROVE  LET u == WithStatus(s, status) IN
         /\ u \in Shown /\ u.view = s.view /\ u.cursor = s.cursor
         /\ u.status = status
<1>1. WithStatus(s, status) \in Shown
  BY Zenon DEF WithStatus, Shown
<1> QED
  BY <1>1 DEF WithStatus, Shown

LEMMA WithButtonOK ==
  ASSUME NEW s \in Shown, NEW controls \in BOOLEAN
  PROVE  LET u == WithButton(s, controls) IN
         /\ u \in Shown /\ u.view = s.view /\ u.cursor = s.cursor
         /\ u.status = "DATA"
<1>1. WithButton(s, controls) \in Shown
  BY Zenon DEF WithButton, Shown
<1> QED
  BY <1>1 DEF WithButton, Shown

LEMMA WithVisitsOK ==
  ASSUME NEW s \in Shown, NEW items \in Seq(Visits), NEW since \in SUBSET Visits
  PROVE  LET u == WithVisits(s, items, since) IN
         /\ u \in Shown /\ u.view = s.view /\ u.cursor = s.cursor
         /\ u.status = "DATA" /\ u.items = items /\ u.since = since
<1>1. WithVisits(s, items, since) \in Shown
  BY Zenon DEF WithVisits, Shown
<1> QED
  BY <1>1 DEF WithVisits, Shown

LEMMA TakeListOK ==
  ASSUME PageInv, SessionInv', NEW k \in DOMAIN fetches, TakeList(k)
  PROVE  PageInv'
<1> DEFINE x == fetches[k]
           t == x.tab
           c == screen[t]
           p == pages[t]
<1>1. /\ x \in Fetch /\ FetchOK(x, visits) /\ t \in Viewers /\ Good(fetches)
      /\ p \in Page /\ TabOK(t, c, p, fetches)
  BY FetchNow, TabNow, GoodNow
<1>2. /\ x.view.name = "LIST" /\ x.step = "READ"
      /\ UNCHANGED <<sessionVars, visits>>
  BY DEF TakeList, Comes
<1>3. Heeds(x) <=> x.fresh /\ (p.hash # "CALENDAR" \/ x.answer = "LOST")
  BY <1>2 DEF Heeds, HeedsList
<1>4. /\ x.next \in Cursor \cup {None} /\ p.next \in Cursor \cup {None}
      /\ p.zone \in BOOLEAN /\ p.shown \in Shown
  BY <1>1, FetchFields, PageFields
<1>5. InPage(t, "LIST") <=> c = "SHELL" /\ p.shown.view.name = "LIST"
  BY DEF InPage
<1>6. ASSUME NEW q, SetLike(p, q), Leaves(k, q),
             TabOK(t, c, q, Without(fetches, k))
      PROVE  PageInv'
  BY <1>2, <1>6, LeavesOK DEF SetLike
<1>7. CASE ~Heeds(x)
  <2>1. Leaves(k, p)
    BY <1>7 DEF TakeList
  <2> HIDE DEF p, x, c
  <2>2. SetLike(p, p)
    BY <1>1 DEF SetLike
  <2>3. ~Misses(t, c, p, x)
    BY <1>2, <1>3, <1>7 DEF Misses, Replaces
  <2>4. TabOK(t, c, p, Without(fetches, k))
    BY <1>1, <2>2, <2>3, LeftOK DEF x
  <2> QED
    BY <1>6, <2>1, <2>2, <2>4
<1>8. CASE Heeds(x) /\ ~InPage(t, "LIST")
  <2> DEFINE n == IF x.answer = "OK" THEN x.next ELSE p.next
             q == [p EXCEPT !.next = n]
  <2>1. Leaves(k, IF x.answer = "OK" THEN [p EXCEPT !.next = x.next] ELSE p)
    BY <1>8 DEF TakeList
  <2>2. q = IF x.answer = "OK" THEN [p EXCEPT !.next = x.next] ELSE p
    BY <1>1 DEF Page
  <2>3. Leaves(k, q)
    BY <2>1, <2>2
  <2> HIDE DEF p, x, c
  <2>4. SetLike(p, q) /\ q.shown = p.shown
    <3>1. n \in Cursor \cup {None}
      BY <1>4
    <3> HIDE DEF n
    <3>2. q \in Page
      BY <1>1, <3>1, Zenon DEF Page
    <3> QED
      BY <1>1, <3>2 DEF SetLike, Page
  <2> HIDE DEF q
  <2>5. ~Misses(t, c, p, x)
    BY <1>2, <1>5, <1>8 DEF Misses, Replaces
  <2>6. TabOK(t, c, q, Without(fetches, k))
    BY <1>1, <2>4, <2>5, LeftOK DEF x
  <2> QED
    BY <1>6, <2>3, <2>4, <2>6
<1>9. CASE Heeds(x) /\ InPage(t, "LIST")
  <2>1. x.view = p.shown.view /\ x.cursor = p.shown.cursor
    BY <1>1, <1>2, <1>3, <1>5, <1>9 DEF TabOK, ListOK
  <2>2. ASSUME NEW s \in Shown, NEW n \in Cursor \cup {None},
               s.view = p.shown.view, s.cursor = p.shown.cursor,
               s.status = "ERROR" \/ (s.status = "DATA" /\ x.answer = "OK"),
               Leaves(k, [p EXCEPT !.shown = s, !.next = n])
        PROVE  PageInv'
    <3> DEFINE q == [p EXCEPT !.shown = s, !.next = n]
    <3>1. q \in Page
      BY <1>1, <2>2, Zenon DEF Page
    <3>2. SetLike(p, q) /\ q.shown = s
      BY <1>1, <3>1 DEF SetLike, Page
    <3>3. Leaves(k, q)
      BY <2>2
    <3> HIDE DEF q, p, x, c
    <3>4. ShownOK(c, q)
      BY <1>1, <1>5, <1>9, <2>1, <2>2, <3>2 DEF TabOK, ShownOK, SetLike
    <3>5. DrawnOK(q)
      BY <1>1, <1>2, <2>1, <2>2, <3>2 DEF FetchOK, DrawnOK
    <3>6. TabOK(t, c, q, Without(fetches, k))
      BY <1>1, <2>2, <3>2, <3>4, <3>5, RedrawnOK
    <3> QED
      BY <1>6, <3>2, <3>3, <3>6
  <2>3. CASE x.answer # "OK"
    <3> DEFINE s == WithStatus(p.shown, "ERROR")
    <3>1. s \in Shown /\ s.view = p.shown.view /\ s.cursor = p.shown.cursor
          /\ s.status = "ERROR"
      BY <1>4, WithStatusOK
    <3>2. Leaves(k, [p EXCEPT !.shown.status = "ERROR"])
      BY <1>9, <2>3 DEF TakeList
    <3>3. [p EXCEPT !.shown.status = "ERROR"]
            = [p EXCEPT !.shown = s, !.next = p.next]
      BY <1>1 DEF WithStatus, Page
    <3> HIDE DEF s, p, x
    <3> QED
      BY <1>4, <2>2, <3>1, <3>2, <3>3
  <2>4. CASE x.answer = "OK"
    <3> DEFINE s == WithButton(p.shown, x.next # None)
    <3>1. s \in Shown /\ s.view = p.shown.view /\ s.cursor = p.shown.cursor
          /\ s.status = "DATA"
      BY <1>4, WithButtonOK
    <3>2. Leaves(k, [[p EXCEPT !.next = x.next] EXCEPT
                       !.shown.status = "DATA",
                       !.shown.controls = x.next # None])
      BY <1>9, <2>4 DEF TakeList
    <3>3. [[p EXCEPT !.next = x.next] EXCEPT
             !.shown.status = "DATA", !.shown.controls = x.next # None]
            = [p EXCEPT !.shown = s, !.next = x.next]
      BY <1>1 DEF WithButton, Page
    <3> HIDE DEF s, p, x
    <3> QED
      BY <1>4, <2>2, <2>4, <3>1, <3>2, <3>3
  <2> QED
    BY <2>3, <2>4
<1> QED
  BY <1>7, <1>8, <1>9

\* A page that shows something else.
LEMMA RedrawsOK ==
  ASSUME NEW p \in Page, NEW s \in Shown
  PROVE  LET q == [p EXCEPT !.shown = s] IN SetLike(p, q) /\ q.shown = s
<1>1. [p EXCEPT !.shown = s] \in Page
  BY Zenon DEF Page
<1> QED
  BY <1>1 DEF SetLike, Page

\* An inquiry may be drawn over everything, a visit over what was asked for.
LEMMA DrawnMeans ==
  ASSUME NEW t, NEW c, NEW f, Good(f), NEW k \in DOMAIN f,
         NEW p \in Page, TabOK(t, c, p, f), NEW x \in Fetch, x = f[k],
         x.view.name \in {"INQUIRY", "VISIT"},
         x.view.name = "VISIT" => x.view = p.asked
  PROVE  SetLike(p, Drawn(p, x)) /\ TabOK(t, c, Drawn(p, x), Without(f, k))
<1>1. x.view \in View /\ p.shown \in Shown
  BY FetchFields, PageFields
<1>2. ASSUME NEW s \in Shown, s.view = x.view, s.status \in {"DATA", "ERROR"},
             Drawn(p, x) = [p EXCEPT !.shown = s]
      PROVE  SetLike(p, Drawn(p, x)) /\ TabOK(t, c, Drawn(p, x), Without(f, k))
  <2> DEFINE q == Drawn(p, x)
  <2>1. SetLike(p, q) /\ q.shown = s
    BY <1>2, RedrawsOK
  <2> HIDE DEF q
  <2>2. ShownOK(c, q) /\ DrawnOK(q)
    BY <1>2, <2>1 DEF ShownOK, DrawnOK, SetLike
  <2>3. TabOK(t, c, q, Without(f, k))
    BY <1>2, <2>1, <2>2, RedrawnOK
  <2> QED
    BY <2>1, <2>3 DEF q
<1>3. CASE x.answer # "REFUSED"
  <2> DEFINE status == IF x.answer = "OK" THEN "DATA" ELSE "ERROR"
             s == WithStatus(Blank(x.view), status)
  <2>1. status \in {"DATA", "ERROR"}
    OBVIOUS
  <2>2. Drawn(p, x) = [p EXCEPT !.shown = s]
    BY <1>3 DEF Drawn, WithStatus
  <2> HIDE DEF status
  <2>3. Blank(x.view) \in Shown /\ Blank(x.view).view = x.view
    BY <1>1, BlankOK
  <2>4. s \in Shown /\ s.view = x.view /\ s.status = status
    BY <2>1, <2>3, WithStatusOK
  <2> HIDE DEF s
  <2> QED
    BY <1>2, <2>1, <2>2, <2>4
<1>4. CASE /\ x.answer = "REFUSED"
           /\ p.shown.view = x.view /\ p.shown.status = "LOADING"
  <2> DEFINE s == WithStatus(p.shown, "ERROR")
  <2>1. s \in Shown /\ s.view = x.view /\ s.status = "ERROR"
    BY <1>1, <1>4, WithStatusOK
  <2>2. Drawn(p, x) = [p EXCEPT !.shown = s]
    BY <1>4 DEF Drawn, WithStatus, Page
  <2> HIDE DEF s
  <2> QED
    BY <1>2, <2>1, <2>2
<1>5. CASE /\ x.answer = "REFUSED"
           /\ ~(p.shown.view = x.view /\ p.shown.status = "LOADING")
  <2>1. Drawn(p, x) = p
    BY <1>5 DEF Drawn
  <2>2. SetLike(p, p)
    BY DEF SetLike
  <2>3. ~Misses(t, c, p, f[k])
    BY <1>5 DEF Misses, Replaces
  <2> QED
    BY <2>1, <2>2, <2>3, LeftOK
<1> QED
  BY <1>3, <1>4, <1>5

LEMMA TakeInquiryOK ==
  ASSUME PageInv, SessionInv', NEW k \in DOMAIN fetches, TakeInquiry(k)
  PROVE  PageInv'
<1> DEFINE x == fetches[k]
           t == x.tab
           c == screen[t]
           p == pages[t]
           q == IF x.attached THEN Drawn(p, x) ELSE p
<1>1. /\ x \in Fetch /\ Good(fetches)
      /\ p \in Page /\ TabOK(t, c, p, fetches)
  BY FetchNow, TabNow, GoodNow
<1>2. /\ x.view.name = "INQUIRY" /\ UNCHANGED <<sessionVars, visits>>
      /\ Leaves(k, q)
  BY DEF TakeInquiry, Comes
<1>3. SetLike(p, q) /\ TabOK(t, c, q, Without(fetches, k))
  <2>1. CASE x.attached
    <3>1. q = Drawn(p, x)
      BY <2>1
    <3> HIDE DEF p, c
    <3> QED
      BY <1>1, <1>2, <3>1, DrawnMeans
  <2>2. CASE ~x.attached
    <3>1. q = p
      BY <2>2
    <3> HIDE DEF p, c
    <3>2. SetLike(p, p)
      BY <1>1 DEF SetLike
    <3>3. ~Misses(t, c, p, x)
      BY <1>2, <2>2 DEF Misses, Replaces
    <3> QED
      BY <1>1, <3>1, <3>2, <3>3, LeftOK
  <2> QED
    BY <2>1, <2>2
<1> HIDE DEF q
<1> QED
  BY <1>2, <1>3, LeavesOK DEF SetLike

LEMMA TakeVisitOK ==
  ASSUME PageInv, SessionInv', NEW k \in DOMAIN fetches, TakeVisit(k)
  PROVE  PageInv'
<1> DEFINE x == fetches[k]
           t == x.tab
           c == screen[t]
           p == pages[t]
           q == IF Heeds(x) THEN Drawn(p, x) ELSE p
<1>1. /\ x \in Fetch /\ Good(fetches)
      /\ p \in Page /\ TabOK(t, c, p, fetches)
  BY FetchNow, TabNow, GoodNow
<1>2. /\ x.view.name = "VISIT" /\ UNCHANGED <<sessionVars, visits>>
      /\ Leaves(k, q)
  BY DEF TakeVisit, Comes
<1>3. Heeds(x) <=> x.fresh
  BY <1>2 DEF Heeds
<1>4. SetLike(p, q) /\ TabOK(t, c, q, Without(fetches, k))
  <2>1. CASE Heeds(x)
    <3>1. q = Drawn(p, x)
      BY <2>1
    <3>2. x.view = p.asked
      BY <1>1, <1>2, <1>3, <2>1 DEF TabOK, VersionOK, Versioned
    <3> HIDE DEF p, c
    <3> QED
      BY <1>1, <1>2, <3>1, <3>2, DrawnMeans
  <2>2. CASE ~Heeds(x)
    <3>1. q = p
      BY <2>2
    <3> HIDE DEF p, c
    <3>2. SetLike(p, p)
      BY <1>1 DEF SetLike
    <3>3. ~Misses(t, c, p, x)
      BY <1>2, <1>3, <2>2 DEF Misses, Replaces
    <3> QED
      BY <1>1, <3>1, <3>2, <3>3, LeftOK
  <2> QED
    BY <2>1, <2>2
<1> HIDE DEF q
<1> QED
  BY <1>2, <1>4, LeavesOK DEF SetLike

\* Whoever waits for the calendar waits for the one that was asked for.
LEMMA VersionedMeans ==
  ASSUME NEW t, NEW c, NEW p \in Page, NEW f, TabOK(t, c, p, f),
         NEW k \in DOMAIN f, f[k] \in Fetch, f[k].tab = t, f[k].fresh,
         f[k].view.name = "CALENDAR"
  PROVE  /\ c = "SHELL" /\ f[k].view = p.asked /\ f[k].view.of = p.month
         /\ f[k].view = CalendarOf(p.month)
         /\ p.event \/ p.hash = "CALENDAR"
         /\ \A j \in DOMAIN f \ {k} : f[j].tab = t => ~Versioned(f[j])
<1>1. /\ c = "SHELL" /\ f[k].view = p.asked /\ f[k].view.of = p.month
      /\ \A j \in DOMAIN f \ {k} : f[j].tab = t => ~Versioned(f[j])
  BY DEF TabOK, VersionOK, Versioned
<1>2. f[k].view \in View
  BY FetchFields
<1>3. f[k].view = CalendarOf(p.month)
  BY <1>1, <1>2 DEF View, CalendarOf
<1>4. p.event \/ p.hash = "CALENDAR"
  BY <1>1 DEF TabOK, HashOK
<1> QED
  BY <1>1, <1>3, <1>4

LEMMA TakeZoneOK ==
  ASSUME PageInv, SessionInv', NEW k \in DOMAIN fetches, TakeZone(k)
  PROVE  PageInv'
<1> DEFINE x == fetches[k]
           t == x.tab
           c == screen[t]
           p0 == pages[t]
           zone == p0.zone \/ x.answer = "OK"
           p == [p0 EXCEPT !.zone = zone]
           g == Without(fetches, k)
<1>1. /\ x \in Fetch /\ t \in Viewers /\ Good(fetches) /\ PageTypes
      /\ p0 \in Page /\ TabOK(t, c, p0, fetches) /\ cookie \in Nat
  BY FetchNow, TabNow, GoodNow
<1>2. /\ x.view.name = "CALENDAR" /\ UNCHANGED <<sessionVars, visits>>
      /\ IF x.answer = "OK" /\ x.fresh /\ p.hash = "CALENDAR"
         THEN Becomes(t, OpenMonth(t, cookie, p, g))
         ELSE Leaves(k, IF x.answer # "OK" /\ x.fresh
                        THEN [p EXCEPT !.shown = [Blank(CalendarOf(p.month))
                                                    EXCEPT !.status = "ERROR"]]
                        ELSE p)
  BY DEF TakeZone, Comes
<1>3. p \in Page /\ SetLike(p0, p) /\ p.shown = p0.shown
  <2>1. zone \in BOOLEAN
    BY <1>1, PageFields
  <2> HIDE DEF zone
  <2>2. p \in Page
    BY <1>1, <2>1, Zenon DEF Page
  <2> QED
    BY <1>1, <2>2 DEF SetLike, Page
<1> HIDE DEF p
<1>4. Good(g) /\ KeepsOthers(t, fetches, g)
  BY <1>1, WithoutMeans
<1>5. CASE x.answer = "OK" /\ x.fresh /\ p.hash = "CALENDAR"
  <2>1. /\ c = "SHELL"
        /\ \A j \in DOMAIN fetches \ {k} : fetches[j].tab = t =>
             ~Versioned(fetches[j])
    BY <1>1, <1>2, <1>5, VersionedMeans
  <2>2. NoneVersioned(t, g)
    <3>1. DOMAIN g = DOMAIN fetches \ {k}
            /\ \A j \in DOMAIN fetches \ {k} : g[j] = fetches[j]
      BY <1>1, WithoutMeans
    <3> HIDE DEF g, c
    <3> QED
      BY <2>1, <3>1 DEF NoneVersioned
  <2> HIDE DEF x, g
  <2>3. ViewOK(t, g, OpenMonth(t, cookie, p, g))
    BY <1>1, <1>3, <1>4, <1>5, <2>2, OpenMonthOK
  <2>4. ViewOK(t, fetches, OpenMonth(t, cookie, p, g))
    BY <1>4, <2>3, KeepsBoth DEF ViewOK
  <2> QED
    BY <1>1, <1>2, <1>5, <2>1, <2>4, OpensOK DEF sessionVars
<1>6. CASE x.answer # "OK" /\ x.fresh
  <2> DEFINE s == WithStatus(Blank(CalendarOf(p.month)), "ERROR")
             q == [p EXCEPT !.shown = s]
  <2>1. Leaves(k, q)
    BY <1>2, <1>6 DEF WithStatus
  <2>2. /\ p0.asked = CalendarOf(p0.month) /\ p0.month = p.month
        /\ CalendarOf(p.month) \in View /\ CalendarOf(p.month).name = "CALENDAR"
        /\ CalendarOf(p.month).of = p.month
    <3>1. p0.asked = CalendarOf(p0.month) /\ p0.month = p.month
      BY <1>1, <1>2, <1>3, <1>6, VersionedMeans DEF SetLike
    <3>2. p.month \in Nat
      BY <1>3, PageFields
    <3> QED
      BY <3>1, <3>2, ViewsOK
  <2>3. /\ Blank(CalendarOf(p.month)) \in Shown
        /\ Blank(CalendarOf(p.month)).view = CalendarOf(p.month)
    BY <2>2, BlankOK
  <2>4. s \in Shown /\ s.view = CalendarOf(p.month) /\ s.status = "ERROR"
    BY <2>3, WithStatusOK
  <2> HIDE DEF s
  <2>5. SetLike(p, q) /\ q.shown = s
    BY <1>3, <2>4, RedrawsOK
  <2> HIDE DEF q, p0, c
  <2>6. SetLike(p0, q)
    BY <1>3, <2>5 DEF SetLike
  <2>7. ShownOK(c, q) /\ DrawnOK(q)
    BY <2>2, <2>4, <2>5, <2>6 DEF ShownOK, DrawnOK, SetLike
  <2>8. TabOK(t, c, q, g)
    BY <1>1, <2>2, <2>4, <2>5, <2>6, <2>7, RedrawnOK
  <2> QED
    BY <1>2, <2>1, <2>6, <2>8, LeavesOK DEF SetLike, c
<1>7. CASE /\ ~(x.answer = "OK" /\ x.fresh /\ p.hash = "CALENDAR")
           /\ ~(x.answer # "OK" /\ x.fresh)
  <2>1. Leaves(k, p)
    BY <1>2, <1>7
  <2>2. x.fresh => p0.event \/ p0.hash = "CALENDAR"
    BY <1>1, <1>2, VersionedMeans
  <2>3. ~Misses(t, c, p0, x)
    BY <1>2, <1>3, <1>7, <2>2 DEF Misses, Replaces, SetLike
  <2> HIDE DEF p0, c
  <2>4. TabOK(t, c, p, g)
    BY <1>1, <1>3, <2>3, LeftOK
  <2> QED
    BY <1>2, <1>3, <2>1, <2>4, LeavesOK DEF c
<1> QED
  BY <1>5, <1>6, <1>7

\* A page that goes on with the pages before it makes a longer part of the
\* month, in order and without gaps.
LEMMA JoinOK ==
  ASSUME NEW x \in Fetch, NEW held, SoFarOK(x, held), GoesOn(x)
  PROVE  LET items == x.items \o x.rows
             m == x.view.of
         IN
         /\ items \in Seq(Visits) /\ Ordered(items) /\ InMonth(items, m)
         /\ \A v \in x.since : m \in MonthsOf[v] =>
              v \in Range(items) \/ (x.next # None /\ Follows(v, x.next))
         /\ x.next # None =>
              \A v \in Visits, i \in DOMAIN items :
                Follows(v, x.next) => Later(v, items[i])
<1> DEFINE a == x.items
           b == x.rows
           items == a \o b
           m == x.view.of
<1>1. a \in Seq(Visits) /\ b \in Seq(Visits) /\ x.since \subseteq Visits
  BY FetchFields
<1>2. /\ items \in Seq(Visits) /\ Range(items) = Range(a) \cup Range(b)
      /\ Len(items) = Len(a) + Len(b)
      /\ \A i \in 1..Len(items) :
           items[i] = IF i <= Len(a) THEN a[i] ELSE b[i - Len(a)]
  <2> HIDE DEF a, b
  <2>1. /\ items \in Seq(Visits) /\ Len(items) = Len(a) + Len(b)
        /\ \A i \in 1..Len(a) + Len(b) :
             items[i] = IF i <= Len(a) THEN a[i] ELSE b[i - Len(a)]
    BY <1>1, ConcatProperties
  <2>2. Range(items) = Range(a) \cup Range(b)
    BY <1>1, RangeConcatenation
  <2> QED
    BY <2>1, <2>2
<1>3. /\ Len(a) \in Nat /\ DOMAIN a = 1..Len(a)
      /\ Len(b) \in Nat /\ DOMAIN b = 1..Len(b)
      /\ DOMAIN items = 1..Len(items)
  BY <1>1, <1>2, LenProperties
<1>4. /\ Ordered(a) /\ InMonth(a, m) /\ Ordered(b) /\ InMonth(b, m)
      /\ \A i \in DOMAIN b : b[i] \in Visits /\ Follows(b[i], x.cursor)
      /\ \A v \in Visits, i \in DOMAIN a :
           Follows(v, x.cursor) => Later(v, a[i])
  BY <1>1, <1>3, ElementOfSeq DEF SoFarOK, GoesOn
<1>5. ASSUME x.next # None, NEW v \in Visits, Follows(v, x.next)
      PROVE  Follows(v, x.cursor) /\ \A i \in DOMAIN b : Later(v, b[i])
  BY <1>5 DEF GoesOn
<1>6. ASSUME NEW v \in x.since, m \in MonthsOf[v]
      PROVE  v \in Range(items) \/ (x.next # None /\ Follows(v, x.next))
  BY <1>2, <1>6 DEF SoFarOK, GoesOn
<1> HIDE DEF items, a, b, m
<1>7. ASSUME NEW i \in DOMAIN items
      PROVE  \/ i \in DOMAIN a /\ items[i] = a[i]
             \/ i - Len(a) \in DOMAIN b /\ items[i] = b[i - Len(a)] /\ i > Len(a)
  BY <1>2, <1>3
<1>8. Ordered(items)
  <2> SUFFICES ASSUME NEW i \in DOMAIN items, NEW j \in DOMAIN items, i < j
               PROVE  Later(items[j], items[i])
    BY DEF Ordered
  <2>1. i \in Nat /\ j \in Nat
    BY <1>2, <1>3
  <2>2. CASE j \in DOMAIN a /\ items[j] = a[j]
    <3>1. i \in DOMAIN a /\ items[i] = a[i]
      BY <1>3, <1>7, <2>1, <2>2
    <3> QED
      BY <1>4, <2>2, <3>1 DEF Ordered
  <2>3. CASE j - Len(a) \in DOMAIN b /\ items[j] = b[j - Len(a)]
    <3>1. CASE i \in DOMAIN a /\ items[i] = a[i]
      BY <1>4, <2>3, <3>1
    <3>2. CASE i - Len(a) \in DOMAIN b /\ items[i] = b[i - Len(a)]
      <4>1. i - Len(a) < j - Len(a)
        BY <1>3, <2>1
      <4> HIDE DEF Later
      <4> QED
        BY <1>4, <2>3, <3>2, <4>1 DEF Ordered
    <3> QED
      BY <1>7, <3>1, <3>2
  <2> QED
    BY <1>7, <2>2, <2>3
<1>9. InMonth(items, m)
  BY <1>4, <1>7 DEF InMonth
<1>10. ASSUME x.next # None, NEW v \in Visits, NEW i \in DOMAIN items,
              Follows(v, x.next)
       PROVE  Later(v, items[i])
  <2>1. Follows(v, x.cursor) /\ \A j \in DOMAIN b : Later(v, b[j])
    BY <1>5, <1>10
  <2>2. CASE i \in DOMAIN a /\ items[i] = a[i]
    BY <1>4, <2>1, <2>2
  <2>3. CASE i - Len(a) \in DOMAIN b /\ items[i] = b[i - Len(a)]
    BY <2>1, <2>3
  <2> QED
    BY <1>7, <2>2, <2>3
<1> QED
  BY <1>2, <1>6, <1>8, <1>9, <1>10 DEF items, a, b, m

\* The calendar is asked for its next page instead of x.
GoingOn(x, items, seen, token) ==
  [x EXCEPT !.items = items, !.seen = seen, !.cursor = x.next, !.token = token,
            !.phase = "SENT", !.answer = None, !.rows = <<>>, !.next = None]

LEMMA GoingOnOK ==
  ASSUME NEW x \in Fetch, NEW items \in Seq(Visits), NEW seen \in SUBSET Cursor,
         NEW token \in Nat
  PROVE  LET y == GoingOn(x, items, seen, token) IN
         /\ y \in Fetch
         /\ y.tab = x.tab /\ y.view = x.view /\ y.step = x.step
         /\ y.cursor = x.next /\ y.fresh = x.fresh /\ y.attached = x.attached
         /\ y.items = items /\ y.since = x.since
         /\ y.phase = "SENT" /\ y.answer = None
<1>1. x.next \in Cursor \cup {None} /\ <<>> \in Seq(Visits)
      /\ "SENT" \in Phases /\ None \in Replies
  BY FetchFields, EmptySeq DEF Phases, Replies
<1>2. GoingOn(x, items, seen, token) \in Fetch
  BY <1>1, Zenon DEF GoingOn, Fetch, Phases, Replies
<1> QED
  BY <1>2 DEF GoingOn, Fetch

\* A fetch takes the place of another one, for the same view.
LEMMA InsteadOK ==
  ASSUME NEW t, NEW c, NEW f, Good(f), NEW k \in DOMAIN f,
         NEW p, TabOK(t, c, p, f), NEW x, x = f[k],
         NEW y \in Fetch, FetchOK(y, visits),
         y.tab = x.tab, y.view = x.view, x.view.name # "LIST",
         y.fresh = x.fresh, y.attached = x.attached
  PROVE  TabOK(t, c, p, Sent(Without(f, k), y))
<1> DEFINE g == Without(f, k)
           n == Number(g)
           h == Sent(g, y)
<1>1. /\ Good(g) /\ DOMAIN g = DOMAIN f \ {k}
      /\ \A j \in DOMAIN f \ {k} : g[j] = f[j]
  BY WithoutMeans
<1> HIDE DEF g
<1>2. /\ n \notin DOMAIN g /\ DOMAIN h = DOMAIN g \cup {n} /\ h[n] = y
      /\ \A j \in DOMAIN g : h[j] = g[j]
  BY <1>1, SentMeans
<1> HIDE DEF n, h
<1>3. \A j \in DOMAIN h : j = n \/ (j \in DOMAIN f \ {k} /\ h[j] = f[j])
  BY <1>1, <1>2
<1>4. VersionOK(t, c, p, h)
  BY <1>2, <1>3 DEF TabOK, VersionOK, Versioned
<1>5. ListOK(t, c, p, h)
  BY <1>2, <1>3 DEF TabOK, ListOK
<1>6. ASSUME NEW j \in DOMAIN f, Replaces(t, p, f[j])
      PROVE  \E i \in DOMAIN h : Replaces(t, p, h[i])
  <2>1. CASE j = k
    BY <1>2, <1>6, <2>1 DEF Replaces
  <2>2. CASE j # k
    BY <1>1, <1>2, <1>6, <2>2
  <2> QED
    BY <2>1, <2>2
<1>7. AwaitOK(t, c, p, h)
  BY <1>6 DEF TabOK, AwaitOK
<1> QED
  BY <1>4, <1>5, <1>7 DEF TabOK, g, h

LEMMA AskMoreOK ==
  ASSUME PageInv, SessionInv', NEW k \in DOMAIN fetches, AskMore(k)
  PROVE  PageInv'
<1> DEFINE x == fetches[k]
           t == x.tab
           c == screen[t]
           p == pages[t]
           g == Without(fetches, k)
           items == x.items \o x.rows
           y == GoingOn(x, items, x.seen \cup {x.next}, cookie)
           r == [p |-> p, f |-> Sent(g, y)]
<1>1. /\ x \in Fetch /\ FetchOK(x, visits) /\ t \in Viewers /\ Good(fetches)
      /\ p \in Page /\ TabOK(t, c, p, fetches) /\ cookie \in Nat
  BY FetchNow, TabNow, GoodNow
<1>2. /\ x.view.name = "CALENDAR" /\ x.step = "READ" /\ x.answer = "OK"
      /\ x.next # None
      /\ UNCHANGED <<sessionVars, pages, visits>>
      /\ fetches' = Sent(g, [x EXCEPT !.items = @ \o x.rows,
           !.seen = @ \cup {x.next}, !.cursor = x.next, !.token = cookie,
           !.phase = "SENT", !.answer = None, !.rows = <<>>, !.next = None])
  BY DEF AskMore, Comes
<1>3. fetches' = Sent(g, y)
  BY <1>2 DEF GoingOn
<1>4. Becomes(t, r)
  BY <1>1, <1>2, <1>3 DEF Becomes, PageInv, PageTypes
<1> HIDE DEF p, c, g
<1>5. SoFarOK(x, visits) /\ GoesOn(x)
  BY <1>1, <1>2 DEF FetchOK
<1>6. x.seen \cup {x.next} \in SUBSET Cursor
  BY <1>1, <1>2, FetchFields
<1> HIDE DEF x
<1>7. /\ items \in Seq(Visits) /\ Ordered(items) /\ InMonth(items, x.view.of)
      /\ \A v \in x.since : x.view.of \in MonthsOf[v] =>
           v \in Range(items) \/ Follows(v, x.next)
      /\ \A v \in Visits, i \in DOMAIN items :
           Follows(v, x.next) => Later(v, items[i])
  BY <1>1, <1>2, <1>5, JoinOK
<1> HIDE DEF items
<1>8. /\ y \in Fetch /\ y.tab = x.tab /\ y.view = x.view /\ y.step = x.step
      /\ y.cursor = x.next /\ y.fresh = x.fresh /\ y.attached = x.attached
      /\ y.items = items /\ y.since = x.since
      /\ y.phase = "SENT" /\ y.answer = None
  BY <1>1, <1>6, <1>7, GoingOnOK
<1> HIDE DEF y
<1>9. SoFarOK(y, visits)
  BY <1>2, <1>5, <1>7, <1>8 DEF SoFarOK, GoesOn
<1>10. FetchOK(y, visits)
  BY <1>2, <1>8, <1>9, NoneMeans DEF FetchOK
<1>11. /\ Good(g) /\ KeepsOthers(t, fetches, g)
       /\ Good(Sent(g, y)) /\ KeepsOthers(t, g, Sent(g, y))
  <2>1. Good(g) /\ KeepsOthers(t, fetches, g)
    BY <1>1, WithoutMeans DEF g, x
  <2> QED
    BY <1>8, <1>10, <2>1, SentMeans
<1>12. TabOK(t, c, p, Sent(g, y))
  <2>1. x = fetches[k]
    BY DEF x
  <2> QED
    BY <1>1, <1>2, <1>8, <1>10, <2>1, InsteadOK DEF g
<1>13. KeepsOthers(t, fetches, Sent(g, y))
  BY <1>11, KeepsBoth
<1>14. r.p = p /\ r.f = Sent(g, y)
  OBVIOUS
<1>15. screen' = screen /\ visits' = visits
  BY <1>2 DEF sessionVars
<1> HIDE DEF r, t
<1> QED
  BY <1>1, <1>4, <1>11, <1>12, <1>13, <1>14, <1>15, BecomesOK DEF c

LEMMA TakeVisitsOK ==
  ASSUME PageInv, SessionInv', NEW k \in DOMAIN fetches, TakeVisits(k)
  PROVE  PageInv'
<1> DEFINE x == fetches[k]
           t == x.tab
           c == screen[t]
           p == pages[t]
           g == Without(fetches, k)
           items == x.items \o x.rows
           done == x.answer = "OK" /\ x.next = None
           silent == ~Heeds(x) \/ (done /\ p.hash # "CALENDAR")
<1>1. /\ x \in Fetch /\ FetchOK(x, visits) /\ t \in Viewers /\ Good(fetches)
      /\ p \in Page /\ TabOK(t, c, p, fetches)
  BY FetchNow, TabNow, GoodNow
<1>2. /\ x.view.name = "CALENDAR" /\ x.step = "READ"
      /\ UNCHANGED <<sessionVars, visits>>
      /\ Leaves(k, IF silent THEN p
                   ELSE IF done
                   THEN [p EXCEPT !.shown.status = "DATA",
                                  !.shown.items = items,
                                  !.shown.since = x.since]
                   ELSE [p EXCEPT !.shown.status = "ERROR"])
  BY DEF TakeVisits, Comes
<1>3. Heeds(x) <=> x.fresh /\ c = "SHELL" /\ p.shown.view.name = "CALENDAR"
  BY <1>2 DEF Heeds, InPage
<1>4. x.fresh => /\ x.view = p.asked
                 /\ p.event \/ p.hash = "CALENDAR"
  BY <1>1, <1>2, VersionedMeans
<1>5. ASSUME NEW q, SetLike(p, q), Leaves(k, q), TabOK(t, c, q, g)
      PROVE  PageInv'
  BY <1>2, <1>5, LeavesOK DEF SetLike
<1>6. p.shown \in Shown
  BY <1>1, PageFields
<1>7. CASE silent
  <2>1. Leaves(k, p)
    BY <1>2, <1>7
  <2>2. ~Misses(t, c, p, x)
    BY <1>2, <1>3, <1>4, <1>7 DEF Misses, Replaces
  <2> HIDE DEF p, c
  <2>3. SetLike(p, p)
    BY <1>1 DEF SetLike
  <2>4. TabOK(t, c, p, g)
    BY <1>1, <2>2, <2>3, LeftOK
  <2> QED
    BY <1>5, <2>1, <2>3, <2>4
<1>8. ASSUME ~silent, NEW s \in Shown, s.view = p.shown.view,
             s.status \in {"DATA", "ERROR"},
             Leaves(k, [p EXCEPT !.shown = s]),
             s.status = "DATA" =>
               /\ {v \in s.since : x.view.of \in MonthsOf[v]}
                    \subseteq Range(s.items)
               /\ Ordered(s.items) /\ InMonth(s.items, x.view.of)
      PROVE  PageInv'
  <2> DEFINE q == [p EXCEPT !.shown = s]
  <2>1. p.shown.view = p.asked /\ p.shown.view.of = p.month
    BY <1>1, <1>3, <1>8 DEF TabOK, ShownOK
  <2>2. s.view = x.view
    BY <1>3, <1>4, <1>8, <2>1
  <2>3. Leaves(k, q)
    BY <1>8
  <2> HIDE DEF p, c
  <2>4. SetLike(p, q) /\ q.shown = s
    BY <1>1, <1>8, RedrawsOK
  <2> HIDE DEF q
  <2>5. ShownOK(c, q)
    BY <1>2, <1>8, <2>1, <2>2, <2>4 DEF ShownOK, SetLike
  <2>6. DrawnOK(q)
    BY <1>2, <1>8, <2>2, <2>4 DEF DrawnOK
  <2>7. TabOK(t, c, q, g)
    BY <1>1, <1>2, <1>8, <2>2, <2>4, <2>5, <2>6, RedrawnOK
  <2> QED
    BY <1>5, <2>3, <2>4, <2>7
<1>9. CASE ~silent /\ done
  <2> DEFINE s == WithVisits(p.shown, items, x.since)
  <2>1. SoFarOK(x, visits) /\ GoesOn(x)
    BY <1>1, <1>2, <1>9 DEF FetchOK
  <2>2. /\ items \in Seq(Visits) /\ Ordered(items) /\ InMonth(items, x.view.of)
        /\ \A v \in x.since : x.view.of \in MonthsOf[v] => v \in Range(items)
    <3> HIDE DEF x
    <3> QED
      BY <1>1, <1>9, <2>1, JoinOK
  <2>3. x.since \in SUBSET Visits
    BY <1>1, FetchFields
  <2>4. [p EXCEPT !.shown.status = "DATA", !.shown.items = items,
                  !.shown.since = x.since] = [p EXCEPT !.shown = s]
    BY <1>1 DEF WithVisits, Page
  <2>5. Leaves(k, [p EXCEPT !.shown = s])
    BY <1>2, <1>9, <2>4
  <2> HIDE DEF items, p
  <2>6. /\ s \in Shown /\ s.view = p.shown.view /\ s.status = "DATA"
        /\ s.items = items /\ s.since = x.since
    BY <1>6, <2>2, <2>3, WithVisitsOK
  <2> HIDE DEF s, x
  <2> QED
    BY <1>8, <1>9, <2>2, <2>5, <2>6
<1>10. CASE ~silent /\ ~done
  <2> DEFINE s == WithStatus(p.shown, "ERROR")
  <2>1. [p EXCEPT !.shown.status = "ERROR"] = [p EXCEPT !.shown = s]
    BY <1>1 DEF WithStatus, Page
  <2>2. Leaves(k, [p EXCEPT !.shown = s])
    BY <1>2, <1>10, <2>1
  <2>3. s \in Shown /\ s.view = p.shown.view /\ s.status = "ERROR"
    BY <1>6, WithStatusOK
  <2> HIDE DEF s, p
  <2> QED
    BY <1>8, <1>10, <2>2, <2>3
<1> QED
  BY <1>7, <1>9, <1>10

-----------------------------------------------------------------------------
(* The theorems.                                                            *)

LEMMA PageInitOK == PageInit => PageInv
<1> SUFFICES ASSUME PageInit PROVE PageInv
  OBVIOUS
<1>1. SessionInv
  BY InitOK DEF PageInit
<1>2. PICK hash \in {"INQUIRIES", "CALENDAR"} :
        pages = [t \in Viewers |-> NewPage(hash)]
  BY DEF PageInit
<1>3. DOMAIN fetches = {} /\ fetches \in [{} -> Fetch] /\ visits = {}
  BY DEF PageInit
<1>4. PageTypes
  BY <1>2, <1>3, NewPageOK, FS_EmptySet DEF PageTypes
<1>5. ASSUME NEW t \in Viewers PROVE TabOK(t, screen[t], pages[t], fetches)
  <2>1. screen[t] = "CLOSED"
    BY PageAssumption DEF PageInit, Init
  <2>2. pages[t].shown.status = "LOADING"
    BY <1>2, NewPageOK
  <2> QED
    BY <1>3, <2>1, <2>2
    DEF TabOK, ShownOK, HashOK, VersionOK, ListOK, AwaitOK, DrawnOK
<1> QED
  BY <1>1, <1>3, <1>4, <1>5 DEF PageInv

LEMMA PersonStepOK ==
  ASSUME PageInv, SessionInv', Person PROVE PageInv'
BY FollowLinkOK, HashChangedOK, BackOK, NextPageOK, OpenInquiryOK,
   ChangeFilterOK, ChangeMonthOK, OpenVisitOK, PlanVisitOK DEF Person

LEMMA FetchStepOK ==
  ASSUME PageInv, SessionInv', NEW k \in DOMAIN fetches, Reads(k) \/ Takes(k)
  PROVE  PageInv'
<1>1. CASE Reads(k)
  BY <1>1, CheckOK, AnswerOK, FailOK DEF Reads
<1>2. CASE Takes(k)
  BY <1>2, TakeRefusalOK, TakeListOK, TakeInquiryOK, TakeVisitOK, TakeZoneOK,
     AskMoreOK, TakeVisitsOK DEF Takes
<1> QED
  BY <1>1, <1>2

LEMMA PageStaysOK == PageInv /\ [PageNext]_vars => PageInv'
<1> SUFFICES ASSUME PageInv, [PageNext]_vars PROVE PageInv'
  OBVIOUS
<1>1. SessionInv'
  BY PageStepOK DEF PageInv
<1>2. CASE Person
  BY <1>1, <1>2, PersonStepOK
<1>3. ASSUME NEW k \in DOMAIN fetches, Reads(k) \/ Takes(k) PROVE PageInv'
  BY <1>1, <1>3, FetchStepOK
<1>4. ASSUME NEW t \in Tabs, PageLoad(t) PROVE PageInv'
  BY <1>1, <1>4, PageLoadOK
<1>5. ASSUME NEW r \in Slots, PageDeliver(r) \/ PageLose(r) PROVE PageInv'
  BY <1>1, <1>5, AnsweredOK
<1>6. CASE Sessions /\ UNCHANGED pageVars
  BY <1>1, <1>6, SessionStepOK
<1>7. CASE UNCHANGED vars
  BY <1>1, <1>7, QuietOK DEF vars, sessionVars
<1> QED
  BY <1>2, <1>3, <1>4, <1>5, <1>6, <1>7 DEF PageNext

\* Whatever happens, the inductive invariant of the page holds: a tab shows
\* what was asked for, at most one answer of the present version of the views
\* is on its way to it, and it is for that view (viewVersion and inquiryRequest
\* of app.js); and the pages of a month that were read so far leave nothing out
\* (admin_visits.py).
THEOREM PageStays == PageSpec => []PageInv
BY PageInitOK, PageStaysOK, PTL DEF PageSpec

\* Every variable of the page and of its fetches keeps its type; a fetch has
\* an answer when it is answered, and only then (fetchJson of app.js).
THEOREM PageTypesStay == PageSpec => []PageTypeOK
<1>1. PageInv => PageTypeOK
  BY DEF PageInv, SessionInv, PageTypes, FetchOK, PageTypeOK
<1> QED
  BY <1>1, PageStays, PTL

\* However late and in whatever order the answers come, what a tab shows is
\* what the owner asked for last, under the filters, the cursor and the month
\* that are set, or the detail of an inquiry, the one view that compares
\* nothing (loadInquiries, showInquiryDetail, showCalendar, showVisitDetail).
THEOREM ShownIsWhatWasAsked == PageSpec => []ShownIsAsked
<1>1. PageInv => ShownIsAsked
  BY DEF PageInv, TabOK, ShownOK, ShownIsAsked
<1> QED
  BY <1>1, PageStays, PTL

\* No view loads for ever without an answer on its way that ends the loading
\* or a change of the hash to come, but for the list under the hash of the
\* calendar (the same functions, and route of app.js).
THEOREM LoadingIsEnded == PageSpec => []LoadingIsAwaited
<1>1. ASSUME PageInv PROVE LoadingIsAwaited
  <2> SUFFICES ASSUME NEW t \in Viewers, Loading(t), ~pages[t].event,
                      ~(/\ pages[t].shown.view.name = "LIST"
                        /\ pages[t].hash = "CALENDAR")
               PROVE  Awaited(t)
    BY DEF LoadingIsAwaited, Awaited
  <2>1. PICK k \in DOMAIN fetches : Replaces(t, pages[t], fetches[k])
    BY <1>1 DEF PageInv, TabOK, AwaitOK, Loading
  <2> DEFINE x == fetches[k]
  <2>2. /\ x.tab = t /\ x.view = pages[t].shown.view
        /\ x.view.name = "INQUIRY" => x.attached
        /\ x.view.name # "INQUIRY" => x.fresh
    BY <2>1 DEF Replaces
  <2>3. x.view.name \in {"LIST", "INQUIRY", "CALENDAR", "VISIT"}
    BY <1>1, FetchNow, FetchFields
  <2>4. Heeds(x)
    BY <2>2, <2>3 DEF Heeds, HeedsList, InPage, Loading
  <2> QED
    BY <2>2, <2>4 DEF Awaited
<1> QED
  BY <1>1, PageStays, PTL

\* A month that is drawn holds, once and in order, every visit that overlaps
\* it and was planned when its first page was asked for, although visits are
\* planned while it is read page by page (AdminVisitReader.list, visitPages).
THEOREM CalendarsAreComplete == PageSpec => []CalendarIsComplete
<1>1. PageInv => CalendarIsComplete
  BY DEF PageInv, TabOK, DrawnOK, Ordered, InMonth, CalendarIsComplete
<1> QED
  BY <1>1, PageStays, PTL

\* A page of the list is drawn only if its cursor was made for the filters that
\* are set, although the button of the next page outlives their change
\* (AdminInquiryReader.list, loadInquiries).
THEOREM ListsFitFilters == PageSpec => []ListFitsFilters
<1>1. PageInv => ListFitsFilters
  BY DEF PageInv, TabOK, DrawnOK, Fits, ListFitsFilters
<1> QED
  BY <1>1, PageStays, PTL
=============================================================================
