---------------------------- MODULE MCOwnerPage ----------------------------
(* Instances of OwnerPage for TLC. *)
EXTENDS OwnerPage, TLC

CONSTANTS tab1, tab2, tab3

\* A scenario; acts that are not named do not happen.
Script(tabs, signedIn, acts) ==
  [tabs |-> tabs, signedIn |-> signedIn,
   may |-> [act \in Acts |-> IF act \in DOMAIN acts THEN acts[act] ELSE 0]]

\* Two tabs that share the cookie, without views.
SignOuts == Script({tab1, tab2}, TRUE, [loads |-> 3, signIns |-> 1, signOuts |-> 2])

\* One tab from provisioning on: credentials, lifetimes, failures.
Accounts == Script({tab1}, FALSE,
  [loads |-> 1, signIns |-> 2, commands |-> 1, changes |-> 1, disables |-> 1,
   expiries |-> 1, failures |-> 1])

\* The views of one tab, with an answer that fails and one visit to open.
Wander == Script({tab3}, TRUE,
  [loads |-> 1, moves |-> 3, failures |-> 1, plans |-> 1])

\* The views again, more of them, when nothing fails.
Far == Script({tab3}, TRUE, [loads |-> 1, moves |-> 5])

\* A month is read page by page while visits are planned.
Planning == Script({tab3}, TRUE, [loads |-> 1, moves |-> 1, plans |-> 3])

\* The session ends while answers are on their way, and the owner comes back.
Return == Script({tab3}, TRUE,
  [loads |-> 1, moves |-> 2, expiries |-> 1, signOuts |-> 1, signIns |-> 1])

OnlyFar == {Far}
AllScenarios == {SignOuts, Accounts, Wander, Far, Planning, Return}

\* Three visits, two of which start together, the last one over two months.
MCStartOf == [v \in Visits |-> IF v = 3 THEN 2 ELSE 1]
MCMonthsOf == [v \in Visits |-> IF v = 3 THEN {1, 2} ELSE {1}]
=============================================================================
