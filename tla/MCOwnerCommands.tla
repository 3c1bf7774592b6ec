--------------------------- MODULE MCOwnerCommands ---------------------------
(* Instances of OwnerCommands for TLC. *)
EXTENDS OwnerCommands, TLC

CONSTANTS i1, i2, v1, v2, ride, walk

Ride(duration) == [service |-> ride, duration |-> duration]

\* Both inquiries agreed on a ride, the first one on its duration too.
MCAgreed == [i \in Inquiries |-> Ride(IF i = i1 THEN 1 ELSE None)]

OnePlan == {Ride(None)}
ManyPlans == {Ride(1), Ride(2), [service |-> walk, duration |-> None]}

Symmetry ==
  Permutations(Keys) \cup Permutations(Slots) \cup Permutations(Visits)

\* Also of the inquiries, where all of them agreed on the same terms.
SameTerms == [i \in Inquiries |-> Ride(None)]
GroupSymmetry == Symmetry \cup Permutations(Inquiries)
=============================================================================
