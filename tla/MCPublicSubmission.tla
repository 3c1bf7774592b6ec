------------------------- MODULE MCPublicSubmission -------------------------
(* Instances of PublicSubmission for TLC. *)
EXTENDS PublicSubmission, TLC

Symmetry == Permutations(Tokens \ {Forged}) \cup Permutations(Keys)
            \cup Permutations(Payloads) \cup Permutations(Calls)
            \cup Permutations(Ids)
=============================================================================
