-------------------------- MODULE MCTelegramDialog --------------------------
(* Instances of TelegramDialog for TLC. *)
EXTENDS TelegramDialog, TLC

MCMarkers == Update

Symmetry == Permutations(Events) \cup Permutations(Options)
            \cup Permutations(Workers)
=============================================================================
