--------------------------- MODULE MCTaskPipeline ---------------------------
(* An instance of TaskPipeline for TLC: build depends on base; the local    *)
(* experiment writes to the scope of base.                                  *)
EXTENDS TaskPipeline, TLC

CONSTANTS base, build, trial

MCDependsOn == [t \in Tasks |-> IF t = build THEN {base} ELSE {}]
MCOverlaps == [t \in Tasks |-> CASE t = base -> {trial} \cap Tasks
                                 [] t = trial -> {base}
                                 [] OTHER -> {}]
MCRetryLimit == [t \in Tasks |-> 0]
=============================================================================
