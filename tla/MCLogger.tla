------------------------------ MODULE MCLogger ------------------------------
(* Logger for TLC: writers are interchangeable. *)
EXTENDS LoggerInvariant, TLC

AnyTarget == Permutations(Targets)
==============================================================================
