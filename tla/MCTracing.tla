------------------------------ MODULE MCTracing ------------------------------
(* The pace of the calls: within a window, and beyond its end. *)
EXTENDS TracingInvariant

ShortOrLong == {1, 2, 4}
OneOrTwo     == {1, 2}
==============================================================================
