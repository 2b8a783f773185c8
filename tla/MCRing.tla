------------------------------- MODULE MCRing -------------------------------
(***************************************************************************)
(* Instances of the ring for TLC: RingMany (two writers, messages up to    *)
(* the whole ring, an odd capacity that makes them wrap) and RingOverrun   *)
(* (what two writers do to accepted bytes).                                *)
(***************************************************************************)
EXTENDS RingInvariant
==============================================================================
