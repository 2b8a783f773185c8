--------------------------- MODULE MCLogFileWriter ---------------------------
(***************************************************************************)
(* Instances of the file writer for TLC: Writer and WriterLive check what  *)
(* holds, StopTail and StopHang what Stop does to a buffer that is not     *)
(* empty.                                                                  *)
(***************************************************************************)
EXTENDS WriterInvariant, TLC

\* The threads that log are interchangeable; used by runs without liveness.
AnyProducer == Permutations(Producers)
==============================================================================
