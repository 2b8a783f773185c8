---------------------------- MODULE MCLogStorage ----------------------------
(* LogStorage for TLC: the limits of a program, whose files there are besides  *)
(* its own, and where the file clock may count from.                         *)
EXTENDS StorageInvariant

Given     == {<<2, 3>>, <<0, 2>>}   \* room for a file and a block; not even for a file
GivenBoth == {<<2, 3>>}

Older   == {<<-1, 0>>}  \* a file of a process with a lesser number
Nobody  == {}

Undated == {0}          \* found files are older than the process
AheadBy == {MaxClock}   \* ... or the clock was set back

EpochAhead == MaxClock + 1      \* libstdc++: the year 2174, every count is negative
EpochBehind == -MaxClock        \* libc++, MSVC, ghc: 1970 or 1601, long before any scan
==============================================================================
