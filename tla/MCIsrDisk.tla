------------------------------ MODULE MCIsrDisk ------------------------------
(***************************************************************************)
(* Pages with their files, in a process that may end anywhere: two pages   *)
(* over a capacity of one, so that a store drops the other page and its    *)
(* pair, or one page with two renders, two saves and two drains at once.   *)
(***************************************************************************)
EXTENDS IsrDisk, TLC

CONSTANTS home, news, feed, exact, r1, f1, f2, s1, s2, d1, d2

MCTagsOf == [k \in Keys |-> IF k = home THEN {feed} ELSE {}]
MCNames == exact :> {home}
Symmetry ==
  Permutations(Flights) \cup Permutations(Saves) \cup Permutations(Drains)
=============================================================================
