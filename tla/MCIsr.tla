-------------------------------- MODULE MCIsr --------------------------------
(***************************************************************************)
(* Two pages of one tag over a capacity of one, so that a store evicts the *)
(* other page's copy and a refusal the other's refusal.  One page ages, the *)
(* other is "manual".  Two requests and two renders: a doomed render and   *)
(* the one that replaces it run at once.                                   *)
(***************************************************************************)
EXTENDS Isr, TLC

CONSTANTS home, news, feed, exact, r1, r2, f1, f2

MCTagsOf == (home :> {}) @@ (news :> {feed})
MCNames == exact :> {home}
Symmetry == Permutations(Requests) \cup Permutations(Flights)
=============================================================================
