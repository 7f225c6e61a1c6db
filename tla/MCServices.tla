------------------------------ MODULE MCServices ------------------------------
(***************************************************************************)
(* What flows out of the front and of the render service: an event stream  *)
(* under three writers and two goroutines that close it; a hub with two    *)
(* clients of two slots each, so that the third of three frames published  *)
(* at once is skipped; three calls for the policies across three boots of  *)
(* the render service; two compressed documents over a pool of one, each   *)
(* longer than what zlib and its queue hold together. And the LRU cache    *)
(* the front keeps: three keys over a capacity of two, so that a store     *)
(* evicts, two tags, a path that names one key and one that names two.     *)
(***************************************************************************)
EXTENDS SseStream, SseHub, PolicySource, DocumentPump, PageCacheSpec, TLC

CONSTANTS w1, w2, w3, x1, x2, c1, c2, q1, q2, q3, d1, d2, z1, z2, k1, k2, k3, exact, star

VARIABLE part     \* which of the five moves

MCNames == (exact :> {k1}) @@ (star :> {k1, k2})

serviceVars == <<streamVars, hubVars, policyVars, pumpVars>>

ServicesInit ==
    /\ StreamInit /\ HubInit /\ PolicyInit /\ PumpInit /\ Init
    /\ part \in {"stream", "hub", "policies", "documents", "cache"}
    /\ part # "stream" => watcher = "none"    \* a part that stands still: in one state

ServicesNext ==
    /\ \/ part = "stream"    /\ StreamNext /\ UNCHANGED <<hubVars, policyVars, pumpVars, vars>>
       \/ part = "hub"       /\ HubNext    /\ UNCHANGED <<streamVars, policyVars, pumpVars, vars>>
       \/ part = "policies"  /\ PolicyNext /\ UNCHANGED <<streamVars, hubVars, pumpVars, vars>>
       \/ part = "documents" /\ PumpNext   /\ UNCHANGED <<streamVars, hubVars, policyVars, vars>>
       \/ part = "cache"     /\ Next       /\ UNCHANGED serviceVars
    /\ UNCHANGED part

ServicesSpec == ServicesInit /\ [][ServicesNext]_<<part, serviceVars, vars>>

\* Nobody is left waiting: no watcher on a stream that closed, no handler of a
\* hub that closed, no caller on a fetch that failed, no pump on a client that
\* went.
NobodyIsLeftWaiting == WatchersLeave /\ HandlersUnwind /\ CallsReturn /\ PumpsEnd
=============================================================================
