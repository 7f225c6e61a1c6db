----------------------------- MODULE SharedPages -----------------------------
(***************************************************************************)
(* What the cached pages promise, without a cache, a render or a lock: a   *)
(* request is answered with a render of its own or with a shared one, and  *)
(* a shared one shows data no older than the latest invalidation of its    *)
(* key that had landed when the request arrived, and no newer than the     *)
(* data is now.  Several requests may be answered at once, by one render.  *)
(* Isr implements this module.                                             *)
(***************************************************************************)
EXTENDS Naturals

CONSTANTS
  Keys,         (* the pages                                                *)
  Requests,     (* the requests being handled                               *)
  Own,          (* a render for this request alone                          *)
  MaxVersion    (* bound on the writes to the data of a key                 *)

VARIABLES
  ver,          (* the version of the data behind each key                  *)
  floor,        (* the version at the key's latest invalidation             *)
  req           (* the requests: [waiting, key, min, got]                   *)

vars == <<ver, floor, req>>

Init ==
  /\ ver = [k \in Keys |-> 0]
  /\ floor = [k \in Keys |-> 0]
  /\ \E k \in Keys :
       req = [r \in Requests |->
                [waiting |-> FALSE, key |-> k, min |-> 0, got |-> Own]]

Write(k) ==
  /\ ver[k] < MaxVersion
  /\ ver' = [ver EXCEPT ![k] = @ + 1]
  /\ UNCHANGED <<floor, req>>

\* Revalidate and RevalidateTag: any set of pages at once
Invalidate(named) ==
  /\ floor' = [k \in Keys |-> IF k \in named THEN ver[k] ELSE floor[k]]
  /\ UNCHANGED <<ver, req>>

\* what a request that arrived at a key above min may be given
Shareable(k, min) == {Own} \cup (min .. ver[k])

Ask(r, k) ==
  /\ ~req[r].waiting
  /\ req' = [req EXCEPT ![r] =
               [waiting |-> TRUE, key |-> k, min |-> floor[k], got |-> Own]]
  /\ UNCHANGED <<ver, floor>>

AskAndAnswer(r, k) ==
  /\ ~req[r].waiting
  /\ \E got \in Shareable(k, floor[k]) :
       req' = [req EXCEPT ![r] =
                 [waiting |-> FALSE, key |-> k, min |-> floor[k], got |-> got]]
  /\ UNCHANGED <<ver, floor>>

\* one outcome, for some of the requests that wait for one page
AnswerTogether(answered, k, got) ==
  /\ \A r \in answered :
       /\ req[r].waiting /\ req[r].key = k
       /\ got \in Shareable(k, req[r].min)
  /\ req' = [r \in Requests |->
               IF r \in answered
               THEN [waiting |-> FALSE, key |-> k, min |-> req[r].min, got |-> got]
               ELSE req[r]]
  /\ UNCHANGED <<ver, floor>>

Next ==
  \/ \E k \in Keys : Write(k)
  \/ \E named \in SUBSET Keys : Invalidate(named)
  \/ \E r \in Requests, k \in Keys : Ask(r, k) \/ AskAndAnswer(r, k)
  \/ \E answered \in SUBSET Requests, k \in Keys :
       \E got \in {Own} \cup (0 .. MaxVersion) :
         AnswerTogether(answered, k, got)

Spec == Init /\ [][Next]_vars
=============================================================================
