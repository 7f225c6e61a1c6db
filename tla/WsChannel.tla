------------------------------ MODULE WsChannel ------------------------------
(***************************************************************************)
(* What a websocket promises the relay that sends on it: frames come out   *)
(* in the order they went in and none is skipped, what is accepted and not *)
(* yet out is bounded, and a socket that cannot keep that ends.  Frames    *)
(* are numbered in the order they are offered.  WsSocket implements this   *)
(* module.                                                                 *)
(***************************************************************************)
EXTENDS Naturals, Sequences

CONSTANTS
  Limit         (* frames accepted and not yet written                      *)

VARIABLES
  accepted,     (* how many frames were taken                               *)
  delivered,    (* the frames the peer was sent                             *)
  over          (* the socket has ended: nothing more is taken              *)

vars == <<accepted, delivered, over>>

Init ==
  /\ accepted = 0
  /\ delivered = <<>>
  /\ over \in BOOLEAN

\* the socket may end on it
Accept ==
  /\ ~over
  /\ accepted - Len(delivered) < Limit
  /\ accepted' = accepted + 1
  /\ over' \in BOOLEAN
  /\ UNCHANGED delivered

\* the next one, never a later one
Deliver ==
  /\ Len(delivered) < accepted
  /\ delivered' = Append(delivered, Len(delivered) + 1)
  /\ UNCHANGED <<accepted, over>>

End ==
  /\ over' = TRUE
  /\ UNCHANGED <<accepted, delivered>>

Next == Accept \/ Deliver \/ End

Spec == Init /\ [][Next]_vars
=============================================================================
