------------------------------- MODULE MCFront -------------------------------
(***************************************************************************)
(* The front: how it is started and stopped, one of its sockets with its   *)
(* reader, writer and sender, or two sockets over the topics of a relay.   *)
(*                                                                         *)
(* One socket: four frames over a queue of two frames and of four bytes,   *)
(* so that the frame bound and the byte bound are each met with the other  *)
(* to spare.  The relay: two sockets over two topics, one of them shared.  *)
(* The start: each setting that is read in more than one place, two        *)
(* requests in flight and an operator with two gestures.                   *)
(***************************************************************************)
EXTENDS WsSocket, WsRelay, Launch, TLC

CONSTANTS c1, c2, room, news

VARIABLE part     \* which of the three moves

MCSize == (1 :> 1) @@ (2 :> 1) @@ (3 :> 2) @@ (4 :> 3)
MCAsked == (c1 :> {room}) @@ (c2 :> {room, news})

\* What borgo start is given.
Usual == [node |-> "production", pool |-> "16384", port |-> UnsetText, key |-> UnsetText,
          frontOnly |-> FALSE, tree |-> "fresh", binary |-> TRUE, headers |-> UnsetText,
          csp |-> UnsetText, csrf |-> UnsetText, maxBody |-> UnsetText]
MCLaunches ==
    {Usual, [Usual EXCEPT !.node = " ", !.key = "short"], [Usual EXCEPT !.pool = "", !.port = "p1"],
     [Usual EXCEPT !.port = "p9", !.key = "long"], [Usual EXCEPT !.port = "0"],
     [Usual EXCEPT !.port = "70000"], [Usual EXCEPT !.frontOnly = TRUE],
     [Usual EXCEPT !.tree = "broken", !.node = UnsetText], [Usual EXCEPT !.binary = FALSE],
     [Usual EXCEPT !.headers = "false", !.csp = "own", !.csrf = "true", !.maxBody = "0"],
     [Usual EXCEPT !.headers = "no", !.key = "long"], [Usual EXCEPT !.csp = "false;"],
     [Usual EXCEPT !.csp = "torn"], [Usual EXCEPT !.csp = "false", !.csrf = "0"],
     [Usual EXCEPT !.csrf = "\r"], [Usual EXCEPT !.maxBody = "0.5"], [Usual EXCEPT !.maxBody = "100"]}

FrontInit ==
    /\ part \in {"socket", "relay", "start"}
    /\ SocketInit /\ RelayInit
    /\ part # "socket" => ending = "open"    \* a part that stands still: in one state
    /\ LaunchInit
    /\ part # "start" => launch = Usual

FrontNext ==
    /\ \/ part = "socket" /\ SocketNext /\ UNCHANGED <<relayVars, launchVars>>
       \/ part = "relay"  /\ RelayNext  /\ UNCHANGED <<socketVars, launchVars>>
       \/ part = "start"  /\ LaunchNext /\ UNCHANGED <<socketVars, relayVars>>
    /\ UNCHANGED part

FrontSpec == FrontInit /\ [][FrontNext]_<<part, socketVars, relayVars, launchVars>>
=============================================================================
