------------------------------- MODULE WsRelay -------------------------------
(***************************************************************************)
(* The topic relay behind /ws (ws_relay.go, type wsRelay).  Sockets join   *)
(* their topics before they are served and leave them when they have       *)
(* ended; whatever is published to a topic goes to all its subscribers in  *)
(* one order; and the count of every topic that changed is sent once per   *)
(* window.  Each action is a critical section of the relay's mutex, or a   *)
(* step of one socket between two of them.                                 *)
(*                                                                         *)
(* A socket is the channel WsChannel describes: what it accepts reaches    *)
(* its peer in order, and a send that finds it full ends it.  Whether it   *)
(* is full is a choice here, and got is what it accepted.                  *)
(***************************************************************************)
EXTENDS Naturals, Sequences, FiniteSets

CONSTANTS
  Sockets,      (* the sockets a browser may open                           *)
  Topics,       (* the topics of the app                                    *)
  Asked,        (* the topics each handshake asks for                       *)
  MaxEvents     (* bound on the events published to a topic                 *)

ASSUME RelayAssumption ==
  /\ IsFiniteSet(Sockets)
  /\ Asked \in [Sockets -> SUBSET Topics]
  /\ \A c \in Sockets : Asked[c] # {}
  /\ MaxEvents \in Nat

VARIABLES
  handler,      (* where the handshake of each socket stands                *)
  served,       (* is the socket's own goroutine running, or over?          *)
  ended,        (* the sockets that have ended                              *)
  topics,       (* the subscribers of each topic                            *)
  changed,      (* topics whose count is to be sent                         *)
  counting,     (* a window is open                                         *)
  timers,       (* how many windows are really running                      *)
  log,          (* history: how many events were published to each topic    *)
  joinedAt,     (* history: that number when the socket joined              *)
  got,          (* history: the events of each topic the socket accepted    *)
  told          (* history: the last count of each topic it accepted        *)

relayVars == <<handler, served, ended, topics, changed, counting, timers, log,
          joinedAt, got, told>>

RelayInit ==
  /\ handler = [c \in Sockets |-> "out"]
  /\ served = [c \in Sockets |-> "no"]
  /\ ended = {}
  /\ topics = [t \in Topics |-> {}]
  /\ changed = {} /\ counting = FALSE /\ timers = 0
  /\ log = [t \in Topics |-> 0]
  /\ joinedAt = [c \in Sockets |-> [t \in Topics |-> 0]]
  /\ got = [c \in Sockets |-> [t \in Topics |-> <<>>]]
  /\ told = [c \in Sockets |-> [t \in Topics |-> 0]]

-----------------------------------------------------------------------------
(* The handshake: every topic is judged before the socket is taken.        *)

\* the origin and every topic passed, and the connection was hijacked
Upgrade(c) ==
  /\ handler[c] = "out"
  /\ handler' = [handler EXCEPT ![c] = "upgraded"]
  /\ UNCHANGED <<served, ended, topics, changed, counting, timers, log,
                 joinedAt, got, told>>

\* answered 4xx, or closed with 4403 before anything was joined
Refuse(c) ==
  /\ handler[c] = "out"
  /\ handler' = [handler EXCEPT ![c] = "over"]
  /\ UNCHANGED <<served, ended, topics, changed, counting, timers, log,
                 joinedAt, got, told>>

\* countSoon, after something changed: one window at a time
CountSoon ==
  /\ counting' = TRUE
  /\ timers' = IF counting THEN timers ELSE timers + 1

Join(c) ==
  /\ handler[c] = "upgraded"
  /\ handler' = [handler EXCEPT ![c] = "joined"]
  /\ topics' = [t \in Topics |-> IF t \in Asked[c] THEN topics[t] \cup {c}
                                                   ELSE topics[t]]
  /\ changed' = changed \cup Asked[c]
  /\ joinedAt' = [joinedAt EXCEPT ![c] = log]
  /\ CountSoon
  /\ UNCHANGED <<served, ended, log, got, told>>

\* slip: the socket is served as soon as it is upgraded
ReadyAtOnce(c) == handler[c] \in {"upgraded", "joined"}

\* serveAsync comes after join: one that ends at once is there to leave
Ready(c) == handler[c] = "joined"

Serve(c) ==
  /\ Ready(c) /\ served[c] = "no"
  /\ served' = [served EXCEPT ![c] = "yes"]
  /\ UNCHANGED <<handler, ended, topics, changed, counting, timers, log,
                 joinedAt, got, told>>

-----------------------------------------------------------------------------
(* A socket's end.                                                         *)

\* its peer closed, went silent or broke the protocol, or the server stops
Ends(c) ==
  /\ served[c] = "yes" /\ c \notin ended
  /\ ended' = ended \cup {c}
  /\ UNCHANGED <<handler, served, topics, changed, counting, timers, log,
                 joinedAt, got, told>>

ChangedBy(c) == changed' = changed \cup Asked[c] /\ CountSoon

\* done, once serve has returned
Leave(c) ==
  /\ served[c] = "yes" /\ c \in ended
  /\ served' = [served EXCEPT ![c] = "over"]
  /\ topics' = [t \in Topics |-> IF t \in Asked[c] THEN topics[t] \ {c} ELSE topics[t]]
  /\ ChangedBy(c)
  /\ UNCHANGED <<handler, ended, log, joinedAt, got, told>>

-----------------------------------------------------------------------------
(* Publishing and counting.                                                *)

\* send closes the socket it does not fit in
Overflow(full) == ended' = ended \cup full

\* the sockets a frame reaches when those of full have no room for it
Reached(subs, full) == subs \ (ended \cup full)

\* publishFrame: one topic, its subscribers, the sender included
Publish(t) ==
  /\ log[t] < MaxEvents
  /\ log' = [log EXCEPT ![t] = @ + 1]
  /\ \E full \in SUBSET (topics[t] \ ended) :
       /\ Overflow(full)
       /\ got' = [c \in Sockets |->
                    IF c \in Reached(topics[t], full)
                    THEN [got[c] EXCEPT ![t] = Append(@, log[t] + 1)]
                    ELSE got[c]]
  /\ UNCHANGED <<handler, served, topics, changed, counting, timers, joinedAt, told>>

\* Push, from any handler of the app
Push(t) == Publish(t)

\* what a browser publishes: to the topics its own socket holds
FromClient(c, t) ==
  /\ served[c] = "yes" /\ t \in Asked[c]
  /\ Publish(t)

\* the count of each changed topic as it stands now
SendCounts ==
  /\ timers > 0
  /\ timers' = timers - 1
  /\ counting' = FALSE
  /\ changed' = {}
  /\ \E full \in SUBSET (UNION {topics[t] : t \in changed} \ ended) :
       /\ Overflow(full)
       /\ told' = [c \in Sockets |-> [t \in Topics |->
                     IF t \in changed /\ c \in Reached(topics[t], full)
                     THEN Cardinality(topics[t]) ELSE told[c][t]]]
  /\ UNCHANGED <<handler, served, topics, log, joinedAt, got>>

RelayNext ==
  \/ \E c \in Sockets :
       Upgrade(c) \/ Refuse(c) \/ Join(c) \/ Serve(c) \/ Ends(c) \/ Leave(c)
  \/ \E t \in Topics : Push(t)
  \/ \E c \in Sockets, t \in Topics : FromClient(c, t)
  \/ SendCounts

RelaySpec == RelayInit /\ [][RelayNext]_relayVars

-----------------------------------------------------------------------------
(* Properties.                                                             *)

RelayTypeOK ==
  /\ handler \in [Sockets -> {"out", "upgraded", "joined", "over"}]
  /\ served \in [Sockets -> {"no", "yes", "over"}]
  /\ ended \in SUBSET Sockets
  /\ topics \in [Topics -> SUBSET Sockets]
  /\ changed \in SUBSET Topics
  /\ counting \in BOOLEAN
  /\ timers \in 0 .. 1
  /\ log \in [Topics -> 0 .. MaxEvents]
  /\ joinedAt \in [Sockets -> [Topics -> 0 .. MaxEvents]]
  /\ got \in [Sockets -> [Topics -> Seq(1 .. MaxEvents)]]
  /\ told \in [Sockets -> [Topics -> 0 .. Cardinality(Sockets)]]

\* No ghost subscriber: a socket that is over is in no topic, whenever it
\* ended - a publish would be sent to it and counted for it for ever.
NoGhosts ==
  \A t \in Topics : \A c \in topics[t] :
    t \in Asked[c] /\ handler[c] = "joined" /\ served[c] # "over"

\* Every subscriber sees a topic's events in one order from the moment it
\* joined, and one that has not ended has missed none.
OneOrder ==
  \A c \in Sockets, t \in Topics :
    /\ \A i \in DOMAIN got[c][t] : got[c][t][i] = joinedAt[c][t] + i
    /\ c \in topics[t] \ ended => joinedAt[c][t] + Len(got[c][t]) = log[t]

\* What a subscriber was last told is the number of subscribers, but for a
\* change whose window is open; and then a timer is running that will tell it.
CountsAreCurrent ==
  \A t \in Topics : \A c \in topics[t] \ ended :
    \/ told[c][t] = Cardinality(topics[t])
    \/ t \in changed /\ counting /\ timers = 1

\* A topic is what its subscribers believe it is: who is in it, what was said
\* in it, and how many they are.
TopicsAreTrue == RelayTypeOK /\ NoGhosts /\ OneOrder /\ CountsAreCurrent
=============================================================================
