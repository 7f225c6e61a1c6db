-------------------------------- MODULE SseHub --------------------------------
(***************************************************************************)
(* The event hub (sse.go, type SSEHub): Publish hands a frame to every     *)
(* subscriber that has room for it, ServeHTTP carries one client's frames  *)
(* to its stream, and Close retires the hub while the process goes on.     *)
(*                                                                         *)
(* Frames are numbered as they are published.  A client's stream is its    *)
(* latch alone: the watcher trips it when the request is cancelled or the  *)
(* server stops (SseStream has the stream itself).  Pings are the writes   *)
(* that carry nothing.                                                     *)
(***************************************************************************)
EXTENDS Naturals, Sequences, FiniteSets

CONSTANTS
  Clients,      (* requests of the hub's route                              *)
  Depth,        (* the slots of a subscriber's channel, 8                   *)
  MaxFrames     (* bound on the frames published                            *)

ASSUME HubAssumption == Depth \in Nat \ {0} /\ MaxFrames \in Nat

VARIABLES
  subs,         (* the subscribers                                          *)
  shut,         (* the hub is closed, and its channel with it               *)
  published,    (* history: how many frames were published                  *)
  handler,      (* where ServeHTTP stands for each client                   *)
  slots,        (* the frames in each subscriber's channel                  *)
  since,        (* history: frames published when the client subscribed     *)
  got,          (* history: the frames written to each client               *)
  skipped,      (* history: frames each client had no room for              *)
  over,         (* the clients whose request ended, or whose server stops   *)
  tripped       (* the clients whose stream's latch has tripped             *)

hubState == <<subs, shut, published>>
clientVars == <<handler, slots, since, got, skipped, over, tripped>>
hubVars == <<hubState, clientVars>>

HubInit ==
  /\ subs = {} /\ shut = FALSE /\ published = 0
  /\ handler = [c \in Clients |-> "out"]
  /\ slots = [c \in Clients |-> <<>>]
  /\ since = [c \in Clients |-> 0]
  /\ got = [c \in Clients |-> <<>>]
  /\ skipped = [c \in Clients |-> {}]
  /\ over = {} /\ tripped = {}

-----------------------------------------------------------------------------
(* The hub, under its mutex.                                               *)

Room(c) == Len(slots[c]) < Depth

\* a client with no room skips the frame: the publisher never waits
Publish ==
  /\ published < MaxFrames
  /\ IF shut
     THEN UNCHANGED hubVars
     ELSE /\ published' = published + 1
          /\ slots' = [c \in Clients |->
               IF c \in subs /\ Room(c) THEN Append(slots[c], published + 1)
                                        ELSE slots[c]]
          /\ skipped' = [c \in Clients |->
               IF c \in subs /\ ~Room(c) THEN skipped[c] \cup {published + 1}
                                         ELSE skipped[c]]
          /\ UNCHANGED <<subs, shut, handler, since, got, over, tripped>>

\* Close forgets the subscribers at once; their handlers unwind after it
Close ==
  /\ ~shut
  /\ shut' = TRUE
  /\ subs' = {}
  /\ UNCHANGED <<published, clientVars>>

-----------------------------------------------------------------------------
(* ServeHTTP.                                                              *)

\* SSE: the watcher is armed before the first byte goes out
Opens(c) ==
  /\ handler[c] = "out"
  /\ handler' = [handler EXCEPT ![c] = "opened"]
  /\ UNCHANGED <<hubState, slots, since, got, skipped, over, tripped>>

\* a shut hub takes no subscription
Subscribed(c) == IF shut THEN subs ELSE subs \cup {c}

Registers(c) ==
  /\ handler[c] = "opened"
  /\ handler' = [handler EXCEPT ![c] = "looping"]
  /\ subs' = Subscribed(c)
  /\ since' = [since EXCEPT ![c] = published]
  /\ UNCHANGED <<shut, published, slots, got, skipped, over, tripped>>

\* slip: the loop does not look at the hub's channel
LeavesIfDone(c) == c \in tripped

\* the stream is done, or the hub was closed
Leaves(c) == c \in tripped \/ shut

LoopLeaves(c) ==
  /\ handler[c] = "looping" /\ Leaves(c)
  /\ handler' = [handler EXCEPT ![c] = "unwinding"]
  /\ UNCHANGED <<hubState, slots, since, got, skipped, over, tripped>>

\* slip: the newest frame goes first
Newest(s) == s[Len(s)]

Oldest(s) == Head(s)

LoopWrites(c) ==
  /\ handler[c] = "looping" /\ slots[c] # <<>>
  /\ slots' = [slots EXCEPT ![c] = Tail(@)]
  /\ \/ /\ got' = [got EXCEPT ![c] = Append(@, Oldest(slots[c]))]
        /\ UNCHANGED handler
     \/ /\ handler' = [handler EXCEPT ![c] = "unwinding"]
        /\ UNCHANGED got
  /\ UNCHANGED <<hubState, since, skipped, over, tripped>>

\* a ping, or a frame, that the connection did not take
LoopFails(c) ==
  /\ handler[c] = "looping"
  /\ handler' = [handler EXCEPT ![c] = "unwinding"]
  /\ UNCHANGED <<hubState, slots, since, got, skipped, over, tripped>>

Unsubscribed(c) == subs \ {c}

\* the deferred calls: the subscription goes, the stream is closed
Unwinds(c) ==
  /\ handler[c] = "unwinding"
  /\ handler' = [handler EXCEPT ![c] = "returned"]
  /\ subs' = Unsubscribed(c)
  /\ tripped' = tripped \cup {c}
  /\ UNCHANGED <<shut, published, slots, since, got, skipped, over>>

\* the client disconnects, or the server shuts down
Ends(c) ==
  /\ c \notin over
  /\ over' = over \cup {c}
  /\ UNCHANGED <<hubState, handler, slots, since, got, skipped, tripped>>

\* the stream's watcher
Trips(c) ==
  /\ c \in over \ tripped /\ handler[c] # "out"
  /\ tripped' = tripped \cup {c}
  /\ UNCHANGED <<hubState, handler, slots, since, got, skipped, over>>

HubNext ==
  \/ Publish \/ Close
  \/ \E c \in Clients :
       \/ Opens(c) \/ Registers(c) \/ LoopLeaves(c) \/ LoopWrites(c)
       \/ LoopFails(c) \/ Unwinds(c) \/ Ends(c) \/ Trips(c)

HubSpec == HubInit /\ [][HubNext]_hubVars

\* of the ready cases of the loop's select one is chosen at random: the one
\* that leaves is not passed over forever
HubFairness ==
  /\ \A c \in Clients :
       /\ WF_hubVars(Registers(c)) /\ WF_hubVars(Unwinds(c)) /\ WF_hubVars(Trips(c))
       /\ SF_hubVars(LoopLeaves(c))

-----------------------------------------------------------------------------
(* Properties.                                                             *)

HubTypeOK ==
  /\ subs \in SUBSET Clients
  /\ shut \in BOOLEAN
  /\ published \in 0 .. MaxFrames
  /\ handler \in [Clients -> {"out", "opened", "looping", "unwinding", "returned"}]
  /\ slots \in [Clients -> Seq(1 .. MaxFrames)]
  /\ \A c \in Clients : Len(slots[c]) <= Depth
  /\ since \in [Clients -> 0 .. MaxFrames]
  /\ got \in [Clients -> Seq(1 .. MaxFrames)]
  /\ skipped \in [Clients -> SUBSET (1 .. MaxFrames)]
  /\ over \in SUBSET Clients /\ tripped \in SUBSET Clients

\* Subscribers counts the clients the hub still reaches: none on a closed hub,
\* however late a request came, and none whose handler has returned.
SubscribersAreServed ==
  /\ shut => subs = {}
  /\ \A c \in subs : handler[c] \in {"looping", "unwinding"}

\* A client sees frames in the order they were published, and only what it had
\* no room for is missing.
InOrderButSkipped ==
  \A c \in Clients :
    LET seen == got[c] \o slots[c]
    IN  /\ \A i, j \in DOMAIN seen : i < j => seen[i] < seen[j]
        /\ c \in subs /\ handler[c] = "looping" =>
             {seen[i] : i \in DOMAIN seen} \cup skipped[c]
               = (since[c] + 1) .. published

\* Every handler returns once its client is gone, the server stops, or the hub
\* is closed.
HandlersUnwind ==
  HubFairness => \A c \in Clients :
    handler[c] # "out" /\ (shut \/ c \in over) ~> handler[c] = "returned"

\* Whoever counts as a subscriber is served: its frames in order, and missing
\* only for want of room.
SubscribersAreTold == HubTypeOK /\ SubscribersAreServed /\ InOrderButSkipped
=============================================================================
