----------------------------- MODULE FrontProofs -----------------------------
(***************************************************************************)
(* What is proved of the front, its start and its page cache.  For any     *)
(* sockets, topics and handshakes, a topic is what its subscribers believe *)
(* it is.  For any frames, sizes and bounds, a socket costs no more than   *)
(* its bounds and implements the channel the relay sends on.  For any      *)
(* launches, a start and its front read one environment, and one stop is   *)
(* not taken for two.  For any keys, tags and capacity, the cache is       *)
(* bounded, its index exact and its order one of use.                      *)
(***************************************************************************)
EXTENDS PageCacheSpec, PageCacheLemmas, WsSocket, WsRelay, Launch, Functions, FoldLemmas, FiniteSetTheorems,
        SequenceTheorems, WellFoundedInduction, TLAPS

-----------------------------------------------------------------------------
(* The relay.  Its count window is one flag and one timer that agree, and  *)
(* whatever changed has a window open; a socket has no history before it   *)
(* joined.                                                                 *)

\* one window at a time, and a topic that changed waits for it
WindowIsOpen ==
  /\ timers = IF counting THEN 1 ELSE 0
  /\ changed # {} => counting

\* what is sent to a socket is sent after it joined
NothingBeforeJoin ==
  \A c \in Sockets, t \in Topics : handler[c] # "joined" => got[c][t] = <<>>

\* only a socket that joined is served
ServedHaveJoined == \A c \in Sockets : served[c] # "no" => handler[c] = "joined"

RelayInv ==
  /\ RelayTypeOK
  /\ NoGhosts
  /\ OneOrder
  /\ CountsAreCurrent
  /\ WindowIsOpen
  /\ NothingBeforeJoin
  /\ ServedHaveJoined

\* The count of a topic is a number of sockets.
LEMMA CountIsBounded ==
  ASSUME NEW S \in SUBSET Sockets
  PROVE  Cardinality(S) \in 0 .. Cardinality(Sockets)
<1>1. /\ IsFiniteSet(S) /\ Cardinality(S) <= Cardinality(Sockets)
  BY RelayAssumption, FS_Subset
<1>. QED BY <1>1, RelayAssumption, FS_CardinalityType

LEMMA RelayInvInit == RelayInit => RelayInv
<1> SUFFICES ASSUME RelayInit PROVE RelayInv
  OBVIOUS
<1> USE DEF RelayInit
<1>1. Cardinality(Sockets) \in Nat /\ MaxEvents \in Nat
  BY RelayAssumption, FS_CardinalityType
<1>2. RelayTypeOK
  <2>1. /\ ended \in SUBSET Sockets /\ changed \in SUBSET Topics
        /\ timers \in 0 .. 1
    OBVIOUS
  <2>5. counting \in BOOLEAN
    OBVIOUS
  <2>2. /\ handler \in [Sockets -> {"out", "upgraded", "joined", "over"}]
        /\ served \in [Sockets -> {"no", "yes", "over"}]
        /\ topics \in [Topics -> SUBSET Sockets]
    OBVIOUS
  <2>3. /\ log \in [Topics -> 0 .. MaxEvents]
        /\ joinedAt \in [Sockets -> [Topics -> 0 .. MaxEvents]]
        /\ told \in [Sockets -> [Topics -> 0 .. Cardinality(Sockets)]]
    BY <1>1
  <2>4. got \in [Sockets -> [Topics -> Seq(1 .. MaxEvents)]]
    OBVIOUS
  <2>. QED BY <2>1, <2>2, <2>3, <2>4, <2>5 DEF RelayTypeOK
<1>3. NoGhosts /\ OneOrder /\ CountsAreCurrent
  BY DEF NoGhosts, OneOrder, CountsAreCurrent
<1>4. WindowIsOpen /\ NothingBeforeJoin /\ ServedHaveJoined
  BY DEF WindowIsOpen, NothingBeforeJoin, ServedHaveJoined
<1>. QED BY <1>2, <1>3, <1>4 DEF RelayInv

\* The handshake before the join, and an ending that is not an overflow.
LEMMA HandshakeKeepsRelayInv ==
  ASSUME RelayInv, NEW c \in Sockets,
         Upgrade(c) \/ Refuse(c) \/ Serve(c) \/ Ends(c)
  PROVE  RelayInv'
<1> USE DEF Upgrade, Refuse, Serve, Ready, Ends
<1>1. UNCHANGED <<topics, changed, counting, timers, log, joinedAt, got, told>>
  OBVIOUS
<1>2. RelayTypeOK'
  BY DEF RelayInv, RelayTypeOK
<1>3. NoGhosts'
  BY DEF RelayInv, RelayTypeOK, NoGhosts
<1>4. OneOrder' /\ CountsAreCurrent' /\ WindowIsOpen'
  BY DEF RelayInv, OneOrder, CountsAreCurrent, WindowIsOpen
<1>5. NothingBeforeJoin' /\ ServedHaveJoined'
  BY DEF RelayInv, RelayTypeOK, NothingBeforeJoin, ServedHaveJoined
<1>. QED BY <1>2, <1>3, <1>4, <1>5 DEF RelayInv

\* A join or a leave changes topics of the socket's own, and opens their window.
LEMMA JoinKeepsRelayInv ==
  ASSUME RelayInv, NEW c \in Sockets, Join(c)
  PROVE  RelayInv'
<1> USE RelayAssumption
<1>1. /\ handler[c] = "upgraded" /\ handler' = [handler EXCEPT ![c] = "joined"]
      /\ topics' = [t \in Topics |-> IF t \in Asked[c] THEN topics[t] \cup {c} ELSE topics[t]]
      /\ changed' = changed \cup Asked[c]
      /\ joinedAt' = [joinedAt EXCEPT ![c] = log]
      /\ counting' = TRUE
      /\ UNCHANGED <<served, ended, log, got, told>>
  BY DEF Join, CountSoon
<1>2. timers' = 1
  BY DEF Join, CountSoon, RelayInv, WindowIsOpen
<1>3. RelayTypeOK'
  BY <1>1, <1>2 DEF RelayInv, RelayTypeOK
<1>4. NoGhosts'
  BY <1>1 DEF RelayInv, RelayTypeOK, NoGhosts, ServedHaveJoined
<1>5. OneOrder'
  <2>1. ASSUME NEW t \in Topics
        PROVE  /\ \A i \in DOMAIN got'[c][t] : got'[c][t][i] = joinedAt'[c][t] + i
               /\ joinedAt'[c][t] + Len(got'[c][t]) = log'[t]
    BY <1>1 DEF RelayInv, RelayTypeOK, NothingBeforeJoin
  <2>2. ASSUME NEW d \in Sockets, d # c, NEW t \in Topics
        PROVE  /\ \A i \in DOMAIN got'[d][t] : got'[d][t][i] = joinedAt'[d][t] + i
               /\ d \in topics'[t] \ ended' => joinedAt'[d][t] + Len(got'[d][t]) = log'[t]
    <3>1. joinedAt'[d] = joinedAt[d] /\ (d \in topics'[t] => d \in topics[t])
      BY <1>1, <2>2 DEF RelayInv, RelayTypeOK
    <3>. QED BY <3>1, <1>1 DEF RelayInv, OneOrder
  <2>. QED BY <2>1, <2>2 DEF OneOrder
<1>6. CountsAreCurrent'
  BY <1>1, <1>2 DEF RelayInv, RelayTypeOK, CountsAreCurrent
<1>7. WindowIsOpen' /\ NothingBeforeJoin' /\ ServedHaveJoined'
  BY <1>1, <1>2 DEF RelayInv, RelayTypeOK, WindowIsOpen, NothingBeforeJoin, ServedHaveJoined
<1>. QED BY <1>3, <1>4, <1>5, <1>6, <1>7 DEF RelayInv

LEMMA LeaveKeepsRelayInv ==
  ASSUME RelayInv, NEW c \in Sockets, Leave(c)
  PROVE  RelayInv'
<1> USE RelayAssumption
<1>1. /\ served[c] = "yes" /\ c \in ended /\ served' = [served EXCEPT ![c] = "over"]
      /\ topics' = [t \in Topics |-> IF t \in Asked[c] THEN topics[t] \ {c} ELSE topics[t]]
      /\ changed' = changed \cup Asked[c]
      /\ counting' = TRUE
      /\ UNCHANGED <<handler, ended, log, joinedAt, got, told>>
  BY DEF Leave, ChangedBy, CountSoon
<1>2. timers' = 1
  BY DEF Leave, ChangedBy, CountSoon, RelayInv, WindowIsOpen
<1>3. RelayTypeOK'
  BY <1>1, <1>2 DEF RelayInv, RelayTypeOK
<1>4. NoGhosts'
  BY <1>1 DEF RelayInv, RelayTypeOK, NoGhosts
<1>5. OneOrder'
  BY <1>1 DEF RelayInv, RelayTypeOK, OneOrder
<1>6. CountsAreCurrent'
  BY <1>1, <1>2 DEF RelayInv, RelayTypeOK, CountsAreCurrent
<1>7. WindowIsOpen' /\ NothingBeforeJoin' /\ ServedHaveJoined'
  BY <1>1, <1>2 DEF RelayInv, RelayTypeOK, WindowIsOpen, NothingBeforeJoin, ServedHaveJoined
<1>. QED BY <1>3, <1>4, <1>5, <1>6, <1>7 DEF RelayInv

\* The next event at the end of events that follow each other from the j-th on.
LEMMA OneMoreInOrder ==
  \A s \in Seq(Nat), j, l \in Nat :
    (\A i \in DOMAIN s : s[i] = j + i) /\ j + Len(s) = l =>
      /\ \A i \in DOMAIN Append(s, l + 1) : Append(s, l + 1)[i] = j + i
      /\ j + Len(Append(s, l + 1)) = l + 1
<1> SUFFICES ASSUME NEW s \in Seq(Nat), NEW j \in Nat, NEW l \in Nat,
                    \A i \in DOMAIN s : s[i] = j + i, j + Len(s) = l
             PROVE  /\ \A i \in DOMAIN Append(s, l + 1) : Append(s, l + 1)[i] = j + i
                    /\ j + Len(Append(s, l + 1)) = l + 1
  OBVIOUS
<1>1. /\ Len(s) \in Nat /\ DOMAIN s = 1 .. Len(s)
      /\ DOMAIN Append(s, l + 1) = 1 .. Len(s) + 1
      /\ Len(Append(s, l + 1)) = Len(s) + 1
      /\ \A i \in 1 .. Len(s) : Append(s, l + 1)[i] = s[i]
      /\ Append(s, l + 1)[Len(s) + 1] = l + 1
  OBVIOUS
<1>. QED BY <1>1, SMTT(30)

\* An event goes to the end of what each subscriber got that has room for it;
\* the others are ended, and promised nothing more.
LEMMA PublishKeepsRelayInv ==
  ASSUME RelayInv, NEW t \in Topics, Publish(t)
  PROVE  RelayInv'
<1> USE RelayAssumption
<1>1. PICK full \in SUBSET (topics[t] \ ended) :
        /\ ended' = ended \cup full
        /\ got' = [c \in Sockets |-> IF c \in topics[t] \ (ended \cup full)
                                     THEN [got[c] EXCEPT ![t] = Append(@, log[t] + 1)]
                                     ELSE got[c]]
  BY DEF Publish, Overflow, Reached
<1>2. /\ log' = [log EXCEPT ![t] = @ + 1] /\ log[t] + 1 \in 1 .. MaxEvents /\ log[t] \in Nat
      /\ UNCHANGED <<handler, served, topics, changed, counting, timers, joinedAt, told>>
  BY DEF Publish, RelayInv, RelayTypeOK
<1>3. ASSUME NEW c \in Sockets, NEW u \in Topics
      PROVE  /\ got[c][u] \in Seq(1 .. MaxEvents)
             /\ got'[c][u] = IF u = t /\ c \in topics[t] \ (ended \cup full)
                             THEN Append(got[c][u], log[t] + 1) ELSE got[c][u]
             /\ log'[u] = IF u = t THEN log[u] + 1 ELSE log[u]
             /\ log[u] \in Nat /\ joinedAt[c][u] \in Nat
  BY <1>1, <1>2 DEF RelayInv, RelayTypeOK
<1>4. RelayTypeOK'
  <2>1. ASSUME NEW c \in Sockets PROVE got'[c] \in [Topics -> Seq(1 .. MaxEvents)]
    <3>1. Append(got[c][t], log[t] + 1) \in Seq(1 .. MaxEvents)
      BY <1>2, <1>3, AppendProperties, Zenon
    <3>2. /\ got[c] \in [Topics -> Seq(1 .. MaxEvents)]
          /\ got'[c] = got[c] \/ got'[c] = [got[c] EXCEPT ![t] = Append(@, log[t] + 1)]
      BY <1>1 DEF RelayInv, RelayTypeOK
    <3>. QED BY <3>1, <3>2
  <2>2. got' \in [Sockets -> [Topics -> Seq(1 .. MaxEvents)]]
    BY <2>1, <1>1
  <2>3. ended' \in SUBSET Sockets
    BY <1>1 DEF RelayInv, RelayTypeOK
  <2>4. log' \in [Topics -> 0 .. MaxEvents]
    BY <1>2 DEF RelayInv, RelayTypeOK
  <2>. QED BY <2>2, <2>3, <2>4, <1>2 DEF RelayInv, RelayTypeOK
<1>5. NoGhosts' /\ WindowIsOpen' /\ ServedHaveJoined'
  BY <1>2 DEF RelayInv, NoGhosts, WindowIsOpen, ServedHaveJoined
<1>6. OneOrder'
  <2> SUFFICES ASSUME NEW c \in Sockets, NEW u \in Topics
               PROVE  /\ \A i \in DOMAIN got'[c][u] : got'[c][u][i] = joinedAt[c][u] + i
                      /\ c \in topics[u] \ ended' => joinedAt[c][u] + Len(got'[c][u]) = log'[u]
    BY <1>2 DEF OneOrder
  <2>1. /\ \A i \in DOMAIN got[c][u] : got[c][u][i] = joinedAt[c][u] + i
        /\ c \in topics[u] \ ended => joinedAt[c][u] + Len(got[c][u]) = log[u]
    BY DEF RelayInv, OneOrder
  <2>2. CASE u = t /\ c \in topics[t] \ (ended \cup full)
    <3>1. joinedAt[c][u] + Len(got[c][u]) = log[u]
      BY <2>1, <2>2
    <3>2. got'[c][u] = Append(got[c][u], log[u] + 1) /\ log'[u] = log[u] + 1
      BY <2>2, <1>3
    <3>3. got[c][u] \in Seq(1 .. MaxEvents) /\ joinedAt[c][u] \in Nat /\ log[u] \in Nat
      BY <1>3
    <3>4. got[c][u] \in Seq(Nat)
      BY <3>3
    <3>5. /\ \A i \in DOMAIN Append(got[c][u], log[u] + 1) :
               Append(got[c][u], log[u] + 1)[i] = joinedAt[c][u] + i
          /\ joinedAt[c][u] + Len(Append(got[c][u], log[u] + 1)) = log[u] + 1
      <4>1. \A i \in DOMAIN got[c][u] : got[c][u][i] = joinedAt[c][u] + i
        BY <2>1
      <4>. QED BY <3>1, <3>3, <3>4, <4>1, OneMoreInOrder, Zenon
    <3>. QED BY <3>2, <3>5, Zenon
  <2>3. CASE ~(u = t /\ c \in topics[t] \ (ended \cup full))
    BY <2>1, <2>3, <1>1, <1>3
  <2>. QED BY <2>2, <2>3
<1>7. CountsAreCurrent'
  BY <1>1, <1>2 DEF RelayInv, CountsAreCurrent
<1>8. NothingBeforeJoin'
  <2> SUFFICES ASSUME NEW c \in Sockets, NEW u \in Topics, handler[c] # "joined"
               PROVE  got'[c][u] = <<>>
    BY <1>2 DEF NothingBeforeJoin
  <2>1. c \notin topics[t]
    BY DEF RelayInv, NoGhosts
  <2>2. got[c][u] = <<>>
    BY DEF RelayInv, NothingBeforeJoin
  <2>. QED BY <2>1, <2>2, <1>3
<1>. QED BY <1>4, <1>5, <1>6, <1>7, <1>8 DEF RelayInv

\* The window closes: every topic that changed is counted as it stands.
LEMMA SendCountsKeepsRelayInv == RelayInv /\ SendCounts => RelayInv'
<1> SUFFICES ASSUME RelayInv, SendCounts PROVE RelayInv'
  OBVIOUS
<1> USE RelayAssumption
<1>1. PICK full \in SUBSET (UNION {topics[t] : t \in changed} \ ended) :
        /\ ended' = ended \cup full
        /\ told' = [c \in Sockets |-> [t \in Topics |->
                      IF t \in changed /\ c \in topics[t] \ (ended \cup full)
                      THEN Cardinality(topics[t]) ELSE told[c][t]]]
  BY DEF SendCounts, Overflow, Reached
<1>2. /\ counting' = FALSE /\ changed' = {} /\ timers' = 0
      /\ UNCHANGED <<handler, served, topics, log, joinedAt, got>>
  BY DEF SendCounts, RelayInv, RelayTypeOK
<1>3. RelayTypeOK'
  <2>1. \A t \in Topics : Cardinality(topics[t]) \in 0 .. Cardinality(Sockets)
    BY CountIsBounded DEF RelayInv, RelayTypeOK
  <2>2. told' \in [Sockets -> [Topics -> 0 .. Cardinality(Sockets)]]
    BY <1>1, <2>1 DEF RelayInv, RelayTypeOK
  <2>3. ended' \in SUBSET Sockets
    BY <1>1 DEF RelayInv, RelayTypeOK
  <2>4. counting' \in BOOLEAN
    BY <1>2
  <2>5. changed' \in SUBSET Topics /\ timers' \in 0 .. 1
    BY <1>2
  <2>. QED BY <2>2, <2>3, <2>4, <2>5, <1>2 DEF RelayInv, RelayTypeOK
<1>4. NoGhosts' /\ ServedHaveJoined' /\ NothingBeforeJoin'
  BY <1>2 DEF RelayInv, NoGhosts, ServedHaveJoined, NothingBeforeJoin
<1>5. OneOrder' /\ WindowIsOpen'
  BY <1>1, <1>2 DEF RelayInv, OneOrder, WindowIsOpen
<1>6. CountsAreCurrent'
  <2> SUFFICES ASSUME NEW t \in Topics, NEW c \in topics[t] \ ended'
               PROVE  told'[c][t] = Cardinality(topics[t])
    BY <1>2 DEF CountsAreCurrent
  <2>1. c \in Sockets /\ c \in topics[t] \ (ended \cup full)
    BY <1>1 DEF RelayInv, RelayTypeOK
  <2>2. t \notin changed => told[c][t] = Cardinality(topics[t])
    BY <2>1 DEF RelayInv, CountsAreCurrent
  <2>. QED BY <2>1, <2>2, <1>1
<1>. QED BY <1>3, <1>4, <1>5, <1>6 DEF RelayInv

\* A topic is what its subscribers believe it is: no socket that is over is in
\* it, its events reach each in one order and none is missed, and the count each
\* was told is current or about to be sent (ws_relay.go, publishFrame, sendCounts).
THEOREM RelayIsTrue == RelaySpec => []TopicsAreTrue
<1>1. RelayInv /\ [RelayNext]_relayVars => RelayInv'
  <2> SUFFICES ASSUME RelayInv, [RelayNext]_relayVars PROVE RelayInv'
    OBVIOUS
  <2>1. CASE UNCHANGED relayVars
    BY <2>1 DEF relayVars, RelayInv, RelayTypeOK, NoGhosts, OneOrder, CountsAreCurrent,
                WindowIsOpen, NothingBeforeJoin, ServedHaveJoined
  <2>2. CASE \E t \in Topics : Publish(t)
    BY <2>2, PublishKeepsRelayInv
  <2>. QED BY <2>1, <2>2, HandshakeKeepsRelayInv, JoinKeepsRelayInv, LeaveKeepsRelayInv,
              SendCountsKeepsRelayInv DEF RelayNext, Push, FromClient
<1>2. RelayInv => TopicsAreTrue
  BY DEF RelayInv, TopicsAreTrue
<1>. QED BY RelayInvInit, <1>1, <1>2, PTL DEF RelaySpec

-----------------------------------------------------------------------------
(* Sums over a finite set, whose elements SumFunctionOnSet takes in an      *)
(* order that nothing tells: an induction over sizes finds the function    *)
(* that computes them, and any element may be taken first.                 *)

\* the element the fold takes first
Picked(S) == CHOOSE x \in S : TRUE

\* g computes the sum of f over each of the sets of F
Sums(f, F, g) ==
  \A S \in F : g[S] = IF S = {} THEN 0 ELSE f[Picked(S)] + g[S \ {Picked(S)}]

\* the subsets of S with at most n elements
Smaller(S, n) == {T \in SUBSET S : Cardinality(T) <= n}

\* Taking the picked element leaves a smaller set.
LEMMA PickedLeaves ==
  ASSUME NEW S, IsFiniteSet(S), NEW n \in Nat, NEW T \in Smaller(S, n), T # {}
  PROVE  /\ Picked(T) \in T
         /\ T \ {Picked(T)} \in Smaller(S, n)
         /\ Cardinality(T \ {Picked(T)}) <= n - 1
         /\ T \ {Picked(T)} \in Smaller(S, n - 1)
<1>1. Picked(T) \in T
  BY DEF Picked
<1>2. IsFiniteSet(T)
  BY FS_Subset DEF Smaller
<1>3. Cardinality(T) \in Nat /\ Cardinality(T) <= n
  BY <1>2, FS_CardinalityType DEF Smaller
<1>4. Cardinality(T \ {Picked(T)}) = Cardinality(T) - 1
  BY <1>1, <1>2, FS_RemoveElement
<1>. QED BY <1>1, <1>3, <1>4 DEF Smaller

\* g is what the fold computes with
IsSums(f, S, g) ==
  g = [T \in SUBSET S |-> IF T = {} THEN 0 ELSE f[Picked(T)] + g[T \ {Picked(T)}]]

\* Some function computes the sums of every subset, by induction over their size.
LEMMA SumsExist ==
  ASSUME NEW S, IsFiniteSet(S), NEW f
  PROVE  \E g : IsSums(f, S, g)
<1> DEFINE Body(g, T) == IF T = {} THEN 0 ELSE f[Picked(T)] + g[T \ {Picked(T)}]
           Has(n) == \E g : /\ g = [T \in SUBSET S |-> g[T]]
                            /\ \A T \in Smaller(S, n) : g[T] = Body(g, T)
           Good == {n \in Nat : Has(n)}
<1>1. Has(0)
  <2>1. \A T \in Smaller(S, 0) : T = {}
    <3>. TAKE T \in Smaller(S, 0)
    <3>1. IsFiniteSet(T) /\ Cardinality(T) <= 0 /\ Cardinality(T) \in Nat
      BY FS_Subset, FS_CardinalityType DEF Smaller
    <3>. QED BY <3>1, FS_EmptySet
  <2> DEFINE g == [T \in SUBSET S |-> 0]
  <2>2. \A T \in Smaller(S, 0) : g[T] = Body(g, T)
    BY <2>1 DEF Smaller
  <2>3. g = [T \in SUBSET S |-> g[T]]
    OBVIOUS
  <2> HIDE DEF g
  <2>. QED BY <2>2, <2>3
<1>2. ASSUME NEW n \in Nat, Has(n) PROVE Has(n + 1)
  <2>1. PICK g : /\ g = [T \in SUBSET S |-> g[T]]
                 /\ \A T \in Smaller(S, n) : g[T] = Body(g, T)
    BY <1>2
  <2> DEFINE h == [T \in SUBSET S |-> IF T \in Smaller(S, n) THEN g[T] ELSE Body(g, T)]
  <2>2. ASSUME NEW T \in Smaller(S, n + 1) PROVE h[T] = Body(h, T)
    <3>1. h[T] = Body(g, T)
      BY <2>1 DEF Smaller
    <3>2. T # {} => T \ {Picked(T)} \in Smaller(S, n)
      BY PickedLeaves
    <3>3. T # {} => h[T \ {Picked(T)}] = g[T \ {Picked(T)}]
      BY <3>2 DEF Smaller
    <3>. QED BY <3>1, <3>3
  <2>3. h = [T \in SUBSET S |-> h[T]]
    OBVIOUS
  <2> HIDE DEF h
  <2>. QED BY <2>2, <2>3
<1> HIDE DEF Has
<1>3. Good = Nat
  <2>1. /\ Good \subseteq Nat
        /\ 0 \in Good
        /\ \A n \in Good : n + 1 \in Good
    BY <1>1, <1>2
  <2> HIDE DEF Good
  <2>. QED BY <2>1, InductionOverSet, Zenon
<1>4. Has(Cardinality(S))
  BY <1>3, FS_CardinalityType
<1>5. PICK g : /\ g = [T \in SUBSET S |-> g[T]]
               /\ \A T \in Smaller(S, Cardinality(S)) : g[T] = Body(g, T)
  BY <1>4 DEF Has
<1>6. SUBSET S = Smaller(S, Cardinality(S))
  BY FS_Subset DEF Smaller
<1>7. g = [T \in SUBSET S |-> Body(g, T)]
  BY <1>5, <1>6
<1>. QED BY <1>7 DEF IsSums

\* what SumFunctionOnSet is, of which the provers have no theorem
Total(f, S) == SumFunctionOnSet(f, S)

\* The sum over S is what some function computes over the subsets of S.
LEMMA TotalIsComputed ==
  ASSUME NEW S, IsFiniteSet(S), NEW f
  PROVE  \E g : Sums(f, SUBSET S, g) /\ Total(f, S) = g[S]
<1> DEFINE G == CHOOSE g : g = [T \in SUBSET S |->
                       IF T = {} THEN 0 ELSE f[Picked(T)] + g[T \ {Picked(T)}]]
<1>0. \E g : IsSums(f, S, g)
  BY SumsExist
<1>1. IsSums(f, S, G)
  BY <1>0, Zenon DEF IsSums
<1>2. Total(f, S) = G[S]
  BY Zenon DEF Total, SumFunctionOnSet, FoldFunctionOnSet, MapThenFoldSet, Picked
<1> HIDE DEF G
<1>3. Sums(f, SUBSET S, G)
  <2>1. ASSUME NEW T \in SUBSET S
        PROVE  G[T] = IF T = {} THEN 0 ELSE f[Picked(T)] + G[T \ {Picked(T)}]
    BY <1>1, Zenon DEF IsSums
  <2>. QED BY <2>1 DEF Sums
<1>. QED BY <1>2, <1>3

\* Two functions that compute sums of f give S the same.
LEMMA SumsAgree ==
  ASSUME NEW f, NEW g, NEW h, NEW S, IsFiniteSet(S),
         Sums(f, SUBSET S, g), Sums(f, SUBSET S, h)
  PROVE  g[S] = h[S]
<1> DEFINE Good == {n \in Nat : \A T \in Smaller(S, n) : g[T] = h[T]}
<1>1. 0 \in Good
  <2>1. ASSUME NEW T \in Smaller(S, 0) PROVE T = {}
    <3>1. IsFiniteSet(T) /\ Cardinality(T) <= 0 /\ Cardinality(T) \in Nat
      BY FS_Subset, FS_CardinalityType DEF Smaller
    <3>. QED BY <3>1, FS_EmptySet
  <2>. QED BY <2>1 DEF Smaller, Sums
<1>2. ASSUME NEW n \in Good PROVE n + 1 \in Good
  <2>1. ASSUME NEW T \in Smaller(S, n + 1) PROVE g[T] = h[T]
    <3>1. CASE T = {}
      BY <3>1 DEF Sums
    <3>2. CASE T # {}
      <4>1. T \ {Picked(T)} \in Smaller(S, n)
        <5>1. n + 1 \in Nat /\ (n + 1) - 1 = n
          OBVIOUS
        <5>2. T \ {Picked(T)} \in Smaller(S, (n + 1) - 1)
          BY <3>2, <5>1, PickedLeaves, Zenon
        <5>. QED BY <5>1, <5>2
      <4>2. g[T \ {Picked(T)}] = h[T \ {Picked(T)}]
        BY <4>1
      <4>3. T \in SUBSET S
        BY DEF Smaller
      <4>. QED BY <3>2, <4>2, <4>3 DEF Sums
    <3>. QED BY <3>1, <3>2
  <2>. QED BY <2>1
<1>3. Good = Nat
  <2>1. /\ Good \subseteq Nat
        /\ \A n \in Good : n + 1 \in Good
    BY <1>2
  <2> HIDE DEF Good
  <2>. QED BY <1>1, <2>1, InductionOverSet, Zenon
<1>4. S \in Smaller(S, Cardinality(S)) /\ Cardinality(S) \in Nat
  BY FS_CardinalityType DEF Smaller
<1>. QED BY <1>3, <1>4

\* The sum of nothing is 0, any other takes its picked element first.
LEMMA TotalUnfolds ==
  ASSUME NEW S, IsFiniteSet(S), NEW f
  PROVE  /\ S = {} => Total(f, S) = 0
         /\ S # {} => /\ Picked(S) \in S
                      /\ Total(f, S) = f[Picked(S)] + Total(f, S \ {Picked(S)})
<1>1. PICK g : Sums(f, SUBSET S, g) /\ Total(f, S) = g[S]
  BY TotalIsComputed, Zenon
<1>2. ASSUME S # {}
      PROVE  Picked(S) \in S /\ g[S \ {Picked(S)}] = Total(f, S \ {Picked(S)})
  <2> DEFINE R == S \ {Picked(S)}
  <2>1. IsFiniteSet(R)
    BY FS_Subset
  <2>2. PICK h : Sums(f, SUBSET R, h) /\ Total(f, R) = h[R]
    BY <2>1, TotalIsComputed, Zenon
  <2>3. Sums(f, SUBSET R, g)
    BY <1>1 DEF Sums
  <2>4. g[R] = h[R]
    BY <2>1, <2>2, <2>3, SumsAgree
  <2>5. Picked(S) \in S
    BY <1>2 DEF Picked
  <2>. QED BY <2>2, <2>4, <2>5
<1>. QED BY <1>1, <1>2 DEF Sums

\* A sum of naturals is a natural.
LEMMA TotalIsNat ==
  ASSUME NEW D, NEW f \in [D -> Nat], NEW S \in SUBSET D, IsFiniteSet(S)
  PROVE  Total(f, S) \in Nat
<1> DEFINE Good == {n \in Nat : \A T \in Smaller(S, n) : Total(f, T) \in Nat}
<1>0. ASSUME NEW T \in SUBSET S PROVE IsFiniteSet(T) /\ Cardinality(T) \in Nat
  BY FS_Subset, FS_CardinalityType
<1>1. 0 \in Good
  <2>1. ASSUME NEW T \in Smaller(S, 0) PROVE Total(f, T) \in Nat
    <3>1. T = {}
      BY <1>0, FS_EmptySet DEF Smaller
    <3>. QED BY <3>1, <1>0, TotalUnfolds
  <2>. QED BY <2>1
<1>2. ASSUME NEW n \in Good PROVE n + 1 \in Good
  <2>1. ASSUME NEW T \in Smaller(S, n + 1), T # {} PROVE Total(f, T) \in Nat
    <3>1. Picked(T) \in T /\ T \ {Picked(T)} \in Smaller(S, n)
      BY <2>1, PickedLeaves, n \in Nat, SMTT(30)
    <3>2. Total(f, T) = f[Picked(T)] + Total(f, T \ {Picked(T)})
      BY <2>1, <1>0, TotalUnfolds DEF Smaller
    <3>. QED BY <3>1, <3>2 DEF Smaller
  <2>2. Total(f, {}) \in Nat
    <3>1. Total(f, {}) = 0
      BY <1>0, TotalUnfolds
    <3>. QED BY <3>1
  <2>3. \A T \in Smaller(S, n + 1) : Total(f, T) \in Nat
    BY <2>1, <2>2, Zenon
  <2>. QED BY <2>3
<1>3. Good = Nat
  <2>1. /\ Good \subseteq Nat
        /\ \A n \in Good : n + 1 \in Good
    BY <1>2
  <2> HIDE DEF Good
  <2>. QED BY <1>1, <2>1, InductionOverSet, Zenon
<1>4. S \in Smaller(S, Cardinality(S)) /\ Cardinality(S) \in Nat
  BY FS_CardinalityType DEF Smaller
<1>. QED BY <1>3, <1>4

\* Whichever element is taken first, the sum is the same.
LEMMA TotalTakesAny ==
  ASSUME NEW D, NEW f \in [D -> Nat], NEW S \in SUBSET D, IsFiniteSet(S), NEW x \in S
  PROVE  Total(f, S) = f[x] + Total(f, S \ {x})
<1> DEFINE Good == {n \in Nat : \A T \in Smaller(S, n) : \A y \in T :
                                  Total(f, T) = f[y] + Total(f, T \ {y})}
<1>0. ASSUME NEW T \in SUBSET S
      PROVE  IsFiniteSet(T) /\ Cardinality(T) \in Nat /\ Total(f, T) \in Nat
  <2>1. IsFiniteSet(T) /\ Cardinality(T) \in Nat
    BY FS_Subset, FS_CardinalityType
  <2>2. T \in SUBSET D
    OBVIOUS
  <2>. QED BY <2>1, <2>2, TotalIsNat
<1>1. 0 \in Good
  <2>1. ASSUME NEW T \in Smaller(S, 0) PROVE T = {}
    BY <1>0, FS_EmptySet DEF Smaller
  <2>. QED BY <2>1
<1>2. ASSUME NEW n \in Good PROVE n + 1 \in Good
  <2>1. ASSUME NEW T \in Smaller(S, n + 1), NEW y \in T
        PROVE  Total(f, T) = f[y] + Total(f, T \ {y})
    <3> DEFINE p == Picked(T)
    <3>1. p \in T /\ T \ {p} \in Smaller(S, n)
      BY T # {}, PickedLeaves, n \in Nat
    <3>2. Total(f, T) = f[p] + Total(f, T \ {p})
      <4>1. T \in SUBSET S
        BY DEF Smaller
      <4>. QED BY <4>1, <1>0, TotalUnfolds, Zenon
    <3>3. CASE y = p
      BY <3>2, <3>3
    <3>4. CASE y # p
      <4>1. Total(f, T \ {p}) = f[y] + Total(f, (T \ {p}) \ {y})
        BY <3>1, <3>4
      <4>2. T \ {y} \in Smaller(S, n) /\ p \in T \ {y}
        <5>1. T \in SUBSET S /\ T \ {y} \in SUBSET S
          BY DEF Smaller
        <5>2. Cardinality(T \ {y}) = Cardinality(T) - 1
          BY <5>1, <1>0, FS_RemoveElement
        <5>. QED BY <5>1, <5>2, <1>0, <3>1, <3>4 DEF Smaller
      <4>3. Total(f, T \ {y}) = f[p] + Total(f, (T \ {y}) \ {p})
        BY <4>2
      <4>4. (T \ {p}) \ {y} = (T \ {y}) \ {p}
        OBVIOUS
      <4>5. f[p] \in Nat /\ f[y] \in Nat /\ Total(f, (T \ {p}) \ {y}) \in Nat
        BY <1>0, <3>1 DEF Smaller
      <4>6. Total(f, T) = f[p] + (f[y] + Total(f, (T \ {p}) \ {y}))
        BY <3>2, <4>1, Zenon
      <4>7. Total(f, T \ {y}) = f[p] + Total(f, (T \ {p}) \ {y})
        BY <4>3, <4>4, Zenon
      <4> HIDE DEF p
      <4>. QED BY <4>6, <4>7, <4>5
    <3>. QED BY <3>3, <3>4
  <2>. QED BY <2>1
<1>3. Good = Nat
  <2>1. /\ Good \subseteq Nat
        /\ \A n \in Good : n + 1 \in Good
    BY <1>2
  <2> HIDE DEF Good
  <2>. QED BY <1>1, <2>1, InductionOverSet, Zenon
<1>4. S \in Smaller(S, Cardinality(S)) /\ Cardinality(S) \in Nat
  BY FS_CardinalityType DEF Smaller
<1>. QED BY <1>3, <1>4

\* Functions that agree on S have the same sum over it.
LEMMA TotalOfSame ==
  ASSUME NEW S, IsFiniteSet(S), NEW f, NEW g, \A x \in S : f[x] = g[x]
  PROVE  Total(f, S) = Total(g, S)
<1> DEFINE Good == {n \in Nat : \A T \in Smaller(S, n) : Total(f, T) = Total(g, T)}
<1>0. ASSUME NEW T \in SUBSET S PROVE IsFiniteSet(T) /\ Cardinality(T) \in Nat
  BY FS_Subset, FS_CardinalityType
<1>5. Total(f, {}) = Total(g, {})
  BY <1>0, TotalUnfolds
<1>1. 0 \in Good
  <2>1. ASSUME NEW T \in Smaller(S, 0) PROVE T = {}
    BY <1>0, FS_EmptySet DEF Smaller
  <2>. QED BY <2>1, <1>5
<1>2. ASSUME NEW n \in Good PROVE n + 1 \in Good
  <2>1. ASSUME NEW T \in Smaller(S, n + 1), T # {} PROVE Total(f, T) = Total(g, T)
    <3>1. Picked(T) \in T /\ T \ {Picked(T)} \in Smaller(S, n)
      BY <2>1, PickedLeaves, n \in Nat
    <3>2. /\ Total(f, T) = f[Picked(T)] + Total(f, T \ {Picked(T)})
          /\ Total(g, T) = g[Picked(T)] + Total(g, T \ {Picked(T)})
      BY <2>1, <1>0, TotalUnfolds DEF Smaller
    <3>3. f[Picked(T)] = g[Picked(T)]
      BY <3>1 DEF Smaller
    <3>. QED BY <3>1, <3>2, <3>3
  <2>. QED BY <2>1, <1>5
<1>3. Good = Nat
  <2>1. /\ Good \subseteq Nat
        /\ \A n \in Good : n + 1 \in Good
    BY <1>2
  <2> HIDE DEF Good
  <2>. QED BY <1>1, <2>1, InductionOverSet, Zenon
<1>4. S \in Smaller(S, Cardinality(S)) /\ Cardinality(S) \in Nat
  BY FS_CardinalityType DEF Smaller
<1>. QED BY <1>3, <1>4

-----------------------------------------------------------------------------
(* One socket.  The bytes of what waits are a sum, counted ahead of the     *)
(* writes; a frame's number tells its place; and what a writer may do      *)
(* after the ending is told from where it stands.                          *)

\* the bytes of some frames
Bytes(s) == SumFunctionOnSet([i \in DOMAIN s |-> Size[s[i]]], DOMAIN s)

\* the numbers of the frames
Frames == 1 .. MaxFrames

\* No frame has no bytes.
LEMMA BytesOfNothing == Bytes(<<>>) = 0
<1>1. DOMAIN <<>> = {}
  OBVIOUS
<1>2. IsFiniteSet({})
  BY FS_EmptySet
<1>. QED BY <1>1, <1>2, TotalUnfolds DEF Bytes, Total

\* The sizes of some frames are a function to Nat over a finite set.
LEMMA DomainIsFinite ==
  ASSUME NEW s \in Seq(Frames)
  PROVE  /\ DOMAIN s = 1 .. Len(s) /\ IsFiniteSet(DOMAIN s)
         /\ [i \in DOMAIN s |-> Size[s[i]]] \in [DOMAIN s -> Nat]
<1>1. DOMAIN s = 1 .. Len(s) /\ Len(s) \in Nat /\ \A i \in DOMAIN s : s[i] \in Frames
  OBVIOUS
<1>2. IsFiniteSet(1 .. Len(s))
  BY <1>1, FS_Interval
<1>. QED BY <1>1, <1>2, FramesAssumption DEF Frames

\* The bytes of some frames are a number.
LEMMA BytesIsNat ==
  ASSUME NEW s \in Seq(Frames)
  PROVE  Bytes(s) \in Nat
<1>1. /\ IsFiniteSet(DOMAIN s)
      /\ [i \in DOMAIN s |-> Size[s[i]]] \in [DOMAIN s -> Nat]
  BY DomainIsFinite
<1>. QED BY <1>1, TotalIsNat DEF Bytes, Total

\* One more frame has its size more.
LEMMA BytesOfAppend ==
  ASSUME NEW s \in Seq(Frames), NEW n \in Frames
  PROVE  Bytes(Append(s, n)) = Bytes(s) + Size[n]
<1> DEFINE a == Append(s, n)
           f == [i \in DOMAIN a |-> Size[a[i]]]
           g == [i \in DOMAIN s |-> Size[s[i]]]
           top == Len(s) + 1
<1>1. a \in Seq(Frames) /\ Len(a) = top /\ a[top] = n /\ \A i \in 1 .. Len(s) : a[i] = s[i]
  OBVIOUS
<1>2. DOMAIN a = 1 .. top /\ DOMAIN s = 1 .. Len(s) /\ Len(s) \in Nat
  BY <1>1
<1>3. IsFiniteSet(DOMAIN a) /\ IsFiniteSet(DOMAIN s) /\ f \in [DOMAIN a -> Nat]
  BY <1>1, DomainIsFinite
<1>4. f[top] = Size[n] /\ \A i \in DOMAIN s : f[i] = g[i]
  BY <1>1, <1>2
<1>5. DOMAIN a \ {top} = DOMAIN s /\ top \in DOMAIN a
  BY <1>2
<1>6. Bytes(a) = Total(f, DOMAIN a) /\ Bytes(s) = Total(g, DOMAIN s)
  BY DEF Bytes, Total
<1> HIDE DEF f, g, a, top
<1>7. Total(f, DOMAIN a) = f[top] + Total(f, DOMAIN a \ {top})
  BY <1>3, <1>5, TotalTakesAny
<1>8. Total(f, DOMAIN s) = Total(g, DOMAIN s)
  BY <1>3, <1>4, TotalOfSame
<1>9. Bytes(s) \in Nat /\ Size[n] \in Nat
  BY BytesIsNat, FramesAssumption DEF Frames
<1>. QED BY <1>4, <1>5, <1>6, <1>7, <1>8, <1>9 DEF a

\* Bytes add up, by induction over the length of the second part.
LEMMA BytesOfConcat ==
  \A s, t \in Seq(Frames) : Bytes(s \o t) = Bytes(s) + Bytes(t)
<1> DEFINE Good == {n \in Nat : \A s, t \in Seq(Frames) :
                                  Len(t) = n => Bytes(s \o t) = Bytes(s) + Bytes(t)}
<1>1. 0 \in Good
  <2>1. ASSUME NEW s \in Seq(Frames), NEW t \in Seq(Frames), Len(t) = 0
        PROVE  Bytes(s \o t) = Bytes(s) + Bytes(t)
    <3>1. t = <<>> /\ s \o t = s
      BY <2>1
    <3>. QED BY <3>1, BytesIsNat, BytesOfNothing
  <2>. QED BY <2>1
<1>2. ASSUME NEW n \in Good PROVE n + 1 \in Good
  <2>1. ASSUME NEW s \in Seq(Frames), NEW t \in Seq(Frames), Len(t) = n + 1
        PROVE  Bytes(s \o t) = Bytes(s) + Bytes(t)
    <3> DEFINE front == SubSeq(t, 1, n)
               x == t[n + 1]
    <3>1. n \in Nat /\ front \in Seq(Frames) /\ Len(front) = n /\ x \in Frames
      BY <2>1
    <3>2. t = Append(front, x)
      BY <2>1, <3>1
    <3>3. s \o t = Append(s \o front, x) /\ s \o front \in Seq(Frames)
      BY <2>1, <3>1
    <3> HIDE DEF front, x
    <3>4. /\ Bytes(t) = Bytes(front) + Size[x]
          /\ Bytes(s \o t) = Bytes(s \o front) + Size[x]
      BY <3>1, <3>2, <3>3, BytesOfAppend
    <3>5. Bytes(s \o front) = Bytes(s) + Bytes(front)
      BY <3>1
    <3>6. Bytes(s) \in Nat /\ Bytes(front) \in Nat /\ Size[x] \in Nat
      BY <3>1, BytesIsNat, FramesAssumption DEF Frames
    <3>. QED BY <3>4, <3>5, <3>6
  <2>. QED BY <2>1
<1>3. Good = Nat
  <2>1. /\ Good \subseteq Nat
        /\ \A n \in Good : n + 1 \in Good
    BY <1>2
  <2> HIDE DEF Good
  <2>. QED BY <1>1, <2>1, InductionOverSet, Zenon
<1>. QED BY <1>3

\* The first frame has its size of the bytes.
LEMMA BytesOfHead ==
  ASSUME NEW t \in Seq(Frames), t # <<>>
  PROVE  /\ Head(t) \in Frames /\ Tail(t) \in Seq(Frames)
         /\ Bytes(t) = Size[Head(t)] + Bytes(Tail(t))
<1>1. Head(t) \in Frames /\ Tail(t) \in Seq(Frames)
  OBVIOUS
<1>2. /\ t = <<Head(t)>> \o Tail(t) /\ <<Head(t)>> = Append(<<>>, Head(t))
      /\ <<Head(t)>> \in Seq(Frames)
  BY <1>1
<1>3. Bytes(t) = Bytes(<<Head(t)>>) + Bytes(Tail(t))
  BY <1>1, <1>2, BytesOfConcat
<1>4. Bytes(<<Head(t)>>) = Bytes(<<>>) + Size[Head(t)]
  <2>1. <<>> \in Seq(Frames)
    OBVIOUS
  <2>. QED BY <1>1, <1>2, <2>1, BytesOfAppend, Zenon
<1>. QED BY <1>1, <1>3, <1>4, BytesOfNothing, FramesAssumption DEF Frames

-----------------------------------------------------------------------------
\* how many frames were written and counted
Written == IF writer = "counting" THEN Len(wire.data) - 1 ELSE Len(wire.data)

\* the writer may still write frames
Busy == writer \in {"selecting", "bursting", "counting"} \/ (writer = "top" /\ ~Ended)

\* the type invariant, with wire a record
SocketTyped ==
  /\ SocketTypeOK
  /\ wire \in [data : Seq(Frames), close : CloseFrames \cup {"none"}]

\* the counters are over what waits, and within their bounds
BacklogIsCounted ==
  /\ queued <= QueueBytes /\ pending <= QueueFrames
  /\ Bytes(queue) + Bytes(batch) <= queued
  /\ Len(queue) + Len(batch) <= pending

\* the writer selects with nothing left of its last batch
BatchFitsWriter ==
  /\ writer = "selecting" => batch = <<>>
  /\ writer = "counting" => batch # <<>> /\ wire.data # <<>>
  /\ writer = "top" /\ batch # <<>> => Ended

\* after a write that began too late the writer leaves
LastWrite ==
  /\ late <= 1
  /\ late = 1 => Ended /\ writer \notin {"selecting", "bursting"}

\* a send that looked has a number left
SenderFits == sender = "queueing" => accepted < MaxFrames

\* what was written, what was taken and what is queued follow one another
FramesInOrder ==
  /\ \A i \in DOMAIN wire.data : wire.data[i] = i
  /\ \A i \in DOMAIN queue : queue[i] = (accepted - Len(queue)) + i
  /\ pending + Written = accepted
  /\ Busy => /\ Written + Len(batch) + Len(queue) = accepted
             /\ \A i \in DOMAIN batch : batch[i] = Written + i

\* what every state of a socket satisfies
SocketInv ==
  /\ SocketTyped
  /\ BacklogIsCounted
  /\ BatchFitsWriter
  /\ LastWrite
  /\ SenderFits
  /\ FramesInOrder

\* A socket starts with it.
LEMMA SocketInvInit == SocketInit => SocketInv
<1> SUFFICES ASSUME SocketInit PROVE SocketInv
  OBVIOUS
<1> USE DEF SocketInit
<1>1. SocketTyped
  <2>1. wake \in BOOLEAN /\ pong \in BOOLEAN /\ heard \in BOOLEAN
    OBVIOUS
  <2>2. closed \in BOOLEAN /\ stopping \in BOOLEAN
    OBVIOUS
  <2>3. wire \in [data : Seq(Frames), close : CloseFrames \cup {"none"}]
    OBVIOUS
  <2>4. /\ accepted \in 0 .. MaxFrames /\ queued \in Nat /\ pending \in Nat /\ late \in Nat
        /\ queue \in Seq(1 .. MaxFrames) /\ batch \in Seq(1 .. MaxFrames)
    BY FramesAssumption
  <2>5. ending \in Endings
    BY DEF Endings, CloseFrames
  <2>6. wire.data \in Seq(1 .. MaxFrames) /\ wire.close \in CloseFrames \cup {"none"}
    OBVIOUS
  <2>. QED BY <2>1, <2>2, <2>3, <2>4, <2>5, <2>6 DEF SocketTyped, SocketTypeOK
<1>2. BacklogIsCounted
  BY BytesOfNothing, FramesAssumption DEF BacklogIsCounted
<1>3. BatchFitsWriter /\ LastWrite /\ SenderFits
  BY DEF BatchFitsWriter, LastWrite, SenderFits
<1>4. FramesInOrder
  BY DEF FramesInOrder, Written, Busy
<1>. QED BY <1>1, <1>2, <1>3, <1>4 DEF SocketInv

\* What Append and Tail do to frames.
LEMMA AppendFacts ==
  \A s \in Seq(Frames), n \in Frames :
    /\ Append(s, n) \in Seq(Frames) /\ Len(Append(s, n)) = Len(s) + 1
    /\ DOMAIN Append(s, n) = DOMAIN s \cup {Len(s) + 1}
    /\ Append(s, n)[Len(s) + 1] = n /\ \A i \in DOMAIN s : Append(s, n)[i] = s[i]
  OBVIOUS

\* Places and frames are numbers.
LEMMA SeqFacts ==
  \A s \in Seq(Frames) :
    Len(s) \in Nat /\ \A i \in DOMAIN s : i \in Nat /\ s[i] \in Nat
  BY FramesAssumption DEF Frames

\* The tail of some frames is what follows the first.
LEMMA TailFacts ==
  \A s \in Seq(Frames) :
    s # <<>> => /\ Head(s) = s[1] /\ Head(s) \in Frames /\ Tail(s) \in Seq(Frames)
                /\ Len(s) \in Nat /\ Len(s) # 0 /\ Len(Tail(s)) = Len(s) - 1
                /\ \A i \in DOMAIN Tail(s) :
                     i \in Nat /\ i + 1 \in DOMAIN s /\ Tail(s)[i] = s[i + 1]
  OBVIOUS

\* A batch is taken only when the last one is out, or the socket ended.
LEMMA BatchFitsWriterStep ==
  ASSUME SocketInv, [SocketNext]_socketVars PROVE BatchFitsWriter'
<1> USE DEF SocketInv, BatchFitsWriter, Ended, SocketTyped, SocketTypeOK, Frames
<1>1. CASE UNCHANGED socketVars
  BY <1>1 DEF socketVars, sendVars, writeVars
<1>2. CASE Sends
  BY <1>2 DEF Sends, SendLooks, SendQueues, SendWakes, Queues, Finish, writeVars, sendVars
<1>3. CASE Serves
  BY <1>3 DEF Serves, ReaderArms, ReaderReads, ReaderFails, HandlerReturns, HandlerPanics,
     ServeFinishes, ServeCloses, Finish, writeVars, sendVars
<1>4. CASE DeadlinePasses \/ Shutdown
  BY <1>4 DEF DeadlinePasses, Shutdown, writeVars, sendVars
<1>5. CASE Writes
  <2> USE DEF Finish, sendVars
  <2>1. CASE WriterBursts
    BY <2>1 DEF WriterBursts, WriteFails
  <2>2. CASE WriterCounts
    BY <2>2 DEF WriterCounts, GoesOn
  <2>3. CASE WriterPongs \/ WriterPings
    BY <2>3 DEF WriterPongs, WriterPings, Control, WriteFails
  <2>4. CASE WriterTakes
    BY <2>4 DEF WriterTakes
  <2>5. CASE WriterLooks \/ WriterSeesQuit \/ WriterHearsShutdown
    BY <2>5 DEF WriterLooks, WriterSeesQuit, WriterHearsShutdown, GoesAway
  <2>6. CASE WriterSaysGoodbye \/ WriterCuts
    BY <2>6 DEF WriterSaysGoodbye, WriterCuts
  <2>. QED BY <1>5, <2>1, <2>2, <2>3, <2>4, <2>5, <2>6 DEF Writes
<1>. QED BY <1>1, <1>2, <1>3, <1>4, <1>5 DEF SocketNext

\* One late write at most: the look at quit follows each.
LEMMA LastWriteStep ==
  ASSUME SocketInv, [SocketNext]_socketVars PROVE LastWrite'
<1> USE DEF SocketInv, LastWrite, Ended, SocketTyped, SocketTypeOK
<1>1. CASE UNCHANGED socketVars
  BY <1>1 DEF socketVars, sendVars, writeVars
<1>2. CASE Sends
  BY <1>2 DEF Sends, SendLooks, SendQueues, SendWakes, Queues, Finish, writeVars, sendVars
<1>3. CASE Serves
  BY <1>3 DEF Serves, ReaderArms, ReaderReads, ReaderFails, HandlerReturns, HandlerPanics,
     ServeFinishes, ServeCloses, Finish, writeVars, sendVars
<1>4. CASE DeadlinePasses \/ Shutdown
  BY <1>4 DEF DeadlinePasses, Shutdown, writeVars, sendVars
<1>5. CASE Writes
  <2> USE DEF Finish, sendVars, Counted
  <2>1. CASE WriterBursts
    BY <2>1 DEF WriterBursts, WriteFails
  <2>2. CASE WriterCounts
    BY <2>2 DEF WriterCounts, GoesOn
  <2>3. CASE WriterPongs \/ WriterPings
    BY <2>3 DEF WriterPongs, WriterPings, Control, WriteFails
  <2>4. CASE WriterTakes
    BY <2>4 DEF WriterTakes
  <2>5. CASE WriterLooks \/ WriterSeesQuit \/ WriterHearsShutdown
    BY <2>5 DEF WriterLooks, WriterSeesQuit, WriterHearsShutdown, GoesAway
  <2>6. CASE WriterSaysGoodbye \/ WriterCuts
    BY <2>6 DEF WriterSaysGoodbye, WriterCuts
  <2>. QED BY <1>5, <2>1, <2>2, <2>3, <2>4, <2>5, <2>6 DEF Writes
<1>. QED BY <1>1, <1>2, <1>3, <1>4, <1>5 DEF SocketNext

\* Only a send changes where it stands.
LEMMA SenderFitsStep ==
  ASSUME SocketInv, [SocketNext]_socketVars PROVE SenderFits'
<1> USE DEF SocketInv, SenderFits
<1>1. CASE UNCHANGED socketVars
  BY <1>1 DEF socketVars, sendVars, writeVars
<1>2. CASE Sends
  BY <1>2 DEF Sends, SendLooks, SendQueues, SendWakes, Queues, writeVars, sendVars
<1>3. CASE Serves \/ DeadlinePasses \/ Shutdown
  BY <1>3 DEF Serves, ReaderArms, ReaderReads, ReaderFails, HandlerReturns, HandlerPanics,
     ServeFinishes, ServeCloses, DeadlinePasses, Shutdown, writeVars, sendVars
<1>4. CASE Writes
  BY <1>4 DEF Writes, WriterLooks, WriterSeesQuit, WriterHearsShutdown, WriterPongs,
     WriterPings, WriterTakes, WriterBursts, WriterCounts, WriterSaysGoodbye, WriterCuts, sendVars
<1>. QED BY <1>1, <1>2, <1>3, <1>4 DEF SocketNext

\* What changes neither the queue nor the batch, nor their counters.
Still == UNCHANGED <<queue, batch, queued, pending>>

\* What is queued was counted under both bounds, what is counted out was written.
LEMMA BacklogStep ==
  ASSUME SocketInv, [SocketNext]_socketVars PROVE BacklogIsCounted'
<1> USE DEF SocketInv, SocketTyped, SocketTypeOK, Frames
<1>0. Still => BacklogIsCounted'
  BY DEF Still, BacklogIsCounted
<1>1. CASE UNCHANGED socketVars
  BY <1>0, <1>1 DEF socketVars, sendVars, writeVars, Still
<1>2. CASE SendLooks \/ SendWakes \/ Serves \/ DeadlinePasses \/ Shutdown
  <2>1. Still
    BY <1>2 DEF SendLooks, SendWakes, Serves, ReaderArms, ReaderReads, ReaderFails,
       HandlerReturns, HandlerPanics, ServeFinishes, ServeCloses, DeadlinePasses,
       Shutdown, writeVars, sendVars, Still
  <2>. QED BY <1>0, <2>1
<1>3. CASE SendQueues
  <2> DEFINE n == accepted + 1
  <2>1. CASE Full(n)
    BY <1>0, <1>3, <2>1 DEF SendQueues, Queues, sendVars, writeVars, Still
  <2>2. CASE ~Full(n)
    <3>1. /\ queue' = Append(queue, n) /\ batch' = batch
          /\ queued' = queued + Size[n] /\ pending' = pending + 1
      BY <1>3, <2>2 DEF SendQueues, Queues, writeVars
    <3>2. n \in 1 .. MaxFrames /\ Size[n] \in Nat
      BY <1>3, FramesAssumption DEF SendQueues, SenderFits, Frames
    <3>3. Bytes(queue') = Bytes(queue) + Size[n]
      BY <3>1, <3>2, BytesOfAppend
    <3>4. Bytes(queue) \in Nat /\ Bytes(batch) \in Nat
      BY BytesIsNat
    <3>5. queued' <= QueueBytes /\ pending' <= QueueFrames
      BY <2>2, <3>1, <3>2, FramesAssumption DEF Full
    <3>6. Bytes(queue') + Bytes(batch') <= queued'
      BY <3>1, <3>2, <3>3, <3>4, SMTT(30) DEF BacklogIsCounted
    <3>7. Len(queue') + Len(batch') <= pending'
      BY <3>1 DEF BacklogIsCounted
    <3>. QED BY <3>5, <3>6, <3>7 DEF BacklogIsCounted
  <2>. QED BY <2>1, <2>2
<1>4. CASE WriterTakes
  <2>1. /\ queue' = <<>> /\ batch' = queue /\ batch = <<>>
        /\ queued' = queued /\ pending' = pending
    BY <1>4 DEF WriterTakes, Taken, BatchFitsWriter
  <2>2. Bytes(queue') + Bytes(batch') = Bytes(queue) + Bytes(batch)
    BY <2>1, BytesIsNat, BytesOfNothing
  <2>. QED BY <2>1, <2>2 DEF BacklogIsCounted
<1>5. CASE WriterCounts
  <2>1. batch # <<>>
    BY <1>5 DEF WriterCounts, BatchFitsWriter
  <2>2. /\ queued' = queued - Size[Head(batch)] /\ pending' = pending - 1
        /\ queue' = queue /\ batch' \in {Tail(batch), <<>>}
    BY <1>5 DEF WriterCounts
  <2>3. /\ Head(batch) \in Frames /\ Tail(batch) \in Seq(Frames)
        /\ Bytes(batch) = Size[Head(batch)] + Bytes(Tail(batch))
    BY <2>1, BytesOfHead
  <2>4. /\ Bytes(queue) \in Nat /\ Bytes(Tail(batch)) \in Nat
        /\ Size[Head(batch)] \in Nat
    BY <2>3, BytesIsNat, FramesAssumption
  <2>5. /\ Len(Tail(batch)) = Len(batch) - 1
        /\ Len(batch) \in Nat /\ Len(batch) # 0 /\ Len(queue) \in Nat
    BY <2>1, TailFacts
  <2>6. Bytes(batch') <= Bytes(Tail(batch)) /\ Bytes(batch') \in Nat
    <3>1. CASE batch' = Tail(batch)
      BY <3>1, <2>4
    <3>2. CASE batch' = <<>>
      <4>1. Bytes(batch') = 0
        BY <3>2, BytesOfNothing, Zenon
      <4>. QED BY <4>1, <2>4
    <3>. QED BY <2>2, <3>1, <3>2
  <2>7. Len(batch') <= Len(batch) - 1 /\ Len(batch') \in Nat
    BY <2>2, <2>5
  <2>8. queued' <= QueueBytes /\ pending' <= QueueFrames
    <3>1. queued <= QueueBytes /\ pending <= QueueFrames /\ queued \in Nat /\ pending \in Nat
      BY DEF BacklogIsCounted, SocketInv, SocketTyped, SocketTypeOK
    <3>. QED BY <2>2, <2>4, <3>1, FramesAssumption, SMTT(30)
  <2>9. Bytes(queue') + Bytes(batch') <= queued'
    <3>1. Bytes(queue) + Bytes(batch) <= queued /\ queued \in Nat
      BY DEF BacklogIsCounted, SocketInv, SocketTyped, SocketTypeOK
    <3>2. queue' = queue /\ queued' = queued - Size[Head(batch)]
      BY <2>2
    <3>3. Bytes(queue') = Bytes(queue)
      BY <3>2, Zenon
    <3>. QED BY <2>3, <2>4, <2>6, <3>1, <3>2, <3>3, SMTT(30)
  <2>10. Len(queue') + Len(batch') <= pending'
    BY <2>2, <2>5, <2>7 DEF BacklogIsCounted
  <2>. QED BY <2>8, <2>9, <2>10 DEF BacklogIsCounted
<1>6. CASE \/ WriterLooks \/ WriterSeesQuit \/ WriterHearsShutdown \/ WriterPongs
           \/ WriterPings \/ WriterBursts \/ WriterSaysGoodbye \/ WriterCuts
  <2>1. Still
    BY <1>6 DEF WriterLooks, WriterSeesQuit, WriterHearsShutdown, WriterPongs,
       WriterPings, WriterBursts, WriterSaysGoodbye, WriterCuts, sendVars, Still
  <2>. QED BY <1>0, <2>1
<1>. QED BY <1>1, <1>2, <1>3, <1>4, <1>5, <1>6 DEF SocketNext, Sends, Writes

\* What writes nothing and queues nothing.
Mute == UNCHANGED <<accepted, queue, batch, pending, wire>>

\* The next number keeps a queue of numbers that follow one another.
LEMMA NextIsQueued ==
  ASSUME NEW q \in Seq(Frames), NEW a \in Nat, a + 1 \in Frames,
         \A i \in DOMAIN q : q[i] = (a - Len(q)) + i
  PROVE  LET r == Append(q, a + 1)
         IN  \A i \in DOMAIN r : r[i] = (a + 1 - Len(r)) + i
<1> DEFINE r == Append(q, a + 1)
<1>1. Len(q) \in Nat
  OBVIOUS
<1>2. /\ Len(r) = Len(q) + 1 /\ r[Len(q) + 1] = a + 1
      /\ DOMAIN r = DOMAIN q \cup {Len(q) + 1}
      /\ \A i \in DOMAIN q : r[i] = q[i]
  BY AppendFacts
<1> HIDE DEF r
<1>3. a + 1 - Len(r) = a - Len(q)
  BY <1>1, <1>2
<1>4. \A i \in DOMAIN q : r[i] = (a + 1 - Len(r)) + i
  BY <1>2, <1>3
<1>5. r[Len(q) + 1] = (a + 1 - Len(r)) + (Len(q) + 1)
  BY <1>1, <1>2, <1>3
<1>. QED BY <1>2, <1>4, <1>5 DEF r

\* The queue goes to the batch whole, and the batch to the wire by its head.
LEMMA FramesInOrderStep ==
  ASSUME SocketInv, [SocketNext]_socketVars PROVE FramesInOrder'
<1>9. queue \in Seq(Frames) /\ batch \in Seq(Frames)
  BY DEF SocketInv, SocketTyped, SocketTypeOK, Frames
<1> USE <1>9 DEF SocketInv, SocketTyped, SocketTypeOK
<1>0. Mute /\ Written' = Written /\ (Busy' => Busy) => FramesInOrder'
  BY DEF Mute, FramesInOrder
<1>1. CASE UNCHANGED socketVars
  BY <1>0, <1>1 DEF socketVars, sendVars, writeVars, Mute, Written, Busy, Ended
<1>2. CASE SendLooks \/ SendWakes \/ Serves \/ DeadlinePasses \/ Shutdown
  <2>1. Mute /\ writer' = writer /\ (Ended => Ended')
    BY <1>2 DEF SendLooks, SendWakes, Serves, ReaderArms, ReaderReads, ReaderFails,
       HandlerReturns, HandlerPanics, ServeFinishes, ServeCloses, DeadlinePasses,
       Shutdown, writeVars, sendVars, Mute, Ended, Finish
  <2>. QED BY <1>0, <2>1 DEF Mute, Written, Busy
<1>3. CASE SendQueues
  <2> DEFINE n == accepted + 1
  <2>1. UNCHANGED <<batch, wire, writer>> /\ (Ended => Ended')
    BY <1>3 DEF SendQueues, Queues, writeVars, Finish, Ended
  <2>2. CASE Full(n)
    BY <1>0, <1>3, <2>1, <2>2 DEF SendQueues, Queues, sendVars, Mute, Written, Busy
  <2>3. CASE ~Full(n)
    <3>1. queue' = Append(queue, n) /\ pending' = pending + 1 /\ accepted' = n
      BY <1>3, <2>3 DEF SendQueues, Queues
    <3>2. n \in Frames
      BY <1>3, FramesAssumption DEF SendQueues, SenderFits, Frames
    <3>3. \A i \in DOMAIN queue' : queue'[i] = (accepted' - Len(queue')) + i
      <4>1. /\ accepted \in Nat
            /\ \A i \in DOMAIN queue : queue[i] = (accepted - Len(queue)) + i
        BY DEF FramesInOrder
      <4>2. LET r == Append(queue, accepted + 1)
            IN  \A i \in DOMAIN r : r[i] = (accepted + 1 - Len(r)) + i
        BY <3>2, <4>1, NextIsQueued
      <4>. QED BY <3>1, <4>2
    <3>4. Written' = Written /\ (Busy' => Busy) /\ Written \in Int
      BY <2>1 DEF Written, Busy
    <3>5. pending' + Written' = accepted'
      BY <3>1, <3>4 DEF FramesInOrder
    <3>6. ASSUME Busy'
          PROVE  /\ Written' + Len(batch') + Len(queue') = accepted'
                 /\ \A i \in DOMAIN batch' : batch'[i] = Written' + i
      <4>1. Written + Len(batch) + Len(queue) = accepted
            /\ \A i \in DOMAIN batch : batch[i] = Written + i
        BY <3>4, <3>6 DEF FramesInOrder
      <4>2. Len(queue') = Len(queue) + 1 /\ Len(batch) \in Nat /\ Len(queue) \in Nat
        BY <3>1, <3>2, AppendFacts
      <4>. QED BY <2>1, <3>1, <3>4, <4>1, <4>2
    <3>7. \A i \in DOMAIN wire'.data : wire'.data[i] = i
      BY <2>1 DEF FramesInOrder
    <3>. QED BY <3>3, <3>5, <3>6, <3>7 DEF FramesInOrder
  <2>. QED BY <2>2, <2>3
<1>4. CASE WriterTakes
  <2>1. /\ queue' = <<>> /\ batch' = queue /\ batch = <<>> /\ Busy
        /\ UNCHANGED <<accepted, pending, wire>> /\ Written' = Written
    BY <1>4 DEF WriterTakes, Taken, BatchFitsWriter, Busy, Written
  <2>2. Written + Len(queue) = accepted /\ Written \in Int
    BY <2>1 DEF FramesInOrder, Written
  <2>3. \A i \in DOMAIN batch' : batch'[i] = Written' + i
    <3>. SUFFICES ASSUME NEW i \in DOMAIN queue PROVE queue[i] = Written + i
      BY <2>1
    <3>1. queue[i] = (accepted - Len(queue)) + i
      BY DEF FramesInOrder
    <3>2. queue[i] \in Nat /\ i \in Nat /\ Len(queue) \in Nat
      BY SeqFacts, Zenon
    <3>. QED BY <2>2, <3>1, <3>2
  <2>. QED BY <2>1, <2>2, <2>3 DEF FramesInOrder
<1>5. CASE WriterCounts
  <2>1. batch # <<>> /\ writer = "counting" /\ Busy
    BY <1>5 DEF WriterCounts, BatchFitsWriter, Busy
  <2>2. /\ pending' = pending - 1 /\ UNCHANGED <<accepted, queue, wire>>
        /\ Written' = Written + 1 /\ Written \in Int
    BY <1>5 DEF WriterCounts, Written, GoesOn
  <2>3. Busy' => batch' = Tail(batch)
    BY <1>5 DEF WriterCounts, GoesOn, Busy, Ended
  <2>4. /\ Len(Tail(batch)) = Len(batch) - 1 /\ Len(batch) \in Nat
        /\ \A i \in DOMAIN Tail(batch) :
             i \in Nat /\ Tail(batch)[i] = batch[i + 1] /\ i + 1 \in DOMAIN batch
    BY <2>1, TailFacts
  <2>5. ASSUME Busy', NEW i \in DOMAIN batch' PROVE batch'[i] = Written' + i
    <3>1. batch'[i] = batch[i + 1] /\ i + 1 \in DOMAIN batch /\ i \in Nat
      BY <2>3, <2>4, <2>5
    <3>. QED BY <2>1, <2>2, <3>1 DEF FramesInOrder
  <2>6. pending' + Written' = accepted'
    BY <2>2 DEF FramesInOrder
  <2>7. Busy' => Written' + Len(batch') + Len(queue') = accepted'
    <3>1. Len(queue) \in Nat
      BY SeqFacts, Zenon
    <3>2. Written + Len(batch) + Len(queue) = accepted
      BY <2>1 DEF FramesInOrder
    <3>. QED BY <2>2, <2>3, <2>4, <3>1, <3>2
  <2>. QED BY <2>2, <2>5, <2>6, <2>7 DEF FramesInOrder
<1>6. CASE WriterBursts
  <2>1. UNCHANGED <<accepted, queue, batch, pending>> /\ Busy
    BY <1>6 DEF WriterBursts, sendVars, Busy
  <2>2. CASE writer' = "counting"
    <3>1. batch # <<>> /\ wire' = [wire EXCEPT !.data = Append(@, Head(batch))]
      BY <1>6, <2>2 DEF WriterBursts
    <3>2. /\ wire'.data = Append(wire.data, Head(batch))
          /\ Head(batch) = Len(wire.data) + 1
      BY <1>6, <2>1, <3>1 DEF FramesInOrder, Written, WriterBursts
    <3>3. \A i \in DOMAIN wire'.data : wire'.data[i] = i
      BY <3>2 DEF FramesInOrder
    <3>4. Written' = Written
      BY <1>6, <2>2, <3>2 DEF WriterBursts, Written
    <3>. QED BY <2>1, <3>3, <3>4 DEF FramesInOrder
  <2>3. CASE writer' # "counting"
    <3>1. Mute /\ Written' = Written
      BY <1>6, <2>1, <2>3 DEF WriterBursts, Mute, Written
    <3>. QED BY <1>0, <2>1, <3>1
  <2>. QED BY <2>2, <2>3
<1>7. CASE \/ WriterLooks \/ WriterSeesQuit \/ WriterHearsShutdown \/ WriterPongs
           \/ WriterPings \/ WriterCuts
  <2>1. Mute
    BY <1>7 DEF WriterLooks, WriterSeesQuit, WriterHearsShutdown, WriterPongs,
       WriterPings, WriterCuts, sendVars, Mute, Control
  <2>2. Written' = Written /\ (Busy' => Busy)
    BY <1>7, <2>1 DEF WriterLooks, WriterSeesQuit, WriterHearsShutdown, WriterPongs,
       WriterPings, WriterCuts, sendVars, Mute, Control, Written, Busy, Ended
  <2>. QED BY <1>0, <2>1, <2>2
<1>8. CASE WriterSaysGoodbye
  <2>1. /\ UNCHANGED <<accepted, queue, batch, pending>> /\ wire'.data = wire.data
        /\ Written' = Written /\ ~Busy'
    BY <1>8 DEF WriterSaysGoodbye, sendVars, Written, Busy
  <2>. QED BY <2>1 DEF FramesInOrder
<1>. QED BY <1>1, <1>2, <1>3, <1>4, <1>5, <1>6, <1>7, <1>8 DEF SocketNext, Sends, Writes

\* the variables that are true or false, apart: each prover takes a half
Flags == {wake, pong, heard, closed, stopping}

\* the types of the others
Typed ==
  /\ accepted \in 0 .. MaxFrames
  /\ queue \in Seq(1 .. MaxFrames) /\ batch \in Seq(1 .. MaxFrames)
  /\ queued \in Nat /\ pending \in Nat
  /\ ending \in Endings
  /\ wire \in [data : Seq(1 .. MaxFrames), close : CloseFrames \cup {"none"}]
  /\ late \in Nat
  /\ sender \in {"idle", "queueing", "waking"}
  /\ writer \in {"top", "selecting", "bursting", "counting", "farewell",
                 "cutting", "over"}
  /\ reader \in {"arming", "reading", "relaying", "ended", "waiting", "left"}
  /\ deadline \in {"none", "read", "grace", "passed"}

\* The type invariant is what the two halves say.
LEMMA TypedParts == SocketTyped <=> (Typed /\ Flags \subseteq BOOLEAN)
<1>1. Flags \subseteq BOOLEAN
      <=> /\ wake \in BOOLEAN /\ pong \in BOOLEAN
          /\ heard \in BOOLEAN /\ closed \in BOOLEAN /\ stopping \in BOOLEAN
  BY DEF Flags
<1>2. wire \in [data : Seq(1 .. MaxFrames), close : CloseFrames \cup {"none"}]
       => wire.data \in Seq(1 .. MaxFrames) /\ wire.close \in CloseFrames \cup {"none"}
  OBVIOUS
<1>. QED BY <1>1, <1>2, Zenon DEF SocketTyped, SocketTypeOK, Typed, Frames

\* What is true or false stays so.
LEMMA FlagsStep ==
  ASSUME SocketInv, [SocketNext]_socketVars PROVE (Flags \subseteq BOOLEAN)'
<1>0. /\ wake \in BOOLEAN /\ pong \in BOOLEAN
      /\ heard \in BOOLEAN /\ closed \in BOOLEAN /\ stopping \in BOOLEAN
  BY DEF SocketInv, SocketTyped, SocketTypeOK
<1> USE <1>0 DEF Flags
<1>1. CASE UNCHANGED socketVars
  BY <1>1 DEF socketVars, sendVars, writeVars
<1>2. CASE Sends
  BY <1>2 DEF Sends, SendLooks, SendQueues, SendWakes, Woken, sendVars, writeVars
<1>3. CASE Serves
  BY <1>3 DEF Serves, ReaderArms, ReaderReads, ReaderFails, HandlerReturns, HandlerPanics,
     ServeFinishes, ServeCloses, writeVars
<1>4. CASE DeadlinePasses \/ Shutdown
  BY <1>4 DEF DeadlinePasses, Shutdown, writeVars
<1>5. CASE Writes
  BY <1>5 DEF Writes, WriterLooks, WriterSeesQuit, WriterHearsShutdown, WriterPongs,
     WriterPings, WriterTakes, WriterBursts, WriterCounts, WriterSaysGoodbye, WriterCuts,
     Control, WriteFails
<1>. QED BY <1>1, <1>2, <1>3, <1>4, <1>5 DEF SocketNext

\* The counters stay natural: they are over what waits.
LEMMA SocketTypedStep ==
  ASSUME SocketInv, [SocketNext]_socketVars PROVE Typed'
<1>0. Typed
  BY TypedParts DEF SocketInv
<1> USE <1>0 DEF Typed
<1> DEFINE Frame == 1 .. MaxFrames
<1>f. Finish("try again later") \/ Finish("nil") \/ Finish("going away") \/ Finish("echo")
        \/ Finish("violation") \/ ending' = ending => ending' \in Endings
  BY DEF Finish, Endings, CloseFrames
<1>1. CASE UNCHANGED socketVars
  BY <1>1 DEF socketVars, sendVars, writeVars
<1>2. CASE SendLooks \/ SendWakes
  BY <1>2 DEF SendLooks, SendWakes, Woken, sendVars, writeVars
<1>3. CASE SendQueues
  <2> DEFINE n == accepted + 1
  <2>0. /\ UNCHANGED <<wake, pong, batch, wire, late, writer, heard, reader, deadline, closed,
                       stopping>>
        /\ sender' \in {"idle", "waking"}
    BY <1>3 DEF SendQueues, Queues, writeVars
  <2>1. ending' \in Endings
    BY <1>3, <1>f DEF SendQueues, Queues
  <2>2. /\ accepted' \in 0 .. MaxFrames /\ queued' \in Nat /\ pending' \in Nat
        /\ queue' \in Seq(1 .. MaxFrames)
    <3>1. n \in 1 .. MaxFrames /\ Size[n] \in Nat
      BY <1>3, FramesAssumption DEF SendQueues, SocketInv, SenderFits
    <3>2. Append(queue, n) \in Seq(1 .. MaxFrames) /\ n \in 0 .. MaxFrames
      BY <3>1, FramesAssumption
    <3>3. queued + Size[n] \in Nat /\ pending + 1 \in Nat
      BY <3>1
    <3>4. \/ accepted' = accepted /\ queue' = queue /\ queued' = queued /\ pending' = pending
          \/ /\ accepted' = n /\ queue' = Append(queue, n)
             /\ queued' = queued + Size[n] /\ pending' = pending + 1
      BY <1>3 DEF SendQueues, Queues, sendVars
    <3>. QED BY <3>2, <3>3, <3>4
  <2>. QED BY <2>0, <2>1, <2>2
<1>4. CASE Serves
  <2>1. ending' \in Endings
    BY <1>4, <1>f DEF Serves, ReaderArms, ReaderReads, ReaderFails, HandlerReturns,
       HandlerPanics, ServeFinishes, ServeCloses
  <2>3. reader' \in {"arming", "reading", "relaying", "ended", "waiting", "left"}
        /\ deadline' \in {"none", "read", "grace", "passed"}
    BY <1>4 DEF Serves, ReaderArms, ReaderReads, ReaderFails, HandlerReturns,
       HandlerPanics, ServeFinishes, ServeCloses
  <2>4. UNCHANGED <<sendVars, wake, writeVars, sender, stopping>>
    BY <1>4 DEF Serves, ReaderArms, ReaderReads, ReaderFails, HandlerReturns,
       HandlerPanics, ServeFinishes, ServeCloses
  <2>. QED BY <2>1, <2>3, <2>4 DEF sendVars, writeVars
<1>5. CASE DeadlinePasses \/ Shutdown
  BY <1>5 DEF DeadlinePasses, Shutdown, sendVars, writeVars
<1>6. CASE WriterTakes
  BY <1>6 DEF WriterTakes, Taken
<1>7. CASE WriterCounts
  <2>1. batch # <<>>
    BY <1>7 DEF WriterCounts, SocketInv, BatchFitsWriter
  <2>2. Head(batch) \in Frame /\ Tail(batch) \in Seq(Frame) /\ Size[Head(batch)] \in Nat
        /\ Bytes(batch) = Size[Head(batch)] + Bytes(Tail(batch))
        /\ Bytes(Tail(batch)) \in Nat /\ Bytes(queue) \in Nat
    BY <2>1, BytesOfHead, BytesIsNat, FramesAssumption DEF Frames
  <2>3. queued - Size[Head(batch)] \in Nat
    BY <2>2, SMTT(30) DEF SocketInv, BacklogIsCounted
  <2>4. pending - 1 \in Nat
    <3>1. Len(batch) \in Nat /\ Len(batch) # 0 /\ Len(queue) \in Nat
      BY <2>1
    <3>. QED BY <3>1 DEF SocketInv, BacklogIsCounted
  <2>5. batch' \in Seq(Frame) /\ writer' \in {"top", "bursting"}
    <3>1. <<>> \in Seq(Frame) /\ Tail(batch) \in Seq(Frame)
      BY <2>2
    <3>. QED BY <1>7, <3>1 DEF WriterCounts
  <2>6. queued' \in Nat /\ pending' \in Nat
    BY <1>7, <2>3, <2>4 DEF WriterCounts
  <2>7. UNCHANGED <<accepted, queue, ending, wire, late, sender, reader, deadline>>
    BY <1>7 DEF WriterCounts
  <2>. QED BY <2>5, <2>6, <2>7
<1>8. CASE WriterBursts
  <2>1. ending' \in Endings
    BY <1>8, <1>f DEF WriterBursts, WriteFails
  <2>2. wire' \in [data : Seq(Frame), close : CloseFrames \cup {"none"}]
    <3>1. batch # <<>> => Head(batch) \in Frame
      BY TailFacts, Zenon DEF Frames
    <3>2. wire.data \in Seq(Frame)
      OBVIOUS
    <3>3. batch # <<>> => Append(wire.data, Head(batch)) \in Seq(Frame)
      BY <3>1, <3>2
    <3>. QED BY <1>8, <3>3 DEF WriterBursts
  <2>3. late' \in Nat /\ writer' \in {"top", "counting"}
    BY <1>8 DEF WriterBursts, Counted
  <2>5. UNCHANGED <<sendVars, wake, pong, batch, sender, heard, reader, deadline, stopping>>
    BY <1>8 DEF WriterBursts
  <2>. QED BY <2>1, <2>2, <2>3, <2>5 DEF sendVars
<1>9. CASE WriterPongs \/ WriterPings
  <2>1. ending' \in Endings
    BY <1>9, <1>f DEF WriterPongs, WriterPings, Control, WriteFails
  <2>2. late' \in Nat /\ writer' = "top"
    BY <1>9 DEF WriterPongs, WriterPings, Control, Counted
  <2>4. UNCHANGED <<sendVars, wake, batch, wire, sender, heard, reader, deadline, stopping>>
    BY <1>9 DEF WriterPongs, WriterPings, Control
  <2>. QED BY <2>1, <2>2, <2>4 DEF sendVars
<1>10. CASE WriterLooks \/ WriterSeesQuit \/ WriterHearsShutdown
  <2>1. ending' \in Endings
    BY <1>10, <1>f DEF WriterLooks, WriterSeesQuit, WriterHearsShutdown, GoesAway
  <2>. QED BY <1>10, <2>1 DEF WriterLooks, WriterSeesQuit, WriterHearsShutdown, sendVars
<1>11. CASE WriterSaysGoodbye \/ WriterCuts
  <2>1. wire' \in [data : Seq(Frame), close : CloseFrames \cup {"none"}]
    BY <1>11 DEF WriterSaysGoodbye, WriterCuts
  <2>. QED BY <1>11, <2>1 DEF WriterSaysGoodbye, WriterCuts, sendVars
<1>. QED BY <1>1, <1>2, <1>3, <1>4, <1>5, <1>6, <1>7, <1>8, <1>9, <1>10, <1>11
     DEF SocketNext, Sends, Writes

\* Every step keeps it.
LEMMA SocketInvStep == SocketInv /\ [SocketNext]_socketVars => SocketInv'
<1> SUFFICES ASSUME SocketInv, [SocketNext]_socketVars PROVE SocketInv'
  OBVIOUS
<1>1. SocketTyped'
  <2>1. Typed' /\ (Flags \subseteq BOOLEAN)'
    BY FlagsStep, SocketTypedStep
  <2>2. (Typed /\ Flags \subseteq BOOLEAN)' => SocketTyped'
    BY TypedParts, PTL
  <2>. QED BY <2>1, <2>2
<1>2. BacklogIsCounted' /\ BatchFitsWriter'
  BY BacklogStep, BatchFitsWriterStep
<1>3. LastWrite' /\ SenderFits' /\ FramesInOrder'
  BY LastWriteStep, SenderFitsStep, FramesInOrderStep
<1>. QED BY <1>1, <1>2, <1>3 DEF SocketInv

\* So it holds.
LEMMA SocketHasInv == SocketSpec => []SocketInv
  BY SocketInvInit, SocketInvStep, PTL DEF SocketSpec

\* It bounds what a slow peer costs.
LEMMA BoundedByInv == SocketInv => SlowPeersAreBounded
<1> SUFFICES ASSUME SocketInv PROVE SlowPeersAreBounded
  OBVIOUS
<1> USE DEF SocketInv, SocketTyped, SocketTypeOK
<1>1. Bytes(Waiting) = Bytes(queue) + Bytes(batch) /\ Bytes(queue) \in Nat /\ Bytes(batch) \in Nat
  BY BytesOfConcat, BytesIsNat DEF Waiting, Frames
<1>2. Len(Waiting) = Len(queue) + Len(batch) /\ Len(queue) \in Nat /\ Len(batch) \in Nat
  BY DEF Waiting
<1>3. Bytes(Waiting) <= QueueBytes /\ Len(Waiting) <= QueueFrames
  BY <1>1, <1>2, FramesAssumption DEF BacklogIsCounted
<1>4. BacklogBounded
  BY <1>3 DEF BacklogBounded, Bytes
<1>. QED BY <1>4 DEF SlowPeersAreBounded, FewAfterEnding, LastWrite

\* A socket whose peer does not read holds no more frames and bytes than its
\* bounds, with what its writer has taken, and begins one write at most after the
\* close that was decided (websocket_conn.go send, writeLoop), whatever the frames,
\* their sizes and the bounds.
THEOREM SocketIsBounded == SocketSpec => []SlowPeersAreBounded
  BY SocketHasInv, BoundedByInv, PTL

\* A socket starts as a channel does.
LEMMA ChannelInit == SocketInit => Channel!Init
  BY DEF SocketInit, Channel!Init, Over

\* Each step is one of the channel's: a frame queued, the next one delivered, the end.
LEMMA ChannelStep ==
  ASSUME SocketInv, [SocketNext]_socketVars PROVE [Channel!Next]_Channel!vars
<1> USE DEF SocketInv, SocketTyped, SocketTypeOK, Channel!vars
<1> DEFINE Same == accepted' = accepted /\ wire'.data = wire.data
<1>0. Same /\ (Over' = Over \/ Over' = TRUE) => [Channel!Next]_Channel!vars
  BY DEF Channel!Next, Channel!End
<1>e. (Ended => Ended') /\ sender' = sender => (Over' = Over \/ Over' = TRUE)
  BY DEF Over
<1>1. CASE UNCHANGED socketVars
  BY <1>0, <1>1 DEF socketVars, sendVars, writeVars, Over, Ended
<1>2. CASE SendLooks \/ SendWakes
  <2>1. Same /\ Over' = Over
    BY <1>2 DEF SendLooks, SendWakes, sendVars, writeVars, Over, Ended
  <2>. QED BY <1>0, <2>1
<1>3. CASE SendQueues
  <2> DEFINE n == accepted + 1
  <2>1. CASE Full(n)
    <3>1. Same /\ Over' = TRUE
      BY <1>3, <2>1 DEF SendQueues, Queues, sendVars, writeVars, Over, Ended, Finish
    <3>. QED BY <1>0, <3>1
  <2>2. CASE ~Full(n)
    <3>1. accepted' = accepted + 1 /\ wire'.data = wire.data /\ Over = FALSE /\ Over' \in BOOLEAN
      BY <1>3, <2>2 DEF SendQueues, Queues, writeVars, Over
    <3>2. accepted - Len(wire.data) < QueueFrames
      <4>1. pending + Written = accepted /\ pending < QueueFrames
        BY <2>2, FramesAssumption DEF Full, FramesInOrder
      <4>2. Written <= Len(wire.data) /\ Written \in Int /\ Len(wire.data) \in Nat
        BY DEF Written
      <4>. QED BY <4>1, <4>2, FramesAssumption
    <3>. QED BY <3>1, <3>2 DEF Channel!Next, Channel!Accept
  <2>. QED BY <2>1, <2>2
<1>4. CASE Serves \/ DeadlinePasses \/ Shutdown
  <2>1. Same /\ sender' = sender /\ (Ended => Ended')
    BY <1>4 DEF Serves, ReaderArms, ReaderReads, ReaderFails, HandlerReturns, HandlerPanics,
       ServeFinishes, ServeCloses, DeadlinePasses, Shutdown, sendVars, writeVars, Ended, Finish
  <2>. QED BY <1>0, <1>e, <2>1
<1>5. CASE WriterBursts
  <2>1. accepted' = accepted /\ sender' = sender /\ (Ended => Ended')
    BY <1>5 DEF WriterBursts, sendVars, Ended, Finish, WriteFails
  <2>2. CASE writer' # "counting"
    <3>1. Same
      BY <1>5, <2>1, <2>2 DEF WriterBursts
    <3>. QED BY <1>0, <1>e, <2>1, <3>1
  <2>3. CASE writer' = "counting"
    <3>1. /\ batch # <<>> /\ ending' = ending
          /\ wire' = [wire EXCEPT !.data = Append(@, Head(batch))]
      BY <1>5, <2>3 DEF WriterBursts
    <3>2. Head(batch) = Len(wire.data) + 1 /\ Len(wire.data) < accepted
      <4>1. Len(batch) \in Nat /\ Len(batch) # 0 /\ Len(queue) \in Nat /\ 1 \in DOMAIN batch
        BY <3>1
      <4>. QED BY <1>5, <3>1, <4>1 DEF WriterBursts, FramesInOrder, Written, Busy
    <3>3. wire'.data = Append(wire.data, Len(wire.data) + 1) /\ Over' = Over
      BY <2>1, <3>1, <3>2 DEF Over, Ended
    <3>. QED BY <2>1, <3>2, <3>3 DEF Channel!Next, Channel!Deliver
  <2>. QED BY <2>2, <2>3
<1>6. CASE \/ WriterLooks \/ WriterSeesQuit \/ WriterHearsShutdown \/ WriterPongs
           \/ WriterPings \/ WriterTakes \/ WriterCounts \/ WriterSaysGoodbye \/ WriterCuts
  <2>1. Same /\ sender' = sender
    BY <1>6 DEF WriterLooks, WriterSeesQuit, WriterHearsShutdown, WriterPongs, WriterPings,
       WriterTakes, WriterCounts, WriterSaysGoodbye, WriterCuts, Control, sendVars
  <2>2. Ended => Ended'
    BY <1>6 DEF WriterLooks, WriterSeesQuit, WriterHearsShutdown, WriterPongs, WriterPings,
       WriterTakes, WriterCounts, WriterSaysGoodbye, WriterCuts, Control, WriteFails, GoesAway,
       Finish, Ended
  <2>. QED BY <1>0, <1>e, <2>1, <2>2
<1>. QED BY <1>1, <1>2, <1>3, <1>4, <1>5, <1>6 DEF SocketNext, Sends, Writes

\* A socket implements WsChannel: frames reach the peer in the order the relay sent
\* them, none skipped, within the bound, or the socket ends.
THEOREM SocketKeepsOrder == SocketSpec => KeepsOrder
<1>1. SocketInv /\ [SocketNext]_socketVars => [Channel!Next]_Channel!vars
  BY ChannelStep
<1>. QED BY SocketHasInv, ChannelInit, <1>1, PTL DEF SocketSpec, KeepsOrder, Channel!Spec
-----------------------------------------------------------------------------
(* A start.  What it was given settles before anything is resolved from it; *)
(* the front comes with the step that spawns it and takes what this process *)
(* resolved.                                                                *)

\* the launch settles before anything is resolved
LaunchSettles ==
  /\ depth \in {0, 1}
  /\ depth = 0 => launch \in Launches
  /\ depth = 1 => ~NeedsReexec(launch)
  /\ launchStep # "launched" => ~NeedsReexec(launch)

\* each process is where its state says, and the front comes with its step
BootOrder ==
  /\ launchStep \in {"launched", "port", "tree", "front", "serve", "serving"}
  /\ proc["parent"] \in {"off", "up", "gone"}
  /\ proc["start"] \in {"loading", "up", "gone"}
  /\ proc["front"] \in {"off", "up", "signalled", "draining", "gone"}
  /\ proc["parent"] = "off" <=> depth = 0
  /\ proc["start"] = "loading" => launchStep = "launched"
  /\ proc["start"] = "up" => launchStep # "launched"
  /\ proc["front"] = "off" <=> launchStep \in {"launched", "port", "tree", "front"}

\* one address and one key for both halves, and the switches of the launch
HalvesShare ==
  /\ launchStep \in {"tree", "front", "serve", "serving"} =>
       mine.port \in Ports /\ mine.key \in {"long", "minted"}
  /\ proc["front"] # "off" => its = mine
  /\ launchStep = "serving" /\ proc["start"] # "gone" => listeners[mine.port] = "us"
  /\ switches = Noone \/ (launchStep = "serving" /\ switches = ResolveSwitches(launch) /\ Resolved(switches))

SettingsInv ==
  /\ DOMAIN proc = Procs
  /\ DOMAIN listeners = Ports
  /\ LaunchSettles
  /\ BootOrder
  /\ HalvesShare

\* An exit, in the terms of the invariants.
LEMMA GoneMoves ==
  ASSUME DOMAIN proc = Procs, NEW p \in Procs, NEW c, Gone(p, c)
  PROVE  /\ DOMAIN proc' = Procs /\ proc'[p] = "gone"
         /\ \A q \in Procs \ {p} : proc'[q] = proc[q]
         /\ p # "start" => UNCHANGED listeners
         /\ p = "start" => listeners' = [q \in Ports |-> IF listeners[q] = "us" THEN Noone ELSE listeners[q]]
  BY DEF Gone

\* What is left of the settings while the boot stands: the start may end, and
\* its listeners with it.
StartEnds ==
  /\ UNCHANGED <<launch, depth, launchStep, mine, its, switches>>
  /\ DOMAIN proc' = Procs /\ DOMAIN listeners' = Ports
  /\ proc'["parent"] = proc["parent"]
  /\ proc'["start"] = "gone"
  /\ proc'["front"] = proc["front"] \/ (proc["front"] \in {"up", "signalled", "draining"} /\ proc'["front"] = "gone")

\* Or one of the others moves, and whoever binds a port binds a free one.
OthersMove ==
  /\ UNCHANGED <<launch, depth, launchStep, mine, its, switches>>
  /\ DOMAIN proc' = Procs /\ DOMAIN listeners' = Ports
  /\ proc'["start"] = proc["start"]
  /\ \/ proc'["parent"] = proc["parent"]
     \/ proc["parent"] = "up" /\ proc'["parent"] = "gone"
  /\ \/ proc'["front"] = proc["front"]
     \/ proc["front"] # "off" /\ proc'["front"] \in {"up", "signalled", "draining", "gone"}
  /\ \A p \in Ports : listeners[p] # Noone => listeners'[p] = listeners[p]

LEMMA SettingsInvInit == LaunchInit => SettingsInv
  BY DEF LaunchInit, SettingsInv, LaunchSettles, BootOrder, HalvesShare, Procs

LEMMA EndsKeepSettings == SettingsInv /\ StartEnds => SettingsInv'
  BY DEF SettingsInv, StartEnds, LaunchSettles, BootOrder, HalvesShare

LEMMA OthersKeepSettings == SettingsInv /\ OthersMove => SettingsInv'
  <1> SUFFICES ASSUME SettingsInv, OthersMove PROVE SettingsInv'
    OBVIOUS
  <1>1. DOMAIN proc' = Procs /\ DOMAIN listeners' = Ports /\ LaunchSettles' /\ BootOrder'
    BY DEF SettingsInv, OthersMove, LaunchSettles, BootOrder
  <1>2. HalvesShare'
    <2>1. launchStep = "serving" /\ proc["start"] # "gone" => listeners'[mine.port] = "us"
      BY LaunchAssumption DEF SettingsInv, OthersMove, HalvesShare
    <2> QED
      BY <2>1 DEF SettingsInv, OthersMove, BootOrder, HalvesShare
  <1> QED
    BY <1>1, <1>2 DEF SettingsInv

LEMMA ExitsAreEnds ==
  ASSUME SettingsInv, NEW c, proc["start"] # "gone", Exits(c)
  PROVE  StartEnds
  <1>1. Gone("start", c) /\ UNCHANGED <<launch, depth, launchStep, mine, its, switches>>
    BY DEF Exits
  <1>2. "start" \in Procs /\ "parent" \in Procs /\ "front" \in Procs
    BY DEF Procs
  <1> QED
    BY <1>1, <1>2, GoneMoves DEF StartEnds, SettingsInv

\* Blank texts are replaced by texts that are not.
LEMMA StartEnvSettles ==
  ASSUME NEW l \in Launches PROVE ~NeedsReexec(StartEnv(l))
  <1>1. {"node", "pool"} \subseteq DOMAIN l
    BY LaunchAssumption
  <1>2. /\ StartEnv(l).node = IF Blank(l.node) THEN "production" ELSE l.node
        /\ StartEnv(l).pool = IF Blank(l.pool) THEN "16384" ELSE l.pool
    BY <1>1 DEF StartEnv
  <1>3. ~Blank("production") /\ ~Blank("16384")
    BY LaunchAssumption DEF Blank
  <1> QED
    BY <1>2, <1>3 DEF NeedsReexec

\* The port a start resolves is a port.
LEMMA ResolvedIsPort == ResolvedPorts \subseteq Ports
  <1>1. NamedRenderPort(launch.port) \in Ports \cup {Noone, RefusedSetting}
    BY DEF NamedRenderPort
  <1> QED
    BY <1>1 DEF ResolvedPorts

LEMMA BootsKeepSettings == SettingsInv /\ LaunchBoots => SettingsInv'
  <1> SUFFICES ASSUME SettingsInv, LaunchBoots PROVE SettingsInv'
    OBVIOUS
  <1> USE DEF SettingsInv
  <1>1. CASE Reexec
    <2>1. depth = 0 /\ launch \in Launches
      BY <1>1 DEF Reexec, LaunchSettles
    <2>2. ~NeedsReexec(launch') /\ depth' = 1 /\ launchStep' = "launched"
      BY <1>1, <2>1, StartEnvSettles DEF Reexec
    <2>3. LaunchSettles'
      BY <1>1, <2>2 DEF Reexec, LaunchSettles
    <2>4. BootOrder' /\ HalvesShare' /\ DOMAIN proc' = Procs /\ DOMAIN listeners' = Ports
      BY <1>1, <2>1, <2>2 DEF Reexec, BootOrder, HalvesShare, Procs
    <2> QED
      BY <2>3, <2>4
  <1>2. CASE Installs
    BY <1>2 DEF Installs, LaunchSettles, BootOrder, HalvesShare, bootVars, Procs
  <1>3. CASE ResolveRenderPort
    <2>1. CASE Exits(1)
      BY <1>3, <2>1, ExitsAreEnds, EndsKeepSettings DEF ResolveRenderPort, At
    <2>2. ASSUME NEW p \in ResolvedPorts, mine' = Topology(launch, p), To("tree"),
                 UNCHANGED <<depth, its, switches, listeners>>
          PROVE  SettingsInv'
      <3>1. mine'.port \in Ports /\ mine'.key \in {"long", "minted"}
        BY <2>2, ResolvedIsPort DEF Topology
      <3> QED
        BY <1>3, <2>2, <3>1 DEF ResolveRenderPort, At, To, LaunchSettles, BootOrder, HalvesShare
    <2> QED
      BY <1>3, <2>1, <2>2 DEF ResolveRenderPort
  <1>4. CASE Rebuilds
    <2>1. CASE Exits(1)
      BY <1>4, <2>1, ExitsAreEnds, EndsKeepSettings DEF Rebuilds, At
    <2>2. CASE To("front") /\ UNCHANGED bootVars
      BY <1>4, <2>2 DEF Rebuilds, At, To, bootVars, LaunchSettles, BootOrder, HalvesShare
    <2> QED
      BY <1>4, <2>1, <2>2 DEF Rebuilds
  <1>5. CASE SpawnsFront
    <2>1. CASE Exits(1)
      BY <1>5, <2>1, ExitsAreEnds, EndsKeepSettings DEF SpawnsFront, At
    <2>2. CASE ~Exits(1)
      <3>1. /\ proc' = [proc EXCEPT !["front"] = "up"]
            /\ its' = mine /\ launchStep' = "serve" /\ launchStep = "front" /\ proc["start"] = "up"
            /\ UNCHANGED <<launch, depth, mine, switches, listeners>>
        BY <1>5, <2>2 DEF SpawnsFront, At, GoFrontEnv
      <3> QED
        BY <3>1 DEF LaunchSettles, BootOrder, HalvesShare, Procs
    <2> QED
      BY <2>1, <2>2
  <1>6. CASE StartServes
    <2>1. CASE Exits(1)
      BY <1>6, <2>1, ExitsAreEnds, EndsKeepSettings DEF StartServes, At
    <2>2. CASE ~Exits(1)
      <3>1. /\ switches' = ResolveSwitches(launch) /\ Resolved(switches')
            /\ listeners' = [listeners EXCEPT ![mine.port] = "us"]
            /\ launchStep' = "serving" /\ launchStep = "serve" /\ proc["start"] = "up"
            /\ UNCHANGED <<launch, proc, depth, mine, its>>
        BY <1>6, <2>2 DEF StartServes, At, To
      <3>2. listeners'[mine.port] = "us"
        BY <3>1 DEF HalvesShare
      <3> QED
        BY <3>1, <3>2 DEF LaunchSettles, BootOrder, HalvesShare
    <2> QED
      BY <2>1, <2>2
  <1> QED
    BY <1>1, <1>2, <1>3, <1>4, <1>5, <1>6 DEF LaunchBoots

LEMMA StopsKeepSettings ==
  SettingsInv /\ (StartIsOver \/ AnotherBinds \/ FrontRefuses \/ Requested \/ AnswersRequest
                  \/ AsksToStop \/ PressesCtrlC \/ Killed)
    => SettingsInv'
  <1> SUFFICES ASSUME SettingsInv,
                      StartIsOver \/ AnotherBinds \/ FrontRefuses \/ Requested \/ AnswersRequest
                      \/ AsksToStop \/ PressesCtrlC \/ Killed
               PROVE  StartEnds \/ OthersMove
    BY EndsKeepSettings, OthersKeepSettings
  <1>0. /\ "start" \in Procs /\ "parent" \in Procs /\ "front" \in Procs
        /\ DOMAIN proc = Procs /\ DOMAIN listeners = Ports
    BY DEF Procs, SettingsInv
  <1>1. CASE ParentForwards \/ StopPassesOn \/ Requested \/ AnswersRequest \/ AsksToStop \/ PressesCtrlC
    <2>1. UNCHANGED <<launch, proc, launchStep, depth, mine, its, switches, listeners>>
      BY <1>1 DEF ParentForwards, StopPassesOn, Requested, AnswersRequest, AsksToStop, PressesCtrlC,
                  bootVars, procVars
    <2> QED
      BY <1>0, <2>1 DEF OthersMove
  <1>2. CASE AnotherBinds
    <2>1. UNCHANGED <<launch, proc, launchStep, depth, mine, its, switches>>
      BY <1>2 DEF AnotherBinds, procVars
    <2>2. PICK p \in Ports : listeners[p] = Noone /\ listeners' = [listeners EXCEPT ![p] = "another"]
      BY <1>2 DEF AnotherBinds
    <2> QED
      BY <1>0, <2>1, <2>2 DEF OthersMove
  <1>3. CASE StartDiesEarly
    BY <1>0, <1>3, GoneMoves DEF StartDiesEarly, StartEnds
  <1>4. CASE StopInsists
    BY <1>0, <1>4 DEF StopInsists, StartEnds, SettingsInv, BootOrder, Alive
  <1>5. CASE FrontExited \/ StartWatches
    BY <1>5, ExitsAreEnds DEF FrontExited, StartFollows, StartWatches
  <1>6. CASE FrontHears \/ FrontRestores \/ FrontWatches
    BY <1>0, <1>6 DEF FrontHears, FrontRestores, FrontWatches, OthersMove, bootVars
  <1>7. CASE FrontIsCutShort \/ FrontDrains \/ FrontRefuses
    <2>1. PICK c \in {0, 1, 143} : Gone("front", c)
      BY <1>7 DEF FrontIsCutShort, FrontDrains, FrontRefuses
    <2>2. proc["front"] # "off" /\ UNCHANGED <<launch, launchStep, depth, mine, its, switches>>
      BY <1>7 DEF FrontIsCutShort, FrontDrains, FrontRefuses
    <2> QED
      BY <1>0, <2>1, <2>2, GoneMoves DEF OthersMove
  <1>8. CASE ParentExits
    BY <1>0, <1>8, GoneMoves DEF ParentExits, OthersMove
  <1>9. CASE Killed
    <2>1. PICK p \in Procs : Alive(p) /\ Gone(p, 137)
      BY <1>9 DEF Killed
    <2>2. UNCHANGED <<launch, launchStep, depth, mine, its, switches>>
      BY <1>9 DEF Killed
    <2>3. /\ DOMAIN proc' = Procs /\ proc'[p] = "gone"
          /\ \A q \in Procs \ {p} : proc'[q] = proc[q]
          /\ p # "start" => UNCHANGED listeners
          /\ p = "start" => DOMAIN listeners' = Ports
      BY <1>0, <2>1, GoneMoves
    <2>4. CASE p = "start"
      BY <1>0, <2>2, <2>3, <2>4 DEF StartEnds
    <2>5. CASE p = "parent"
      BY <1>0, <2>1, <2>2, <2>3, <2>5 DEF OthersMove, Alive, SettingsInv, BootOrder
    <2>6. CASE p = "front"
      BY <1>0, <2>1, <2>2, <2>3, <2>6 DEF OthersMove, Alive
    <2> QED
      BY <2>4, <2>5, <2>6 DEF Procs
  <1> QED
    BY <1>1, <1>2, <1>3, <1>4, <1>5, <1>6, <1>7, <1>8, <1>9 DEF StartIsOver

LEMMA SettingsInvStep == SettingsInv /\ [LaunchNext]_launchVars => SettingsInv'
  <1>1. SettingsInv /\ UNCHANGED launchVars => SettingsInv'
    BY DEF launchVars, procVars, bootVars, loadVars, SettingsInv, LaunchSettles, BootOrder, HalvesShare
  <1> QED
    BY <1>1, BootsKeepSettings, StopsKeepSettings DEF LaunchNext

\* A variable means one thing to all who read it: the run of itself settles
\* the environment, both halves of a start have one address and one key, and a
\* protection is off only when its variable spells that (cli.ts, util.ts
\* envBool, envInt, resolveRenderPort).
THEOREM SettingsAreOne == LaunchSpec => []SettingsMeanOneThing
  <1>1. SettingsInv => SettingsMeanOneThing
    <2> SUFFICES ASSUME SettingsInv PROVE HalvesMeet /\ ProtectionsStay
      BY DEF SettingsMeanOneThing
    <2>1. HalvesMeet
      BY DEF SettingsInv, LaunchSettles, BootOrder, HalvesShare, HalvesMeet, Alive
    <2>2. ProtectionsStay
      <3> SUFFICES ASSUME switches # Noone
                   PROVE  /\ switches.headers = FALSE => launch.headers \in FalseTexts
                          /\ switches.csrf = FALSE => launch.csrf \in FalseTexts
                          /\ switches.csp = "off" => launch.csp \in FalseTexts
                          /\ switches.maxBody = "0" => launch.maxBody = "0"
        BY DEF ProtectionsStay
      <3>1. /\ switches = ResolveSwitches(launch)
            /\ \A name \in {"headers", "csp", "csrf", "maxBody"} : switches[name] # RefusedSetting
        BY DEF SettingsInv, HalvesShare, Resolved, ResolveSwitches
      <3>2. /\ switches.headers = EnvBool(launch.headers, TRUE)
            /\ switches.csrf = EnvBool(launch.csrf, TRUE)
            /\ switches.csp = CspSetting(launch.csp)
            /\ switches.maxBody = EnvInt(launch.maxBody, "32 MiB")
        BY <3>1 DEF ResolveSwitches
      <3>3. \A t : EnvBool(t, TRUE) = FALSE => EnvBool(t, TRUE) = RefusedSetting \/ t \in FalseTexts
        BY DEF EnvBool
      <3>4. \A t : CspSetting(t) = "off" => CspSetting(t) = RefusedSetting \/ t \in FalseTexts
        BY LaunchAssumption DEF CspSetting
      <3>5. \A t : EnvInt(t, "32 MiB") = "0" => EnvInt(t, "32 MiB") = RefusedSetting \/ t = "0"
        BY DEF EnvInt
      <3> QED
        BY <3>1, <3>2, <3>3, <3>4, <3>5
    <2> QED
      BY <2>1, <2>2
  <1> QED
    BY SettingsInvInit, SettingsInvStep, <1>1, PTL DEF LaunchSpec

-----------------------------------------------------------------------------
(* The end of a start.  The one signal of a service manager is in one place *)
(* at a time - on its way, or heard by the front, which winds up - and so   *)
(* no second one cuts a drain short; what ends otherwise ends with a code   *)
(* that says so.                                                            *)

Heard == proc["front"] \in {"signalled", "draining"}
Signalled == signals["front"] + (IF Heard THEN 1 ELSE 0)

\* gestures are numbered by how many went before
GesturesCount ==
  /\ IsFiniteSet(gestures)
  /\ \A g \in gestures : g[1] \in Nat /\ g[1] < Cardinality(gestures)

\* a signal is sent to a process that is there
SignalsTyped ==
  /\ signals \in [Procs -> Nat]
  /\ \A p \in Procs : signals[p] > 0 => Alive(p)

\* a signal comes from a gesture
SignalsComeFromGestures == gestures = {} => ~stopAsked /\ \A p \in Procs : signals[p] = 0

\* a request waits for a front that serves
LoadIsServed ==
  inFlight # {} => launchStep = "serving" /\ proc["front"] \notin {"off", "gone"}

\* nobody is killed: what ends is ended by its own
OwnEnds ==
  kills = 0 =>
    /\ proc["parent"] = "gone" => proc["start"] = "gone" /\ exitCode["parent"] = exitCode["start"]
    /\ proc["front"] = "gone" /\ proc["start"] # "gone" => exitCode["front"] \in {0, 1, 143}
    /\ proc["start"] # "gone" /\ ~stopAsked =>
         /\ Signalled <= Cardinality(gestures)
         /\ proc["front"] = "gone" =>
              /\ exitCode["front"] = 0 => gestures # {}
              /\ exitCode["front"] = 143 => Cardinality(gestures) > 1
    /\ proc["start"] = "gone" /\ ~early =>
         /\ exitCode["start"] = 0 => gestures # {}
         /\ exitCode["start"] # 0 => Cardinality(gestures) > 1 \/ exitCode["start"] = 1

\* all the operator did is one kill
OneKill == gestures = {<<0, "kill">>}

\* one stop is one signal, wherever it has got to
OneSignal ==
  kills = 0 /\ (gestures = {} \/ OneKill) =>
    /\ proc["start"] # "gone" =>
         /\ signals["parent"] + signals["start"] + Signalled <= 1
         /\ stopAsked => signals["parent"] = 0 /\ signals["start"] = 0
         /\ ~stopAsked => Signalled = 0
    /\ proc["start"] = "gone" => launchStep # "serving" \/ proc["front"] = "gone"
    /\ gaveUp \/ dropped = {}

StopsInv ==
  /\ DOMAIN exitCode = Procs
  /\ GesturesCount
  /\ SignalsTyped
  /\ SignalsComeFromGestures
  /\ LoadIsServed
  /\ OwnEnds
  /\ OneSignal

\* a gesture more
LEMMA OneMoreGesture ==
  ASSUME GesturesCount, NEW w, gestures' = gestures \cup {<<Cardinality(gestures), w>>}
  PROVE  /\ GesturesCount'
         /\ Cardinality(gestures) \in Nat
         /\ Cardinality(gestures') = Cardinality(gestures) + 1
         /\ gestures' # {}
  <1> DEFINE n == Cardinality(gestures)
  <1>1. n \in Nat /\ <<n, w>> \notin gestures
    <2>1. n \in Nat
      BY FS_CardinalityType DEF GesturesCount
    <2>2. ASSUME <<n, w>> \in gestures PROVE FALSE
      <3>1. <<n, w>>[1] < n
        BY <2>2 DEF GesturesCount
      <3> QED
        BY <2>1, <3>1
    <2> QED
      BY <2>1, <2>2
  <1>2. IsFiniteSet(gestures') /\ Cardinality(gestures') = n + 1
    BY <1>1, FS_AddElement DEF GesturesCount
  <1>3. \A g \in gestures' : g[1] \in Nat /\ g[1] < Cardinality(gestures')
    <2> SUFFICES ASSUME NEW g \in gestures' PROVE g[1] \in Nat /\ g[1] < n + 1
      BY <1>2
    <2>1. CASE g \in gestures
      BY <1>1, <2>1 DEF GesturesCount
    <2>2. CASE g = <<n, w>>
      BY <1>1, <2>2
    <2> QED
      BY <2>1, <2>2
  <1> QED
    BY <1>1, <1>2, <1>3 DEF GesturesCount

\* What no step but a gesture changes of the gestures.
LEMMA GesturesStand ==
  ASSUME GesturesCount, UNCHANGED gestures
  PROVE  /\ GesturesCount' /\ Cardinality(gestures) \in Nat
         /\ Cardinality(gestures) = 0 <=> gestures = {}
  BY FS_CardinalityType, FS_EmptySet DEF GesturesCount

LEMMA StopsInvInit == LaunchInit => StopsInv
  <1> SUFFICES ASSUME LaunchInit PROVE StopsInv
    OBVIOUS
  <1>1. GesturesCount
    BY FS_EmptySet DEF LaunchInit, GesturesCount
  <1>2. signals \in [Procs -> Nat] /\ \A p \in Procs : signals[p] = 0
    BY DEF LaunchInit
  <1>3. proc["start"] = "loading" /\ proc["front"] = "off" /\ proc["parent"] = "off"
    BY DEF LaunchInit, Procs
  <1>4. Signalled = 0
    BY <1>2, <1>3 DEF Signalled, Heard, Procs
  <1>5. SignalsTyped /\ SignalsComeFromGestures /\ LoadIsServed /\ OneSignal
    BY <1>2, <1>3, <1>4
       DEF LaunchInit, SignalsTyped, SignalsComeFromGestures, LoadIsServed, OneSignal, Procs
  <1>6. Cardinality(gestures) = 0
    BY FS_EmptySet DEF LaunchInit
  <1>7. OwnEnds
    BY <1>3, <1>4, <1>6 DEF LaunchInit, OwnEnds
  <1> QED
    BY <1>1, <1>5, <1>7 DEF StopsInv, LaunchInit

\* The boot goes on, and whoever is signalled stays so.
BootStands ==
  /\ UNCHANGED <<signals, stopAsked, gestures, kills, early, inFlight, dropped, gaveUp, exitCode>>
  /\ inFlight = {}
  /\ proc["start"] # "gone" /\ proc'["start"] \in {"loading", "up"}
  /\ \/ proc'["front"] = proc["front"]
     \/ proc["front"] = "off" /\ proc'["front"] = "up"
  /\ \/ proc'["parent"] = proc["parent"]
     \/ proc["parent"] = "off" /\ proc'["parent"] = "up"

LEMMA BootStandsKeepsStops ==
  ASSUME SettingsInv, StopsInv, BootStands PROVE StopsInv'
  <1> USE DEF StopsInv, BootStands
  <1>1. GesturesCount' /\ DOMAIN exitCode' = Procs
    BY GesturesStand
  <1>2. SignalsTyped'
    BY DEF SignalsTyped, Procs, Alive
  <1>3. SignalsComeFromGestures' /\ LoadIsServed'
    BY DEF SignalsComeFromGestures, LoadIsServed
  <1>4. Signalled' = Signalled
    BY DEF Signalled, Heard
  <1>5. OwnEnds'
    BY <1>4 DEF OwnEnds
  <1>6. OneSignal'
    BY <1>4 DEF OneSignal, OneKill
  <1> QED
    BY <1>1, <1>2, <1>3, <1>5, <1>6

\* The start ends with c, and what is in flight with it.
StartEndsWith(c) ==
  /\ proc["start"] # "gone" /\ proc'["start"] = "gone"
  /\ UNCHANGED <<gestures, kills, gaveUp, stopAsked, launchStep>>
  /\ proc'["parent"] = proc["parent"] /\ signals'["parent"] = signals["parent"]
  /\ signals' \in [Procs -> Nat] /\ signals'["start"] = 0
  /\ \/ proc'["front"] = proc["front"] /\ signals'["front"] = signals["front"]
     \/ proc["front"] # "off" /\ proc'["front"] = "gone" /\ signals'["front"] = 0
  /\ DOMAIN exitCode' = Procs
  /\ exitCode'["start"] = c
  /\ \A p \in {"parent", "front"} : exitCode'[p] = exitCode[p]
  /\ inFlight' = {} /\ dropped' = dropped \cup inFlight
  /\ early => early'

LEMMA StartEndsKeepsStops ==
  ASSUME SettingsInv, StopsInv, NEW c, StartEndsWith(c),
         kills = 0 /\ ~early' =>
           /\ c = 0 => gestures # {}
           /\ c # 0 => Cardinality(gestures) > 1 \/ c = 1,
         kills = 0 /\ (gestures = {} \/ OneKill) =>
           /\ inFlight = {}
           /\ launchStep # "serving" \/ proc'["front"] = "gone"
  PROVE  StopsInv'
  <1> USE DEF StopsInv, StartEndsWith
  <1>1. GesturesCount'
    BY GesturesStand
  <1>2. SignalsTyped'
    BY DEF SignalsTyped, Procs, Alive
  <1>3. SignalsComeFromGestures' /\ LoadIsServed'
    BY DEF SignalsComeFromGestures, LoadIsServed, Procs
  <1>4. OwnEnds'
    BY DEF OwnEnds
  <1>5. OneSignal'
    BY DEF OneSignal, OneKill
  <1> QED
    BY <1>1, <1>2, <1>3, <1>4, <1>5

LEMMA StartGone ==
  ASSUME SettingsInv, StopsInv, NEW c, proc["start"] # "gone", Gone("start", c),
         UNCHANGED <<gestures, kills, gaveUp, stopAsked, launchStep>>, early => early'
  PROVE  StartEndsWith(c) /\ UNCHANGED proc["front"]
  <1>1. DOMAIN proc = Procs /\ signals \in [Procs -> Nat] /\ DOMAIN exitCode = Procs
    BY DEF SettingsInv, StopsInv, SignalsTyped
  <1> QED
    BY <1>1 DEF Gone, StartEndsWith, Procs

LEMMA ExitsEndIt ==
  ASSUME SettingsInv, StopsInv, NEW c, proc["start"] # "gone", Exits(c)
  PROVE  StartEndsWith(c) /\ UNCHANGED proc["front"]
  BY StartGone DEF Exits

\* Nothing is in flight before the start serves.
LEMMA BootsKeepStops ==
  ASSUME SettingsInv, StopsInv, LaunchBoots, SettingsInv' PROVE StopsInv'
  <1>0. /\ DOMAIN proc = Procs /\ {"start", "front", "parent"} = Procs
        /\ launchStep # "serving" => inFlight = {}
    BY DEF SettingsInv, StopsInv, LoadIsServed, Procs
  <1>1. CASE Reexec
    <2>1. BootStands
      BY <1>0, <1>1 DEF Reexec, BootStands, SettingsInv, LaunchSettles, BootOrder, loadVars
    <2> QED
      BY <2>1, BootStandsKeepsStops
  <1>2. CASE Installs
    <2>1. BootStands
      BY <1>0, <1>2 DEF Installs, BootStands, SettingsInv, BootOrder, loadVars
    <2> QED
      BY <2>1, BootStandsKeepsStops
  <1>3. CASE proc["start"] = "up" /\ launchStep \in {"port", "tree", "front", "serve"} /\ Exits(1)
    BY <1>0, <1>3, ExitsEndIt, StartEndsKeepsStops
  <1>4. ASSUME NEW where, To(where), proc["start"] = "up", launchStep # "serving" PROVE StopsInv'
    <2>1. BootStands
      BY <1>0, <1>4 DEF To, BootStands, loadVars
    <2> QED
      BY <2>1, BootStandsKeepsStops
  <1>5. CASE SpawnsFront /\ ~Exits(1)
    <2>1. BootStands
      BY <1>0, <1>5 DEF SpawnsFront, At, BootStands, SettingsInv, BootOrder, loadVars
    <2> QED
      BY <2>1, BootStandsKeepsStops
  <1> QED
    BY <1>1, <1>2, <1>3, <1>4, <1>5
       DEF LaunchBoots, ResolveRenderPort, Rebuilds, SpawnsFront, StartServes, At

\* The front ends by itself.
LEMMA FrontEndsKeepsStops ==
  ASSUME SettingsInv, StopsInv, NEW c \in {0, 1, 143}, Gone("front", c),
         proc["front"] # "off",
         UNCHANGED <<launchStep, stopAsked, gestures, kills, early>>,
         gaveUp => gaveUp',
         kills = 0 /\ ~stopAsked /\ proc["start"] # "gone" =>
           /\ c = 0 => gestures # {}
           /\ c = 143 => Cardinality(gestures) > 1,
         kills = 0 /\ (gestures = {} \/ OneKill) => gaveUp' \/ inFlight = {}
  PROVE  StopsInv'
  <1> USE DEF StopsInv
  <1>0. DOMAIN proc = Procs /\ signals \in [Procs -> Nat] /\ DOMAIN exitCode = Procs
    BY DEF SettingsInv, SignalsTyped
  <1>1. /\ proc'["front"] = "gone" /\ proc'["start"] = proc["start"] /\ proc'["parent"] = proc["parent"]
        /\ signals' \in [Procs -> Nat] /\ signals'["front"] = 0
        /\ signals'["start"] = signals["start"] /\ signals'["parent"] = signals["parent"]
        /\ DOMAIN exitCode' = Procs /\ exitCode'["front"] = c
        /\ exitCode'["start"] = exitCode["start"] /\ exitCode'["parent"] = exitCode["parent"]
        /\ inFlight' = {} /\ dropped' = dropped \cup inFlight
    BY <1>0 DEF Gone, Procs
  <1>2. GesturesCount' /\ Cardinality(gestures) \in Nat
    BY GesturesStand
  <1>3. SignalsTyped' /\ SignalsComeFromGestures' /\ LoadIsServed'
    BY <1>1 DEF SignalsTyped, SignalsComeFromGestures, LoadIsServed, Procs, Alive
  <1>4. /\ Signalled' = 0 /\ Signalled \in Nat
        /\ signals["start"] \in Nat /\ signals["parent"] \in Nat
    BY <1>0, <1>1 DEF Signalled, Heard, Procs
  <1>5. OwnEnds'
    BY <1>1, <1>2, <1>4 DEF OwnEnds
  <1>6. OneSignal'
    BY <1>1, <1>4 DEF OneSignal, OneKill
  <1> QED
    BY <1>1, <1>2, <1>3, <1>5, <1>6

\* The signals move, or are heard; nobody ends.
SignalsMove ==
  /\ UNCHANGED <<launchStep, gestures, kills, early, inFlight, dropped, gaveUp, exitCode>>
  /\ UNCHANGED proc["start"] /\ UNCHANGED proc["parent"]
  /\ signals' \in [Procs -> Nat]
  /\ \A p \in Procs : signals'[p] > 0 => Alive(p)'
  /\ \E p \in Procs : signals[p] > 0 \/ signals' = signals
  /\ \/ proc'["front"] = proc["front"]
     \/ proc["front"] \in {"up", "signalled"} /\ proc'["front"] \in {"signalled", "draining"}

LEMMA SignalsMoveKeepsStops ==
  ASSUME SettingsInv, StopsInv, SignalsMove,
         stopAsked' => gestures # {},
         proc["start"] # "gone" =>
           /\ signals'["parent"] + signals'["start"] + Signalled' <=
                signals["parent"] + signals["start"] + Signalled
           /\ ~stopAsked' => ~stopAsked /\ Signalled' <= Signalled
           /\ stopAsked' => stopAsked \/ signals["start"] > 0,
         stopAsked /\ proc["start"] # "gone" =>
           signals'["parent"] <= signals["parent"] /\ signals'["start"] <= signals["start"] + signals["parent"],
         ~stopAsked /\ stopAsked' => signals'["start"] = signals["start"] - 1 /\ signals'["parent"] = signals["parent"]
  PROVE  StopsInv'
  <1> USE DEF StopsInv, SignalsMove
  <1>0. signals \in [Procs -> Nat] /\ Procs = {"parent", "start", "front"}
    BY DEF SignalsTyped, Procs
  <1>1. GesturesCount' /\ Cardinality(gestures) \in Nat
    BY GesturesStand
  <1>2. /\ Signalled \in Nat /\ Signalled' \in Nat
        /\ \A p \in Procs : signals[p] \in Nat /\ signals'[p] \in Nat
    BY <1>0 DEF Signalled, Heard
  <1>3. SignalsTyped' /\ LoadIsServed' /\ SignalsComeFromGestures'
    BY <1>0 DEF SignalsTyped, LoadIsServed, SignalsComeFromGestures
  <1>4. OwnEnds'
    BY <1>1, <1>2 DEF OwnEnds
  <1>5. OneSignal'
    <2> SUFFICES ASSUME kills = 0, gestures = {} \/ OneKill
                 PROVE  /\ proc["start"] # "gone" =>
                             /\ signals'["parent"] + signals'["start"] + Signalled' <= 1
                             /\ stopAsked' => signals'["parent"] = 0 /\ signals'["start"] = 0
                             /\ ~stopAsked' => Signalled' = 0
                        /\ proc["start"] = "gone" => launchStep # "serving" \/ proc'["front"] = "gone"
                        /\ gaveUp \/ dropped = {}
      BY DEF OneSignal, OneKill
    <2>1. /\ signals["parent"] \in Nat /\ signals["start"] \in Nat
          /\ signals'["parent"] \in Nat /\ signals'["start"] \in Nat
      BY <1>0, <1>2
    <2>2. /\ proc["start"] = "gone" => launchStep # "serving" \/ proc'["front"] = "gone"
          /\ gaveUp \/ dropped = {}
      BY DEF OneSignal
    <2>3. ASSUME proc["start"] # "gone"
          PROVE  /\ signals'["parent"] + signals'["start"] + Signalled' <= 1
                 /\ stopAsked' => signals'["parent"] = 0 /\ signals'["start"] = 0
                 /\ ~stopAsked' => Signalled' = 0
      <3>1. /\ signals["parent"] + signals["start"] + Signalled <= 1
            /\ stopAsked => signals["parent"] = 0 /\ signals["start"] = 0
            /\ ~stopAsked => Signalled = 0
        BY <2>3 DEF OneSignal
      <3>2. signals'["parent"] + signals'["start"] + Signalled' <=
              signals["parent"] + signals["start"] + Signalled
        BY <2>3
      <3>3. stopAsked' => signals'["parent"] = 0 /\ signals'["start"] = 0
        <4>1. CASE stopAsked
          BY <2>1, <2>3, <3>1, <4>1
        <4>2. CASE ~stopAsked /\ stopAsked'
          <5>1. signals["start"] > 0
            BY <2>3, <4>2
          <5>2. signals'["start"] = signals["start"] - 1 /\ signals'["parent"] = signals["parent"]
            BY <4>2
          <5> QED
            BY <1>2, <2>1, <3>1, <5>1, <5>2
        <4> QED
          BY <4>1, <4>2
      <3>4. ~stopAsked' => Signalled' = 0
        BY <1>2, <2>3, <3>1
      <3> QED
        BY <1>2, <2>1, <3>1, <3>2, <3>3, <3>4
    <2> QED
      BY <2>2, <2>3
  <1> QED
    BY <1>1, <1>3, <1>4, <1>5

\* The three ends of a front.
LEMMA FrontsEndsKeepStops ==
  ASSUME SettingsInv, StopsInv, FrontIsCutShort \/ FrontDrains \/ FrontRefuses
  PROVE  StopsInv'
  <1> USE DEF StopsInv
  <1>0. /\ Cardinality(gestures) \in Nat
        /\ Cardinality(gestures) = 0 <=> gestures = {}
        /\ signals \in [Procs -> Nat]
    BY FS_CardinalityType, FS_EmptySet DEF GesturesCount, SignalsTyped
  <1>1. \A p \in Procs : signals[p] \in Nat
    BY <1>0
  <1>2. CASE FrontIsCutShort
    <2>1. Signalled >= 2 /\ Signalled \in Nat
      BY <1>1, <1>2 DEF FrontIsCutShort, Handles, Signalled, Heard, Procs
    <2>2. kills = 0 /\ ~stopAsked /\ proc["start"] # "gone" => Cardinality(gestures) > 1
      BY <1>0, <2>1 DEF OwnEnds
    <2>3. kills = 0 /\ (gestures = {} \/ OneKill) => inFlight = {}
      <3> SUFFICES ASSUME kills = 0, gestures = {} \/ OneKill PROVE inFlight = {}
        OBVIOUS
      <3>1. proc["start"] = "gone"
        <4>1. signals["parent"] \in Nat /\ signals["start"] \in Nat
          BY <1>1 DEF Procs
        <4> QED
          BY <2>1, <4>1 DEF OneSignal
      <3>2. launchStep # "serving"
        BY <1>2, <3>1 DEF OneSignal, FrontIsCutShort
      <3> QED
        BY <3>2 DEF LoadIsServed
    <2> QED
      BY <1>2, <2>2, <2>3, FrontEndsKeepsStops DEF FrontIsCutShort
  <1>3. CASE FrontDrains
    <2>1. Signalled >= 1 /\ Signalled \in Nat
      BY <1>1, <1>3 DEF FrontDrains, Signalled, Heard, Procs
    <2>2. kills = 0 /\ ~stopAsked /\ proc["start"] # "gone" => gestures # {}
      BY <1>0, <2>1 DEF OwnEnds
    <2>3. (gaveUp => gaveUp') /\ (gaveUp' \/ inFlight = {})
      BY <1>3, Zenon DEF FrontDrains
    <2>4. /\ Gone("front", 0) /\ proc["front"] # "off"
          /\ UNCHANGED <<launchStep, stopAsked, gestures, kills, early>>
      BY <1>3 DEF FrontDrains
    <2>5. 0 \in {0, 1, 143} /\ 0 # 143
      OBVIOUS
    <2> QED
      BY <2>2, <2>3, <2>4, <2>5, FrontEndsKeepsStops
  <1>4. CASE FrontRefuses
    <2>1. /\ Gone("front", 1) /\ proc["front"] # "off" /\ inFlight = {}
          /\ UNCHANGED <<launchStep, stopAsked, gestures, kills, early>> /\ UNCHANGED gaveUp
      BY <1>4 DEF FrontRefuses
    <2>2. 1 \in {0, 1, 143} /\ 1 # 0 /\ 1 # 143
      OBVIOUS
    <2> QED
      BY <2>1, <2>2, FrontEndsKeepsStops
  <1> QED
    BY <1>2, <1>3, <1>4

\* The ends of a start that boots or serves, but for those of its boot.
LEMMA StartsEndsKeepStops ==
  ASSUME SettingsInv, StopsInv, StartDiesEarly \/ StopInsists \/ FrontExited \/ StartWatches
  PROVE  StopsInv'
  <1> USE DEF StopsInv
  <1>0. /\ DOMAIN proc = Procs /\ Procs = {"parent", "start", "front"}
        /\ DOMAIN exitCode = Procs
        /\ signals \in [Procs -> Nat]
        /\ launchStep # "serving" => inFlight = {}
        /\ proc["front"] \in {"off", "gone"} => inFlight = {}
    BY DEF SettingsInv, SignalsTyped, LoadIsServed, Procs
  <1>1. CASE StartDiesEarly
    <2>1. StartEndsWith(143) /\ early' /\ launchStep = "launched"
      BY <1>1, StartGone DEF StartDiesEarly, SettingsInv, BootOrder
    <2> QED
      BY <1>0, <2>1, StartEndsKeepsStops
  <1>2. CASE StopInsists
    <2>1. StartEndsWith(0)
      <3>1. proc["front"] \in {"off", "gone"} => signals["front"] = 0
        BY <1>0 DEF SignalsTyped, Alive
      <3>2. /\ proc["start"] = "up"
            /\ UNCHANGED <<gestures, kills, gaveUp, stopAsked, launchStep, early>>
            /\ inFlight' = {} /\ dropped' = dropped \cup inFlight
        BY <1>2 DEF StopInsists
      <3>3. /\ proc'["start"] = "gone" /\ proc'["parent"] = proc["parent"]
            /\ proc'["front"] = IF Alive("front") THEN "gone" ELSE proc["front"]
        BY <1>0, <1>2 DEF StopInsists
      <3>4. /\ signals' \in [Procs -> Nat]
            /\ signals'["start"] = 0 /\ signals'["front"] = 0 /\ signals'["parent"] = signals["parent"]
        BY <1>0, <1>2 DEF StopInsists
      <3>5. /\ DOMAIN exitCode' = Procs
            /\ exitCode'["start"] = 0 /\ \A p \in {"parent", "front"} : exitCode'[p] = exitCode[p]
        BY <1>0, <1>2 DEF StopInsists
      <3> QED
        BY <3>1, <3>2, <3>3, <3>4, <3>5 DEF StartEndsWith, Alive
    <2>2. gestures # {}
      BY <1>0, <1>2 DEF StopInsists, Handles, SignalsComeFromGestures
    <2>3. kills = 0 /\ (gestures = {} \/ OneKill) => inFlight = {} /\ launchStep # "serving"
      <3>1. kills = 0 /\ (gestures = {} \/ OneKill) => ~stopAsked
        BY <1>2 DEF StopInsists, Handles, OneSignal
      <3> QED
        BY <1>0, <1>2, <3>1 DEF StopInsists, SettingsInv, BootOrder
    <2> QED
      BY <2>1, <2>2, <2>3, StartEndsKeepsStops
  <1>3. CASE FrontExited
    <2> DEFINE c == IF stopAsked THEN 0 ELSE exitCode["front"]
    <2>1. StartEndsWith(c) /\ UNCHANGED proc["front"] /\ proc["front"] = "gone" /\ proc["start"] = "up"
      BY <1>3, ExitsEndIt DEF FrontExited, StartFollows
    <2>2. kills = 0 => /\ c = 0 => gestures # {}
                       /\ c # 0 => Cardinality(gestures) > 1 \/ c = 1
      <3>1. stopAsked => gestures # {}
        BY DEF SignalsComeFromGestures
      <3>2. kills = 0 /\ ~stopAsked =>
              /\ exitCode["front"] \in {0, 1, 143}
              /\ exitCode["front"] = 0 => gestures # {}
              /\ exitCode["front"] = 143 => Cardinality(gestures) > 1
        BY <2>1 DEF OwnEnds
      <3> QED
        BY <3>1, <3>2
    <2> HIDE DEF c
    <2> QED
      BY <1>0, <2>1, <2>2, StartEndsKeepsStops
  <1>4. CASE StartWatches
    <2>1. StartEndsWith(0) /\ proc["parent"] = "gone" /\ proc["start"] = "up"
      BY <1>4, ExitsEndIt DEF StartWatches
    <2>2. kills # 0
      BY <2>1 DEF OwnEnds
    <2> QED
      BY <2>1, <2>2, StartEndsKeepsStops
  <1> QED
    BY <1>1, <1>2, <1>3, <1>4

LEMMA SignalsKeepStops ==
  ASSUME SettingsInv, StopsInv,
         ParentForwards \/ StopPassesOn \/ FrontHears \/ FrontRestores \/ FrontWatches
  PROVE  StopsInv'
  <1> USE DEF StopsInv
  <1>0. /\ DOMAIN proc = Procs /\ Procs = {"parent", "start", "front"}
        /\ signals \in [Procs -> Nat]
        /\ \A p \in Procs : signals[p] \in Nat /\ (signals[p] > 0 => Alive(p) /\ gestures # {})
        /\ stopAsked => gestures # {}
    BY DEF SettingsInv, SignalsTyped, SignalsComeFromGestures, Procs
  <1>1. CASE ParentForwards
    <2>1. /\ UNCHANGED <<proc, stopAsked, launchStep, gestures, kills, early, inFlight, dropped, gaveUp, exitCode>>
          /\ signals["parent"] > 0
          /\ signals' = [[signals EXCEPT !["start"] = IF Alive("start") THEN @ + 1 ELSE @]
                           EXCEPT !["parent"] = @ - 1]
      BY <1>1 DEF ParentForwards, Handles, Sent, loadVars
    <2>2. /\ signals' \in [Procs -> Nat]
          /\ signals'["parent"] = signals["parent"] - 1
          /\ signals'["start"] = IF Alive("start") THEN signals["start"] + 1 ELSE signals["start"]
          /\ signals'["front"] = signals["front"]
      BY <1>0, <2>1
    <2>3. SignalsMove
      BY <1>0, <2>1, <2>2 DEF SignalsMove, Alive
    <2>4. Signalled' = Signalled /\ Signalled \in Nat
      BY <1>0, <2>1, <2>2 DEF Signalled, Heard
    <2> QED
      BY <1>0, <2>1, <2>2, <2>3, <2>4, SignalsMoveKeepsStops DEF Alive
  <1>2. CASE StopPassesOn
    <2>1. /\ UNCHANGED <<proc, launchStep, gestures, kills, early, inFlight, dropped, gaveUp, exitCode>>
          /\ signals["start"] > 0 /\ ~stopAsked /\ stopAsked' /\ Alive("front")
          /\ signals' = [[signals EXCEPT !["front"] = IF Alive("front") THEN @ + 1 ELSE @]
                           EXCEPT !["start"] = @ - 1]
      BY <1>2 DEF StopPassesOn, Handles, Sent, loadVars
    <2>2. /\ signals' \in [Procs -> Nat]
          /\ signals'["parent"] = signals["parent"]
          /\ signals'["start"] = signals["start"] - 1
          /\ signals'["front"] = signals["front"] + 1
      BY <1>0, <2>1
    <2>3. SignalsMove
      BY <1>0, <2>1, <2>2 DEF SignalsMove, Alive
    <2>4. Signalled' = Signalled + 1 /\ Signalled \in Nat
      BY <1>0, <2>1, <2>2 DEF Signalled, Heard
    <2> QED
      BY <1>0, <2>1, <2>2, <2>3, <2>4, SignalsMoveKeepsStops
  <1>3. CASE FrontHears
    <2>1. /\ UNCHANGED <<launchStep, stopAsked, gestures, kills, early, inFlight, dropped, gaveUp, exitCode>>
          /\ signals["front"] > 0 /\ proc["front"] \in {"up", "signalled"}
          /\ proc' = [proc EXCEPT !["front"] = "signalled"]
          /\ signals' = [signals EXCEPT !["front"] = @ - 1]
      BY <1>3 DEF FrontHears, Handles, loadVars
    <2>2. /\ signals' \in [Procs -> Nat]
          /\ signals'["parent"] = signals["parent"] /\ signals'["start"] = signals["start"]
          /\ signals'["front"] = signals["front"] - 1
          /\ proc'["front"] = "signalled" /\ proc'["start"] = proc["start"] /\ proc'["parent"] = proc["parent"]
      BY <1>0, <2>1
    <2>3. SignalsMove
      BY <1>0, <2>1, <2>2 DEF SignalsMove, Alive
    <2>4. Signalled' <= Signalled /\ Signalled \in Nat /\ Signalled' \in Nat
      BY <1>0, <2>1, <2>2 DEF Signalled, Heard
    <2> QED
      BY <1>0, <2>1, <2>2, <2>3, <2>4, SignalsMoveKeepsStops
  <1>4. CASE FrontRestores \/ FrontWatches
    <2>1. /\ UNCHANGED <<launchStep, stopAsked, gestures, kills, early, inFlight, dropped, gaveUp, exitCode, signals>>
          /\ \/ proc["front"] = "signalled" /\ proc' = [proc EXCEPT !["front"] = "draining"]
             \/ /\ proc["front"] = "up" /\ proc["start"] = "gone"
                /\ proc' = [proc EXCEPT !["front"] = "signalled"]
      BY <1>4 DEF FrontRestores, FrontWatches, loadVars
    <2>2. /\ proc'["front"] \in {"signalled", "draining"} /\ proc["front"] \in {"up", "signalled"}
          /\ proc'["start"] = proc["start"] /\ proc'["parent"] = proc["parent"]
          /\ proc["start"] # "gone" => Heard /\ Heard'
      BY <1>0, <2>1 DEF Heard
    <2>3. SignalsMove
      BY <1>0, <2>1, <2>2 DEF SignalsMove, Alive
    <2>4. proc["start"] # "gone" => Signalled' = Signalled /\ Signalled \in Nat
      BY <1>0, <2>1, <2>2 DEF Signalled
    <2> QED
      BY <1>0, <2>1, <2>2, <2>3, <2>4, SignalsMoveKeepsStops
  <1> QED
    BY <1>1, <1>2, <1>3, <1>4

\* The operator.
LEMMA GesturesKeepStops ==
  ASSUME SettingsInv, StopsInv, AsksToStop \/ PressesCtrlC PROVE StopsInv'
  <1> USE DEF StopsInv
  <1>0. /\ Procs = {"parent", "start", "front"} /\ signals \in [Procs -> Nat]
        /\ \A p \in Procs : signals[p] \in Nat /\ (signals[p] > 0 => Alive(p))
        /\ Top \in {"parent", "start"}
        /\ UNCHANGED <<proc, exitCode, launchStep, stopAsked, kills, early, inFlight, dropped, gaveUp>>
    BY DEF SignalsTyped, Procs, Top, AsksToStop, PressesCtrlC, loadVars
  <1>1. PICK w \in {"kill", "ctrl-c"} :
          /\ gestures' = gestures \cup {<<Cardinality(gestures), w>>}
          /\ w = "kill" => AsksToStop
    BY DEF AsksToStop, PressesCtrlC
  <1>2. /\ GesturesCount' /\ Cardinality(gestures) \in Nat
        /\ Cardinality(gestures') = Cardinality(gestures) + 1
        /\ gestures' # {}
    BY <1>1, OneMoreGesture
  <1>3. /\ signals' \in [Procs -> Nat]
        /\ \A p \in Procs : /\ signals'[p] \in {signals[p], signals[p] + 1, 0}
                            /\ signals'[p] > 0 => Alive(p)
    <2>1. CASE AsksToStop
      BY <1>0, <2>1 DEF AsksToStop, Sent
    <2>2. CASE PressesCtrlC
      BY <1>0, <2>2 DEF PressesCtrlC
    <2> QED
      BY <2>1, <2>2
  <1>4. SignalsTyped' /\ SignalsComeFromGestures' /\ LoadIsServed'
    BY <1>0, <1>2, <1>3 DEF SignalsTyped, SignalsComeFromGestures, LoadIsServed, Alive
  <1>5. /\ Signalled \in Nat /\ Signalled' \in Nat /\ Signalled' <= Signalled + 1
    BY <1>0, <1>3 DEF Signalled, Heard
  <1>6. OwnEnds'
    BY <1>0, <1>2, <1>5 DEF OwnEnds
  <1>7. OneSignal'
    <2> SUFFICES ASSUME kills = 0, OneKill' PROVE OneSignal'
      BY <1>0, <1>2 DEF OneSignal
    <2>1. w = "kill" /\ gestures = {}
      <3>1. <<Cardinality(gestures), w>> = <<0, "kill">>
        <4>1. <<Cardinality(gestures), w>> \in gestures'
          BY <1>1
        <4>2. gestures' = {<<0, "kill">>}
          BY DEF OneKill
        <4> QED
          BY <4>1, <4>2
      <3>2. w = "kill" /\ Cardinality(gestures) = 0
        BY <3>1
      <3> QED
        BY <3>2, FS_EmptySet DEF GesturesCount
    <2>2. ~stopAsked /\ \A p \in Procs : signals[p] = 0
      BY <2>1 DEF SignalsComeFromGestures
    <2>3. signals' = [signals EXCEPT ![Top] = IF Alive(Top) THEN @ + 1 ELSE @]
      BY <1>1, <2>1 DEF AsksToStop, Sent
    <2>4. signals'["parent"] + signals'["start"] <= 1 /\ signals'["front"] = 0
      BY <1>0, <2>2, <2>3
    <2>5. proc["start"] # "gone" => Signalled' = 0
      <3>1. proc["start"] # "gone" => Signalled = 0
        BY <2>1, <2>2 DEF OneSignal
      <3> QED
        BY <1>0, <2>2, <2>4, <3>1 DEF Signalled, Heard
    <2>6. signals'["parent"] \in Nat /\ signals'["start"] \in Nat
      BY <1>0, <1>3
    <2>7. /\ proc["start"] = "gone" => launchStep # "serving" \/ proc["front"] = "gone"
          /\ gaveUp \/ dropped = {}
      BY <2>1 DEF OneSignal
    <2> QED
      BY <1>0, <2>2, <2>4, <2>5, <2>6, <2>7 DEF OneSignal
  <1> QED
    BY <1>0, <1>2, <1>4, <1>6, <1>7

LEMMA LoadKeepsStops ==
  ASSUME SettingsInv, StopsInv, Requested \/ AnswersRequest \/ AnotherBinds PROVE StopsInv'
  <1> USE DEF StopsInv
  <1>1. /\ UNCHANGED <<proc, exitCode, launchStep, stopAsked, signals, gestures, kills, early, dropped, gaveUp>>
        /\ \/ inFlight' \subseteq inFlight
           \/ proc["front"] = "up" /\ launchStep = "serving"
    BY DEF Requested, AnswersRequest, AnotherBinds, procVars, bootVars, loadVars
  <1>2. GesturesCount'
    BY <1>1, GesturesStand
  <1>3. Signalled' = Signalled
    BY <1>1 DEF Signalled, Heard
  <1> QED
    BY <1>1, <1>2, <1>3
       DEF SignalsTyped, SignalsComeFromGestures, LoadIsServed, OwnEnds, OneSignal, OneKill, Alive

LEMMA OthersKeepStops ==
  ASSUME SettingsInv, StopsInv, ParentExits \/ Killed PROVE StopsInv'
  <1> USE DEF StopsInv
  <1>0. /\ DOMAIN proc = Procs /\ Procs = {"parent", "start", "front"}
        /\ DOMAIN exitCode = Procs
        /\ signals \in [Procs -> Nat]
    BY DEF SettingsInv, SignalsTyped, Procs
  <1>1. PICK p, c :
          /\ p \in Procs
          /\ Gone(p, c)
          /\ UNCHANGED <<launchStep, stopAsked, gestures, early>>
          /\ \/ kills' = 1
             \/ p = "parent" /\ c = exitCode["start"] /\ proc["start"] = "gone" /\ UNCHANGED <<kills, gaveUp>>
    BY <1>0 DEF ParentExits, Killed
  <1>2. /\ proc'[p] = "gone" /\ \A q \in Procs \ {p} : proc'[q] = proc[q]
        /\ signals' \in [Procs -> Nat]
        /\ signals'[p] = 0 /\ \A q \in Procs \ {p} : signals'[q] = signals[q]
        /\ DOMAIN exitCode' = Procs
        /\ exitCode'[p] = c /\ \A q \in Procs \ {p} : exitCode'[q] = exitCode[q]
        /\ IF p \in {"start", "front"} THEN inFlight' = {} ELSE UNCHANGED <<inFlight, dropped>>
    BY <1>0, <1>1 DEF Gone
  <1>3. GesturesCount'
    BY <1>1, GesturesStand
  <1>4. SignalsTyped' /\ SignalsComeFromGestures' /\ LoadIsServed'
    BY <1>0, <1>1, <1>2 DEF SignalsTyped, SignalsComeFromGestures, LoadIsServed, Alive
  <1>5. CASE kills' = 1
    BY <1>2, <1>3, <1>4, <1>5 DEF OwnEnds, OneSignal
  <1>6. CASE p = "parent" /\ c = exitCode["start"] /\ proc["start"] = "gone" /\ UNCHANGED <<kills, gaveUp>>
    <2>1. /\ proc'["parent"] = "gone" /\ proc'["start"] = "gone" /\ proc'["front"] = proc["front"]
          /\ exitCode'["parent"] = exitCode["start"] /\ exitCode'["start"] = exitCode["start"]
          /\ exitCode'["front"] = exitCode["front"]
          /\ UNCHANGED <<inFlight, dropped>>
      BY <1>0, <1>2, <1>6
    <2>2. OwnEnds'
      BY <1>1, <1>6, <2>1 DEF OwnEnds
    <2>3. OneSignal'
      BY <1>1, <1>6, <2>1 DEF OneSignal, OneKill
    <2> QED
      BY <1>2, <1>3, <1>4, <2>2, <2>3
  <1> QED
    BY <1>1, <1>5, <1>6

LaunchInv == SettingsInv /\ StopsInv

LEMMA LaunchInvStep == LaunchInv /\ [LaunchNext]_launchVars => LaunchInv'
  <1> SUFFICES ASSUME SettingsInv, StopsInv, SettingsInv', [LaunchNext]_launchVars PROVE StopsInv'
    BY SettingsInvStep DEF LaunchInv
  <1>1. CASE UNCHANGED launchVars
    <2>1. /\ UNCHANGED <<proc, exitCode, launchStep, stopAsked, signals, inFlight, dropped, gaveUp>>
          /\ UNCHANGED <<gestures, kills, early>>
      BY <1>1 DEF launchVars, procVars, bootVars, loadVars
    <2>2. GesturesCount'
      BY <2>1, GesturesStand DEF StopsInv
    <2>3. Signalled' = Signalled
      BY <2>1 DEF Signalled, Heard
    <2> QED
      BY <2>1, <2>2, <2>3
         DEF StopsInv, SignalsTyped, SignalsComeFromGestures, LoadIsServed, OwnEnds, OneSignal,
             OneKill, Alive
  <1> QED
    BY <1>1, BootsKeepStops, FrontsEndsKeepStops, StartsEndsKeepStops, SignalsKeepStops,
       GesturesKeepStops, LoadKeepsStops, OthersKeepStops
       DEF LaunchNext, StartIsOver

\* A service manager that stops a start once sees its requests drained, within
\* the front's own limit, wherever in its boot or its life the signal finds it;
\* and the exit code tells how it ended: no end that was asked for but cut short
\* by a second signal is a failure, and none that was not asked for a success
\* (cli.ts start; parent_watch.go).
THEOREM StopsAreSeen == LaunchSpec => []StopsAreOrderly
  <1>1. LaunchInit => LaunchInv
    BY SettingsInvInit, StopsInvInit DEF LaunchInv
  <1>2. LaunchInv => StopsAreOrderly
    <2> SUFFICES ASSUME SettingsInv, StopsInv PROVE OneKillDrains /\ ExitsTellTheTruth
      BY DEF LaunchInv, StopsAreOrderly
    <2>1. OneKillDrains
      <3> SUFFICES ASSUME Cardinality(gestures) = 1, kills = 0, ~gaveUp, <<0, "kill">> \in gestures
                   PROVE  dropped = {}
        BY DEF OneKillDrains, Undisturbed
      <3>1. OneKill
        <4>1. \E g : gestures = {g}
          BY FS_Singleton DEF StopsInv, GesturesCount
        <4> QED
          BY <4>1 DEF OneKill
      <3> QED
        BY <3>1 DEF StopsInv, OneSignal
    <2>2. ExitsTellTheTruth
      <3> SUFFICES ASSUME proc[Top] = "gone", kills = 0, ~early
                   PROVE  /\ exitCode[Top] = 0 => gestures # {}
                          /\ gestures # {} /\ exitCode[Top] # 0 =>
                               Cardinality(gestures) > 1 \/ exitCode["start"] = 1
        BY DEF ExitsTellTheTruth
      <3>1. proc["start"] = "gone" /\ exitCode[Top] = exitCode["start"]
        BY DEF Top, StopsInv, OwnEnds
      <3> QED
        BY <3>1 DEF StopsInv, OwnEnds
    <2> QED
      BY <2>1, <2>2
  <1> QED
    BY <1>1, <1>2, LaunchInvStep, PTL DEF LaunchSpec

-----------------------------------------------------------------------------
(* The page cache, under the front's mutex, for any keys, tags and capacity. *)

\* Each part leans on the others: the eviction needs the order to find a
\* front, the invalidation by tag needs the index to find the copies.
Sound ==
  /\ TypeOK
  /\ TagIndexExact
  /\ ListMatchesMap
  /\ Bounded(cache)
  /\ NothingNamedIsLeft
  /\ LastUsedIsLast

\* The cache starts empty, and empty is sound.
LEMMA SoundInit == Init => Sound
  <1> SUFFICES ASSUME Init PROVE Sound
    OBVIOUS
  <1>1. cache \in PageCaches /\ Cached(cache) = {} /\ cache.older = {}
    BY DEF Init, EmptyCache, PageCaches, Cached
  <1>2. TypeOK
    BY <1>1 DEF Init, TypeOK
  <1>3. TagIndexExact
    BY DEF Init, EmptyCache, TagIndexExact, IndexExact, Carries
  <1>4. ListMatchesMap
    BY <1>1 DEF ListMatchesMap, OrderLinear, OrderOnCached, OrderFounded,
                OrderTotal, OrderIrreflexive, OrderTransitive
  <1>5. Bounded(cache)
    BY <1>1, FS_EmptySet, MaxCachedPagesAssumption DEF Bounded, WithinCapacity
  <1>6. NothingNamedIsLeft /\ LastUsedIsLast
    BY <1>1 DEF Init, NothingNamedIsLeft, LastUsedIsLast
  <1> QED
    BY <1>2, <1>3, <1>4, <1>5, <1>6 DEF Sound

\* A hit.
LEMMA SoundGet ==
  ASSUME Sound, NEW k \in Keys, Get(k)
  PROVE  Sound'
  <1>1. cache \in PageCaches /\ k \in Cached(cache) /\ cache' = Touch(cache, k)
    BY DEF Sound, TypeOK, Get
  <1>2. /\ cache' \in PageCaches
        /\ Cached(cache') = Cached(cache)
        /\ cache'.pages = cache.pages
        /\ cache'.byTag = cache.byTag
    BY <1>1, TouchMembers
  <1>3. TypeOK'
    BY <1>2 DEF Sound, TypeOK, Get
  <1>4. TagIndexExact'
    BY <1>2 DEF Sound, TagIndexExact, IndexExact, Carries
  <1>5. /\ ListMatchesMap'
        /\ \A x \in Cached(cache') \ {k} : <<x, k>> \in cache'.older
    BY <1>1, <1>2, TouchOrder DEF Sound, ListMatchesMap
  <1>6. Bounded(cache)'
    BY <1>2 DEF Sound, Bounded, WithinCapacity
  <1>7. NothingNamedIsLeft' /\ LastUsedIsLast'
    BY <1>1, <1>2, <1>5 DEF Get, NothingNamedIsLeft, LastUsedIsLast
  <1> QED
    BY <1>3, <1>4, <1>5, <1>6, <1>7 DEF Sound

\* A store, with its eviction.
LEMMA SoundPut ==
  ASSUME Sound, NEW k \in Keys, NEW v \in Bodies, NEW tags \in SUBSET Tags,
         Put(k, v, tags)
  PROVE  Sound'
  <1> DEFINE e == [body |-> v, head |-> v, tags |-> tags, aged |-> FALSE]
  <1>1. /\ e \in Entry
        /\ cache \in PageCaches
        /\ cache' = Store(cache, k, e)
    BY MaxBodyAssumption DEF Sound, TypeOK, Put, Entry, Bodies
  <1> HIDE DEF e
  <1>2. cache' \in PageCaches /\ TagIndexExact'
    BY <1>1, StoreIsSound DEF Sound, TagIndexExact
  <1>3. /\ ListMatchesMap'
        /\ k \in Cached(cache')
        /\ \A x \in Cached(cache') \ {k} : <<x, k>> \in cache'.older
    BY <1>1, StoreOrder DEF Sound, ListMatchesMap
  <1>4. Bounded(cache)'
    BY <1>1, StoreBounded DEF Sound, ListMatchesMap
  <1>5. TypeOK'
    BY <1>2 DEF TypeOK, Put
  <1>6. NothingNamedIsLeft' /\ LastUsedIsLast'
    BY <1>3 DEF Put, NothingNamedIsLeft, LastUsedIsLast
  <1> QED
    BY <1>2, <1>3, <1>4, <1>5, <1>6 DEF Sound

\* A removal of any set of keys, with what it was asked to drop among them.
LEMMA SoundDrop ==
  ASSUME Sound, NEW gone \in SUBSET Keys, Drop(gone), named' \in SUBSET Keys,
         named' \cap Cached(cache) \subseteq gone
  PROVE  Sound'
  <1>1. /\ cache \in PageCaches
        /\ cache' = Remove(cache, gone)
        /\ last' = IF last \in gone THEN NoKey ELSE last
    BY DEF Sound, TypeOK, Drop
  <1>2. /\ cache' \in PageCaches
        /\ Cached(cache') = Cached(cache) \ gone
        /\ cache'.older = Unlinked(cache.older, gone)
    BY <1>1, RemoveMembers DEF Remove
  <1>3. TypeOK'
    BY <1>1, <1>2 DEF Sound, TypeOK
  <1>4. TagIndexExact'
    BY <1>1, RemoveIndex DEF Sound, TagIndexExact
  <1>5. ListMatchesMap'
    BY <1>1, RemoveOrder DEF Sound, ListMatchesMap
  <1>6. Bounded(cache)'
    BY <1>1, RemoveBounded DEF Sound
  <1>7. NothingNamedIsLeft'
    BY <1>2 DEF NothingNamedIsLeft
  <1>8. LastUsedIsLast'
    BY <1>1, <1>2 DEF Sound, LastUsedIsLast, Unlinked
  <1> QED
    BY <1>3, <1>4, <1>5, <1>6, <1>7, <1>8 DEF Sound

\* Soundness is inductive.
LEMMA SoundStep == Sound /\ [Next]_vars => Sound'
  <1> SUFFICES ASSUME Sound, [Next]_vars PROVE Sound'
    OBVIOUS
  <1>1. CASE \E k \in Keys : Get(k) \/ Discard(k)
    <2>1. ASSUME NEW k \in Keys, Get(k) PROVE Sound'
      BY <2>1, SoundGet
    <2>2. ASSUME NEW k \in Keys, Discard(k) PROVE Sound'
      BY <2>2, SoundDrop DEF Discard
    <2> QED
      BY <1>1, <2>1, <2>2
  <1>2. CASE \E k \in Keys, v \in Bodies, tags \in SUBSET Tags : Put(k, v, tags)
    BY <1>2, SoundPut
  <1>3. ASSUME NEW p \in Paths, InvalidatePath(p) PROVE Sound'
    <2>1. Names[p] \in SUBSET Keys
      BY NamesAssumption
    <2> QED
      BY <1>3, <2>1, SoundDrop DEF InvalidatePath, Matching
  <1>4. ASSUME NEW t \in Tags, InvalidateTag(t) PROVE Sound'
    <2>1. /\ Tagged(cache, t) \in SUBSET Keys
          /\ \A k \in Keys : k \in Tagged(cache, t) <=> Carries(cache, k, t)
      BY DEF Sound, TypeOK, PageCaches, TagIndexExact, IndexExact, Tagged
    <2> QED
      BY <1>4, <2>1, SoundDrop DEF InvalidateTag
  <1>5. CASE UNCHANGED vars
    BY <1>5 DEF vars, Sound, TypeOK, TagIndexExact, IndexExact, ListMatchesMap,
                Bounded, WithinCapacity, NothingNamedIsLeft, LastUsedIsLast
  <1> QED
    BY <1>1, <1>2, <1>3, <1>4, <1>5 DEF Next

\* In every behaviour the cache is sound.
THEOREM CacheIsSound == Spec => []Sound
  BY SoundInit, SoundStep, PTL DEF Spec

\* The variables keep their types.
THEOREM CacheIsTyped == Spec => []TypeOK
  <1>1. Sound => TypeOK
    BY DEF Sound
  <1> QED
    BY CacheIsSound, <1>1, PTL

\* RevalidateTag finds exactly the copies that carry the tag.
THEOREM CacheIndexIsExact == Spec => []TagIndexExact
  <1>1. Sound => TagIndexExact
    BY DEF Sound
  <1> QED
    BY CacheIsSound, <1>1, PTL

\* The recency list is a linear order on the cached keys.
THEOREM CacheOrderIsLinear == Spec => []ListMatchesMap
  <1>1. Sound => ListMatchesMap
    BY DEF Sound
  <1> QED
    BY CacheIsSound, <1>1, PTL

\* The cache is never over its capacity.
THEOREM CacheIsBounded == Spec => []Capacity
  <1>1. Sound => Capacity
    BY DEF Sound, Bounded, Capacity
  <1> QED
    BY CacheIsSound, <1>1, PTL

\* An invalidation leaves nothing it named.
THEOREM CacheForgetsWhatIsNamed == Spec => []NothingNamedIsLeft
  <1>1. Sound => NothingNamedIsLeft
    BY DEF Sound
  <1> QED
    BY CacheIsSound, <1>1, PTL

\* The copy that was used last is the last to be evicted.
THEOREM CacheKeepsTheLastUsed == Spec => []LastUsedIsLast
  <1>1. Sound => LastUsedIsLast
    BY DEF Sound
  <1> QED
    BY CacheIsSound, <1>1, PTL

\* The map, the list and the tag index tell of the same copies, after any
\* sequence of operations on any keys, tags and capacity.
THEOREM CacheAgreesWithItself == Spec => []CacheIsExact
  <1>1. Sound => CacheIsExact
    BY DEF Sound, CacheIsExact
  <1> QED
    BY CacheIsSound, <1>1, PTL
=============================================================================
