--------------------------- MODULE ServicesProofs ---------------------------
(***************************************************************************)
(* What is proved of the services that share a run: an event stream is     *)
(* silent once it was closed; a subscriber of the hub is told what was     *)
(* published, in order, but for what it had no room for; one fetch at a    *)
(* time brings the table of the policies; and documents that share a pool  *)
(* of zlib streams are whole and their own.  For any writers, closers,     *)
(* clients, callers and documents, and for any room.                       *)
(***************************************************************************)
EXTENDS SseStream, SseHub, DocumentPump, PolicySource,
        FiniteSetTheorems, SequenceTheorems, TLAPS

-----------------------------------------------------------------------------
(* One stream.  A frame can slip behind a close only if a writer that      *)
(* began after it finds the stream open, so the proof follows what those   *)
(* writers can find: whatever made them barred has stored the close.       *)

\* every way to be barred implies that a Close has stored before
ClosesAreStored ==
  /\ \A c \in Closers : close[c] > 0 => stored
  /\ OnlyClosed => stored
  /\ barred # {} => stored

\* a barred writer is never let through
BarredAreRefused == \A w \in barred : write[w] \notin {"out", "writing"}

StreamInv ==
  /\ StreamTypeOK
  /\ ClosesAreStored
  /\ BarredAreRefused
  /\ NothingSlipsBehind

LEMMA StreamInvInit == StreamInit => StreamInv
<1> SUFFICES ASSUME StreamInit PROVE StreamInv
  OBVIOUS
<1>1. StreamTypeOK
  <2>1. lock \in {w \in Writers : write[w] \in {"locked", "writing"}} \cup {Nobody}
    BY DEF StreamInit
  <2>2. stored \in BOOLEAN /\ done \in BOOLEAN /\ gone \in BOOLEAN
    BY DEF StreamInit
  <2>. QED BY <2>1, <2>2 DEF StreamInit, StreamTypeOK
<1>2. ClosesAreStored /\ BarredAreRefused /\ NothingSlipsBehind
  BY DEF StreamInit, ClosesAreStored, OnlyClosed, BarredAreRefused, NothingSlipsBehind
<1>. QED BY <1>1, <1>2 DEF StreamInv

LEMMA StreamInvStep == StreamInv /\ [StreamNext]_streamVars => StreamInv'
<1> SUFFICES ASSUME StreamInv, [StreamNext]_streamVars PROVE StreamInv'
  OBVIOUS
<1> USE DEF StreamInv, StreamTypeOK, ClosesAreStored, OnlyClosed,
            BarredAreRefused, NothingSlipsBehind
<1>1. ASSUME NEW w \in Writers, WriteBegins(w) PROVE StreamInv'
  <2>1. Returned \/ OnlyClosed => stored
    BY DEF Returned
  <2>. QED BY <1>1, <2>1 DEF WriteBegins
<1>2. ASSUME NEW w \in Writers, WriteLocks(w) PROVE StreamInv'
  BY <1>2 DEF WriteLocks
<1>3. ASSUME NEW w \in Writers, WriteLooks(w) PROVE StreamInv'
  BY <1>3 DEF WriteLooks, Unlocked
<1>4. ASSUME NEW w \in Writers, WriteLands(w) PROVE StreamInv'
  BY <1>4 DEF WriteLands
<1>5. ASSUME NEW c \in Closers, CloseDoes(c, 1) PROVE StreamInv'
  <2>1. stored' = TRUE /\ done' = done
    BY <1>5 DEF CloseDoes, CloseOrder
  <2>. QED BY <1>5, <2>1 DEF CloseDoes
<1>6. ASSUME NEW c \in Closers, CloseDoes(c, 2) PROVE StreamInv'
  <2>1. stored' = stored /\ done' = TRUE
    BY <1>6 DEF CloseDoes, CloseOrder
  <2>2. stored
    BY <1>6 DEF CloseDoes
  <2>. QED BY <1>6, <2>1, <2>2 DEF CloseDoes
<1>7. CASE ClientGoes
  BY <1>7 DEF ClientGoes
<1>8. CASE WatcherEnds
  BY <1>8 DEF WatcherEnds, Seen
<1>9. CASE UNCHANGED streamVars
  BY <1>9 DEF streamVars
<1>. QED
  BY <1>1, <1>2, <1>3, <1>4, <1>5, <1>6, <1>7, <1>8, <1>9 DEF StreamNext

\* A stream that was closed is silent: whatever write begins after a Close has
\* returned, or after a Close has fired Done, is refused (sse.go, Close: writes
\* are refused before Done fires).
THEOREM StreamIsSilent == StreamSpec => []ClosedIsSilent
<1>1. StreamInv => ClosedIsSilent
  BY DEF StreamInv, ClosedIsSilent
<1>. QED BY StreamInvInit, StreamInvStep, <1>1, PTL DEF StreamSpec

-----------------------------------------------------------------------------
(* The hub.  What a client has got and what waits in its channel make one  *)
(* sequence: a publication puts a frame at its end, the loop moves one     *)
(* across the seam, and both leave it rising.                              *)

Rising(s) == \A i, j \in DOMAIN s : i < j => s[i] < s[j]
Elements(s) == {s[i] : i \in DOMAIN s}

\* A frame at the end of what is told is newer than all of it.
LEMMA AppendAtTheSeam ==
  \A s, t \in Seq(Nat) : \A e \in Nat : s \o Append(t, e) = Append(s \o t, e)
  OBVIOUS

\* The loop writes the oldest frame: what is told does not change.
LEMMA MoveOverTheSeam ==
  \A s, t \in Seq(Nat) : t # <<>> => Append(s, Head(t)) \o Tail(t) = s \o t
  OBVIOUS

\* One more number above a run of them.
LEMMA OneMoreUp ==
    ASSUME NEW m \in Nat, NEW n \in Nat, m <= n
    PROVE  (m + 1) .. (n + 1) = ((m + 1) .. n) \cup {n + 1}
  OBVIOUS

LEMMA RisingAppended ==
  ASSUME NEW s \in Seq(Nat), NEW e \in Nat, Rising(s),
         \A i \in DOMAIN s : s[i] < e
  PROVE  /\ Rising(Append(s, e))
         /\ Elements(Append(s, e)) = Elements(s) \cup {e}
<1> DEFINE longer == Append(s, e)
<1>1. /\ DOMAIN s = 1 .. Len(s) /\ Len(s) \in Nat
      /\ DOMAIN longer = 1 .. Len(s) + 1
      /\ \A i \in 1 .. Len(s) : longer[i] = s[i]
      /\ longer[Len(s) + 1] = e
  OBVIOUS
<1>2. Rising(longer)
  BY <1>1 DEF Rising
<1>3. Elements(longer) = Elements(s) \cup {e}
  <2>1. ASSUME NEW x \in Elements(longer) PROVE x \in Elements(s) \cup {e}
    BY <1>1, <2>1 DEF Elements
  <2>2. ASSUME NEW x \in Elements(s) PROVE x \in Elements(longer)
    BY <1>1, <2>2 DEF Elements
  <2>3. e \in Elements(longer)
    <3>1. Len(s) + 1 \in DOMAIN longer
      BY <1>1
    <3>. QED BY <3>1, <1>1 DEF Elements
  <2>. QED BY <2>1, <2>2, <2>3
<1>. QED BY <1>2, <1>3

\* The write that fails loses one frame, and the order of the others stays.
LEMMA RisingWithoutOne ==
  ASSUME NEW s \in Seq(Nat), NEW t \in Seq(Nat), t # <<>>, Rising(s \o t)
  PROVE  /\ Rising(s \o Tail(t))
         /\ Elements(s \o Tail(t)) \subseteq Elements(s \o t)
<1> DEFINE all  == s \o t
           less == s \o Tail(t)
           at(i) == IF i <= Len(s) THEN i ELSE i + 1
<1>1. /\ DOMAIN all = 1 .. Len(s) + Len(t)
      /\ DOMAIN less = 1 .. Len(s) + Len(t) - 1
      /\ Len(s) \in Nat /\ Len(t) \in Nat \ {0}
  OBVIOUS
<1>2. \A i \in DOMAIN less : at(i) \in DOMAIN all /\ less[i] = all[at(i)]
  <2>1. \A i \in DOMAIN all : all[i] = IF i <= Len(s) THEN s[i] ELSE t[i - Len(s)]
    OBVIOUS
  <2>2. Tail(t) \in Seq(Nat) /\ Len(Tail(t)) = Len(t) - 1
    OBVIOUS
  <2>3. \A j \in 1 .. Len(t) - 1 : Tail(t)[j] = t[j + 1]
    OBVIOUS
  <2>4. \A i \in DOMAIN less :
          less[i] = IF i <= Len(s) THEN s[i] ELSE Tail(t)[i - Len(s)]
    BY <2>2, <1>1
  <2> HIDE DEF all, less
  <2>5. ASSUME NEW i \in DOMAIN less, i > Len(s)
        PROVE  i + 1 \in DOMAIN all /\ less[i] = all[i + 1]
    <3>1. /\ i \in Nat /\ i - Len(s) \in 1 .. Len(t) - 1
          /\ i + 1 \in DOMAIN all /\ i + 1 - Len(s) = i - Len(s) + 1
      BY <2>5, <1>1
    <3>2. less[i] = t[i - Len(s) + 1]
      BY <3>1, <2>3, <2>4, <2>5
    <3>3. all[i + 1] = t[i + 1 - Len(s)]
      BY <3>1, <2>1, <2>5, <1>1, SMTT(30)
    <3>. QED BY <3>1, <3>2, <3>3
  <2>. QED BY <2>1, <2>4, <2>5, <1>1
<1>3. \A i, j \in DOMAIN less : i < j => at(i) < at(j)
  BY <1>1
<1> HIDE DEF all, less, at
<1>4. Rising(less)
  BY <1>2, <1>3 DEF Rising, all
<1>5. Elements(less) \subseteq Elements(all)
  BY <1>2 DEF Elements
<1>. QED BY <1>4, <1>5 DEF all, less

Told(c) == got[c] \o slots[c]

\* what is told to a client before it subscribes, and how much of it there is
TellsWhatWasPublished(c) ==
  /\ Rising(Told(c))
  /\ \A i \in DOMAIN Told(c) : Told(c)[i] <= published
  /\ handler[c] \in {"out", "opened"} =>
       got[c] = <<>> /\ slots[c] = <<>> /\ skipped[c] = {}
  /\ since[c] <= published
  /\ c \in subs /\ handler[c] = "looping" =>
       Elements(Told(c)) \cup skipped[c] = (since[c] + 1) .. published

HubInv ==
  /\ HubTypeOK
  /\ SubscribersAreServed
  /\ \A c \in Clients : TellsWhatWasPublished(c)

LEMMA HubInvInit == HubInit => HubInv
<1> SUFFICES ASSUME HubInit PROVE HubInv
  OBVIOUS
<1> USE HubAssumption DEF HubInit
<1>1. HubTypeOK
  <2>1. /\ slots \in [Clients -> Seq(1 .. MaxFrames)]
        /\ got \in [Clients -> Seq(1 .. MaxFrames)]
        /\ \A c \in Clients : Len(slots[c]) <= Depth
    OBVIOUS
  <2>2. shut \in BOOLEAN
    OBVIOUS
  <2>3. /\ subs \in SUBSET Clients /\ over \in SUBSET Clients /\ tripped \in SUBSET Clients
        /\ handler \in [Clients -> {"out", "opened", "looping", "unwinding", "returned"}]
        /\ skipped \in [Clients -> SUBSET (1 .. MaxFrames)]
    OBVIOUS
  <2>4. published \in 0 .. MaxFrames /\ since \in [Clients -> 0 .. MaxFrames]
    OBVIOUS
  <2>. QED BY <2>1, <2>2, <2>3, <2>4 DEF HubTypeOK
<1>2. SubscribersAreServed
  BY DEF SubscribersAreServed
<1>3. ASSUME NEW c \in Clients PROVE TellsWhatWasPublished(c)
  <2>1. Told(c) = <<>>
    BY DEF Told
  <2>. QED BY <2>1 DEF TellsWhatWasPublished, Rising
<1>. QED BY <1>1, <1>2, <1>3 DEF HubInv

\* A client whose part of the state stands still, and whose part of the hub
\* does, tells what it told.
LEMMA TellsTheSame ==
  ASSUME NEW c \in Clients, TellsWhatWasPublished(c),
         got'[c] = got[c], slots'[c] = slots[c], skipped'[c] = skipped[c],
         since'[c] = since[c], published' = published,
         handler'[c] \in {"out", "opened"} => handler[c] \in {"out", "opened"},
         c \in subs' /\ handler'[c] = "looping" => c \in subs /\ handler[c] = "looping"
  PROVE  TellsWhatWasPublished(c)'
<1>1. Told(c)' = Told(c)
  BY DEF Told
<1>. QED BY <1>1 DEF TellsWhatWasPublished, Rising, Elements

\* What is told is of frames: numbers that are compared.
LEMMA ToldType ==
  ASSUME HubTypeOK, NEW c \in Clients
  PROVE  /\ Told(c) \in Seq(1 .. MaxFrames) /\ Told(c) \in Seq(Nat)
         /\ got[c] \in Seq(Nat) /\ slots[c] \in Seq(Nat)
<1>1. got[c] \in Seq(1 .. MaxFrames) /\ slots[c] \in Seq(1 .. MaxFrames)
  BY DEF HubTypeOK
<1>2. Told(c) \in Seq(1 .. MaxFrames)
  BY <1>1 DEF Told
<1>3. ASSUME NEW s \in Seq(1 .. MaxFrames) PROVE s \in Seq(Nat)
  BY HubAssumption, <1>3
<1>. QED BY <1>1, <1>2, <1>3

LEMMA PublishKeepsHubInv == HubInv /\ Publish => HubInv'
<1> SUFFICES ASSUME HubInv, Publish, ~shut PROVE HubInv'
  <2>1. HubInv /\ UNCHANGED hubVars => HubInv'
    BY SMTT(30) DEF HubInv, HubTypeOK, SubscribersAreServed, TellsWhatWasPublished, Told,
           Rising, Elements, hubVars, hubState, clientVars
  <2>. QED BY <2>1 DEF Publish
<1> USE HubAssumption
<1>1. /\ published' = published + 1 /\ published + 1 \in 1 .. MaxFrames
      /\ UNCHANGED <<subs, shut, handler, since, got, over, tripped>>
  BY DEF Publish, HubInv, HubTypeOK
<1>2. ASSUME NEW c \in Clients
      PROVE  /\ slots'[c] = IF c \in subs /\ Room(c) THEN Append(slots[c], published + 1)
                                                     ELSE slots[c]
             /\ skipped'[c] = IF c \in subs /\ ~Room(c) THEN skipped[c] \cup {published + 1}
                                                        ELSE skipped[c]
  BY DEF Publish
<1>3. HubTypeOK'
  <2>1. ASSUME NEW c \in Clients
        PROVE  /\ slots'[c] \in Seq(1 .. MaxFrames) /\ Len(slots'[c]) <= Depth
               /\ skipped'[c] \in SUBSET (1 .. MaxFrames)
    <3>1. /\ slots[c] \in Seq(1 .. MaxFrames) /\ Len(slots[c]) <= Depth
          /\ skipped[c] \in SUBSET (1 .. MaxFrames)
      BY DEF HubInv, HubTypeOK
    <3>2. CASE c \in subs /\ Room(c)
      <4>1. slots'[c] = Append(slots[c], published + 1) /\ skipped'[c] = skipped[c]
        BY <3>2, <1>2
      <4>2. /\ Append(slots[c], published + 1) \in Seq(1 .. MaxFrames)
            /\ Len(Append(slots[c], published + 1)) = Len(slots[c]) + 1
            /\ Len(slots[c]) \in Nat
        BY <3>1, <1>1
      <4>. QED BY <3>1, <3>2, <4>1, <4>2 DEF Room
    <3>3. CASE ~(c \in subs /\ Room(c))
      BY <3>1, <3>3, <1>1, <1>2
    <3>. QED BY <3>2, <3>3
  <2>2. /\ slots' \in [Clients -> Seq(1 .. MaxFrames)]
        /\ skipped' \in [Clients -> SUBSET (1 .. MaxFrames)]
    BY <2>1 DEF Publish
  <2>. QED BY <2>1, <2>2, <1>1 DEF HubInv, HubTypeOK
<1>4. SubscribersAreServed'
  BY <1>1 DEF HubInv, SubscribersAreServed
<1>5. ASSUME NEW c \in Clients PROVE TellsWhatWasPublished(c)'
  <2>1. /\ TellsWhatWasPublished(c) /\ Told(c) \in Seq(Nat)
        /\ got[c] \in Seq(Nat) /\ slots[c] \in Seq(Nat)
    BY ToldType DEF HubInv
  <2>2. published \in Nat /\ since[c] \in Nat
    BY DEF HubInv, HubTypeOK
  <2>3. c \in subs => handler[c] \notin {"out", "opened"}
    BY DEF HubInv, SubscribersAreServed
  <2>4. CASE c \in subs /\ Room(c)
    <3>1. Told(c)' = Append(Told(c), published + 1)
      <4>1. Told(c)' = got[c] \o Append(slots[c], published + 1)
        BY <1>1, <1>2, <2>4 DEF Told
      <4>2. got[c] \in Seq(Nat) /\ slots[c] \in Seq(Nat) /\ published + 1 \in Nat
        BY <2>1, <2>2
      <4>3. got[c] \o Append(slots[c], published + 1)
              = Append(got[c] \o slots[c], published + 1)
        BY <4>2, AppendAtTheSeam, Zenon
      <4>. QED BY <4>1, <4>3 DEF Told
    <3>2. /\ Rising(Told(c)') /\ Elements(Told(c)') = Elements(Told(c)) \cup {published + 1}
      BY <3>1, <2>1, <2>2, RisingAppended, SMTT(30) DEF TellsWhatWasPublished
    <3>3. \A i \in DOMAIN Told(c)' : Told(c)'[i] <= published + 1
      BY <3>1, <2>1, <2>2 DEF TellsWhatWasPublished
    <3>4. skipped'[c] = skipped[c]
      BY <1>2, <2>4
    <3>5. c \in subs /\ handler[c] = "looping" =>
            Elements(Told(c)') \cup skipped'[c] = (since[c] + 1) .. (published + 1)
      <4>1. /\ (since[c] + 1) .. (published + 1) = ((since[c] + 1) .. published) \cup {published + 1}
            /\ c \in subs /\ handler[c] = "looping" =>
                 Elements(Told(c)) \cup skipped[c] = (since[c] + 1) .. published
        BY <2>1, <2>2, OneMoreUp DEF TellsWhatWasPublished
      <4>. QED BY <3>2, <3>4, <4>1, Zenon
    <3>. QED BY <3>2, <3>3, <3>5, <1>1, <2>1, <2>2, <2>3, <2>4 DEF TellsWhatWasPublished
  <2>5. CASE c \in subs /\ ~Room(c)
    <3>1. Told(c)' = Told(c) /\ skipped'[c] = skipped[c] \cup {published + 1}
      BY <1>1, <1>2, <2>5 DEF Told
    <3>2. Rising(Told(c))' /\ Elements(Told(c))' = Elements(Told(c))
      BY <3>1, <2>1 DEF TellsWhatWasPublished, Rising, Elements
    <3>3. \A i \in DOMAIN Told(c)' : Told(c)'[i] <= published + 1
      BY <3>1, <2>1, <2>2 DEF TellsWhatWasPublished
    <3>4. c \in subs /\ handler[c] = "looping" =>
            Elements(Told(c)') \cup skipped'[c] = (since[c] + 1) .. (published + 1)
      <4>1. /\ (since[c] + 1) .. (published + 1) = ((since[c] + 1) .. published) \cup {published + 1}
            /\ c \in subs /\ handler[c] = "looping" =>
                 Elements(Told(c)) \cup skipped[c] = (since[c] + 1) .. published
        BY <2>1, <2>2, OneMoreUp DEF TellsWhatWasPublished
      <4>2. Elements(Told(c)') = Elements(Told(c))
        BY <3>1, Zenon
      <4>. QED BY <3>1, <4>1, <4>2, Zenon
    <3>. QED BY <3>1, <3>2, <3>3, <3>4, <1>1, <2>1, <2>2, <2>3, <2>5
             DEF TellsWhatWasPublished, Elements
  <2>6. CASE c \notin subs
    <3>1. Told(c)' = Told(c) /\ skipped'[c] = skipped[c] /\ slots'[c] = slots[c]
      BY <1>1, <1>2, <2>6 DEF Told
    <3>2. \A i \in DOMAIN Told(c)' : Told(c)'[i] <= published + 1
      BY <3>1, <2>1, <2>2 DEF TellsWhatWasPublished
    <3>. QED BY <3>1, <3>2, <1>1, <2>1, <2>2, <2>6 DEF TellsWhatWasPublished, Rising
  <2>. QED BY <2>4, <2>5, <2>6
<1>. QED BY <1>3, <1>4, <1>5 DEF HubInv

LEMMA LoopKeepsHubInv ==
  ASSUME HubInv, NEW c \in Clients, LoopWrites(c)
  PROVE  HubInv'
<1> USE HubAssumption
<1>1. /\ handler[c] = "looping" /\ slots[c] # <<>>
      /\ slots' = [slots EXCEPT ![c] = Tail(@)]
      /\ UNCHANGED <<subs, shut, published, since, skipped, over, tripped>>
  BY DEF LoopWrites, hubState
<1>2. \/ got' = [got EXCEPT ![c] = Append(@, Head(slots[c]))] /\ handler' = handler
      \/ got' = got /\ handler' = [handler EXCEPT ![c] = "unwinding"]
  BY DEF LoopWrites, Oldest
<1>3. /\ slots[c] \in Seq(1 .. MaxFrames) /\ got[c] \in Seq(1 .. MaxFrames)
      /\ Len(slots[c]) <= Depth
  BY DEF HubInv, HubTypeOK
<1>4. HubTypeOK'
  <2>1. /\ Tail(slots[c]) \in Seq(1 .. MaxFrames)
        /\ Head(slots[c]) \in 1 .. MaxFrames
        /\ Len(Tail(slots[c])) <= Depth
    <3>1. Len(slots[c]) \in Nat /\ Len(Tail(slots[c])) = Len(slots[c]) - 1
      BY <1>1, <1>3
    <3>2. Tail(slots[c]) \in Seq(1 .. MaxFrames) /\ Head(slots[c]) \in 1 .. MaxFrames
      BY <1>1, <1>3, HeadTailProperties, Zenon
    <3>. QED BY <3>1, <3>2, <1>3
  <2>2. /\ slots' \in [Clients -> Seq(1 .. MaxFrames)]
        /\ \A d \in Clients : Len(slots'[d]) <= Depth
    BY <1>1, <2>1 DEF HubInv, HubTypeOK
  <2>3. Append(got[c], Head(slots[c])) \in Seq(1 .. MaxFrames)
    BY <2>1, <1>3
  <2>4. got' \in [Clients -> Seq(1 .. MaxFrames)]
    BY <1>2, <2>3 DEF HubInv, HubTypeOK
  <2>5. handler' \in [Clients -> {"out", "opened", "looping", "unwinding", "returned"}]
    BY <1>2 DEF HubInv, HubTypeOK
  <2>. QED BY <2>2, <2>4, <2>5, <1>1 DEF HubInv, HubTypeOK
<1>5. SubscribersAreServed'
  BY <1>1, <1>2 DEF HubInv, HubTypeOK, SubscribersAreServed
<1>6. TellsWhatWasPublished(c)'
  <2>1. /\ TellsWhatWasPublished(c) /\ Told(c) \in Seq(Nat)
        /\ got[c] \in Seq(Nat) /\ slots[c] \in Seq(Nat)
        /\ slots'[c] = Tail(slots[c])
        /\ published \in Nat
    BY ToldType, <1>1 DEF HubInv, HubTypeOK
  <2>2. CASE got' = [got EXCEPT ![c] = Append(@, Head(slots[c]))] /\ handler' = handler
    <3>1. got'[c] = Append(got[c], Head(slots[c]))
      BY <2>2 DEF HubInv, HubTypeOK
    <3>2. Told(c)' = Told(c)
      BY <3>1, <2>1, <1>1, MoveOverTheSeam, Zenon DEF Told
    <3>. QED BY <3>2, <2>1, <2>2, <1>1 DEF TellsWhatWasPublished, Rising, Elements
  <2>3. CASE got' = got /\ handler' = [handler EXCEPT ![c] = "unwinding"]
    <3>1. Told(c)' = got[c] \o Tail(slots[c]) /\ handler'[c] = "unwinding"
      BY <2>3, <2>1 DEF Told, HubInv, HubTypeOK
    <3>2. /\ Rising(Told(c)') /\ Elements(Told(c)') \subseteq Elements(Told(c))
      <4>1. Rising(got[c] \o slots[c])
        BY <2>1 DEF TellsWhatWasPublished, Told
      <4>2. /\ Rising(got[c] \o Tail(slots[c]))
            /\ Elements(got[c] \o Tail(slots[c])) \subseteq Elements(got[c] \o slots[c])
        BY <4>1, <2>1, <1>1, RisingWithoutOne
      <4>. QED BY <3>1, <4>2 DEF Told
    <3>3. \A i \in DOMAIN Told(c)' : Told(c)'[i] <= published
      <4>1. \A e \in Elements(Told(c)) : e <= published
        BY <2>1 DEF TellsWhatWasPublished, Elements
      <4>. QED BY <4>1, <3>2 DEF Elements
    <3>. QED BY <3>1, <3>2, <3>3, <2>1, <1>1 DEF TellsWhatWasPublished
  <2>. QED BY <1>2, <2>2, <2>3
<1>7. ASSUME NEW d \in Clients, d # c PROVE TellsWhatWasPublished(d)'
  <2>1. /\ got'[d] = got[d] /\ slots'[d] = slots[d] /\ handler'[d] = handler[d]
        /\ TellsWhatWasPublished(d)
    BY <1>1, <1>2, <1>7 DEF HubInv, HubTypeOK
  <2>. QED BY <2>1, <1>1, TellsTheSame
<1>. QED BY <1>4, <1>5, <1>6, <1>7 DEF HubInv

LEMMA RegisterKeepsHubInv ==
  ASSUME HubInv, NEW c \in Clients, Registers(c)
  PROVE  HubInv'
<1> USE HubAssumption
<1>1. /\ handler[c] = "opened" /\ handler' = [handler EXCEPT ![c] = "looping"]
      /\ subs' = IF shut THEN subs ELSE subs \cup {c}
      /\ since' = [since EXCEPT ![c] = published]
      /\ UNCHANGED <<shut, published, slots, got, skipped, over, tripped>>
  BY DEF Registers, Subscribed
<1>2. HubTypeOK'
  BY <1>1 DEF HubInv, HubTypeOK
<1>3. SubscribersAreServed'
  BY <1>1 DEF HubInv, HubTypeOK, SubscribersAreServed
<1>4. TellsWhatWasPublished(c)'
  <2>1. /\ got[c] = <<>> /\ slots[c] = <<>> /\ skipped[c] = {}
        /\ since'[c] = published /\ published \in Nat /\ handler'[c] = "looping"
    BY <1>1 DEF HubInv, HubTypeOK, TellsWhatWasPublished
  <2>2. Told(c)' = <<>>
    BY <2>1, <1>1 DEF Told
  <2>3. Rising(Told(c)') /\ Elements(Told(c)') = {}
    BY <2>2 DEF Rising, Elements
  <2>4. (published + 1) .. published = {}
    BY <2>1
  <2>. QED BY <2>1, <2>2, <2>3, <2>4, <1>1 DEF TellsWhatWasPublished
<1>5. ASSUME NEW d \in Clients, d # c PROVE TellsWhatWasPublished(d)'
  <2>1. /\ since'[d] = since[d] /\ handler'[d] = handler[d] /\ TellsWhatWasPublished(d)
        /\ d \in subs' => d \in subs
    BY <1>1, <1>5 DEF HubInv, HubTypeOK
  <2>. QED BY <2>1, <1>1, TellsTheSame
<1>. QED BY <1>2, <1>3, <1>4, <1>5 DEF HubInv

\* The steps that leave the frames and the clients' numbers alone.
LEMMA OthersKeepHubInv ==
  ASSUME HubInv,
         \/ Close
         \/ \E c \in Clients :
              Opens(c) \/ LoopLeaves(c) \/ LoopFails(c) \/ Unwinds(c) \/ Ends(c) \/ Trips(c)
         \/ UNCHANGED hubVars
  PROVE  HubInv'
<1> USE DEF hubVars, hubState, clientVars
<1>1. UNCHANGED <<published, slots, since, got, skipped>>
  BY DEF Close, Opens, LoopLeaves, LoopFails, Unwinds, Ends, Trips
<1>2. HubTypeOK'
  <2>1. /\ subs' \in SUBSET Clients /\ shut' \in BOOLEAN
        /\ over' \in SUBSET Clients /\ tripped' \in SUBSET Clients
    BY DEF Close, Opens, LoopLeaves, LoopFails, Unwinds, Ends, Trips, HubInv, HubTypeOK,
           Unsubscribed
  <2>2. handler' \in [Clients -> {"out", "opened", "looping", "unwinding", "returned"}]
    BY DEF Close, Opens, LoopLeaves, LoopFails, Unwinds, Ends, Trips, HubInv, HubTypeOK
  <2>. QED BY <1>1, <2>1, <2>2 DEF HubInv, HubTypeOK
<1>3. SubscribersAreServed'
  BY DEF Close, Opens, LoopLeaves, LoopFails, Unwinds, Ends, Trips, HubInv, HubTypeOK,
         Unsubscribed, SubscribersAreServed
<1>4. ASSUME NEW c \in Clients PROVE TellsWhatWasPublished(c)'
  <2>1. /\ handler'[c] \in {"out", "opened"} => handler[c] \in {"out", "opened"}
        /\ c \in subs' /\ handler'[c] = "looping" => c \in subs /\ handler[c] = "looping"
    BY DEF Close, Opens, LoopLeaves, LoopFails, Unwinds, Ends, Trips, HubInv, HubTypeOK,
           Unsubscribed
  <2>. QED BY <2>1, <1>1, TellsTheSame DEF HubInv
<1>. QED BY <1>2, <1>3, <1>4 DEF HubInv

\* A subscriber of the hub is told what was published since it subscribed, in
\* order, and only what it had no room for is missing; and who counts as a
\* subscriber is served (sse.go, Publish: a client with no room skips the frame).
THEOREM HubTellsSubscribers == HubSpec => []SubscribersAreTold
<1>1. HubInv /\ [HubNext]_hubVars => HubInv'
  BY PublishKeepsHubInv, LoopKeepsHubInv, RegisterKeepsHubInv, OthersKeepHubInv
     DEF HubNext
<1>2. HubInv => SubscribersAreTold
  <2>1. ASSUME HubInv, NEW c \in Clients
        PROVE  LET seen == got[c] \o slots[c]
               IN  /\ \A i, j \in DOMAIN seen : i < j => seen[i] < seen[j]
                   /\ c \in subs /\ handler[c] = "looping" =>
                        {seen[i] : i \in DOMAIN seen} \cup skipped[c]
                          = (since[c] + 1) .. published
    BY <2>1 DEF HubInv, TellsWhatWasPublished, Rising, Elements, Told
  <2>2. HubInv => InOrderButSkipped
    BY <2>1 DEF InOrderButSkipped
  <2>. QED BY <2>2 DEF HubInv, SubscribersAreTold
<1>. QED BY HubInvInit, <1>1, <1>2, PTL DEF HubSpec

-----------------------------------------------------------------------------
(* The table of the policies.  Whoever finds a fetch waits for it, and the *)
(* one that fetches is the only one that ends it.                          *)

\* what Cardinality(inflight) <= 1 says
OneAtMost == \A c, d \in inflight : c = d

LEMMA OneAtMostIsOne == ASSUME OneAtMost PROVE Cardinality(inflight) <= 1
<1>1. CASE inflight = {}
  BY <1>1, FS_EmptySet
<1>2. CASE inflight # {}
  <2>1. PICK c : inflight = {c}
    BY <1>2 DEF OneAtMost
  <2>. QED BY <2>1, FS_Singleton
<1>. QED BY <1>1, <1>2

PolicyKept ==
  /\ PolicyTypeOK /\ OneAtMost
  /\ inflight = {c \in Callers : caller[c].at \in {"fetching", "fetched"}}
  /\ Waiting # {} => inflight # NoFetch

LEMMA PolicyKeptInit == PolicyInit => PolicyKept
<1> SUFFICES ASSUME PolicyInit PROVE PolicyKept
  OBVIOUS
<1>1. MaxBoot \in Nat
  BY BootAssumption
<1>2. Out \in CallState /\ Out.at = "out"
  BY <1>1 DEF Out, CallState, Unread
<1>3. PolicyTypeOK
  <2>1. 0 \in 0 .. MaxBoot
    BY <1>1
  <2>2. caller \in [Callers -> CallState] /\ \A c \in Callers : caller[c].at = "out"
    BY <1>2 DEF PolicyInit
  <2>. QED BY <2>1, <2>2 DEF PolicyInit, PolicyTypeOK, NoFetch, Unread
<1>. QED BY <1>2, <1>3 DEF PolicyInit, PolicyKept, OneAtMost, Waiting, NoFetch

LEMMA PolicyKeptStep == PolicyKept /\ [PolicyNext]_policyVars => PolicyKept'
<1> SUFFICES ASSUME PolicyKept, PolicyNext \/ UNCHANGED policyVars PROVE PolicyKept'
  OBVIOUS
<1>0. MaxBoot \in Nat \ {0} /\ Unread \in 0 .. MaxBoot /\ PolicyTypeOK /\ OneAtMost
      /\ inflight = {c \in Callers : caller[c].at \in {"fetching", "fetched"}}
      /\ (Waiting # {} => inflight # {})
  BY BootAssumption DEF Unread, PolicyKept, NoFetch
<1> USE DEF PolicyTypeOK
\* a step that no call takes
<1>1. ASSUME UNCHANGED <<caller, inflight>>, PolicyTypeOK' PROVE PolicyKept'
  BY <1>0, <1>1 DEF PolicyKept, OneAtMost, Waiting, NoFetch
<1>2. CASE Starts \/ Stops \/ Responds \/ Forgives
  <2>1. PolicyTypeOK'
    <3>1. service' \in 0 .. MaxBoot /\ boots' \in 0 .. MaxBoot
      BY <1>0, <1>2 DEF Starts, Stops, Responds, Forgives
    <3>2. stamps' \in SUBSET Boots /\ failed' \in BOOLEAN
      <4>1. service # 0 => service \in Boots
        BY <1>0 DEF Boots
      <4>. QED BY <1>0, <1>2, <4>1 DEF Starts, Stops, Responds, Forgives
    <3>3. UNCHANGED <<loaded, boot, inflight, caller>>
      BY <1>2 DEF Starts, Stops, Responds, Forgives
    <3>. QED BY <1>0, <3>1, <3>2, <3>3
  <2>. QED BY <1>1, <1>2, <2>1 DEF Starts, Stops, Responds, Forgives
<1>3. ASSUME NEW stamp \in Boots, SawBoot(stamp) PROVE PolicyKept'
  <2>1. loaded' \in BOOLEAN
    BY <1>0, <1>3 DEF SawBoot
  <2>2. PolicyTypeOK'
    BY <1>0, <1>3, <2>1 DEF SawBoot
  <2>. QED BY <1>1, <1>3, <2>2 DEF SawBoot
<1>4. CASE UNCHANGED policyVars
  BY <1>0, <1>1, <1>4 DEF policyVars
\* a call that goes from one place to another
<1> DEFINE Steps(c, s) == caller' = [caller EXCEPT ![c] = s]
<1>5. ASSUME NEW c \in Callers, NEW s \in CallState, Steps(c, s),
             s.at \in {"fetching", "waiting", "woken"} => s.with = Unread,
             UNCHANGED <<service, boots, loaded, boot, failed, stamps>>
      PROVE  /\ caller'[c] = s /\ \A d \in Callers \ {c} : caller'[d] = caller[d]
             /\ (inflight' \in SUBSET Callers => PolicyTypeOK')
  <2>1. caller'[c] = s /\ (\A d \in Callers \ {c} : caller'[d] = caller[d]) /\ caller' \in [Callers -> CallState]
    BY <1>0, <1>5
  <2>. QED BY <1>0, <1>5, <2>1
<1>6. ASSUME NEW c \in Callers, Asks(c) PROVE PolicyKept'
  <2>1. UNCHANGED <<service, boots, loaded, boot, failed, stamps>> /\ caller[c].at = "out" /\ c \notin inflight
    BY <1>0, <1>6 DEF Asks
  <2>2. ASSUME NEW with \in 0 .. MaxBoot, Returns(c, with), UNCHANGED inflight PROVE PolicyKept'
    <3> DEFINE s == [at |-> "out", with |-> with]
    <3>1. s \in CallState /\ s.at = "out"
      BY DEF CallState
    <3>2. Steps(c, s)
      BY <2>2 DEF Returns
    <3> HIDE DEF s
    <3>3. caller'[c] = s /\ (\A d \in Callers \ {c} : caller'[d] = caller[d]) /\ PolicyTypeOK'
      BY <1>0, <1>5, <2>1, <2>2, <3>1, <3>2
    <3>. QED BY <1>0, <2>1, <2>2, <3>1, <3>3 DEF PolicyKept, OneAtMost, Waiting, NoFetch
  <2>3. ASSUME GoesTo(c, "waiting"), Shared, UNCHANGED inflight PROVE PolicyKept'
    <3> DEFINE s == [at |-> "waiting", with |-> Unread]
    <3>1. s \in CallState /\ s.at = "waiting" /\ s.with = Unread
      BY <1>0 DEF CallState
    <3>2. Steps(c, s)
      BY <2>3 DEF GoesTo
    <3> HIDE DEF s
    <3>3. caller'[c] = s /\ (\A d \in Callers \ {c} : caller'[d] = caller[d]) /\ PolicyTypeOK'
      BY <1>0, <1>5, <2>1, <2>3, <3>1, <3>2
    <3>. QED BY <1>0, <2>1, <2>3, <3>1, <3>3 DEF PolicyKept, OneAtMost, Waiting, NoFetch, Shared
  <2>4. ASSUME GoesTo(c, "fetching"), ~Shared, inflight' = inflight \cup {c} PROVE PolicyKept'
    <3> DEFINE s == [at |-> "fetching", with |-> Unread]
    <3>1. s \in CallState /\ s.at = "fetching" /\ s.with = Unread
      BY <1>0 DEF CallState
    <3>2. Steps(c, s)
      BY <2>4 DEF GoesTo
    <3>3. inflight = {} /\ inflight' = {c}
      BY <2>4 DEF Shared, NoFetch
    <3> HIDE DEF s
    <3>4. caller'[c] = s /\ (\A d \in Callers \ {c} : caller'[d] = caller[d]) /\ PolicyTypeOK'
      BY <1>0, <1>5, <2>1, <3>1, <3>2, <3>3
    <3>. QED BY <1>0, <3>1, <3>3, <3>4 DEF PolicyKept, OneAtMost, Waiting, NoFetch
  <2>. QED BY <1>0, <1>6, <2>2, <2>3, <2>4 DEF Asks
<1>7. ASSUME NEW c \in Callers, Fetched(c) PROVE PolicyKept'
  <2>1. PICK with \in {Unread, service} : caller' = [caller EXCEPT ![c] = [at |-> "fetched", with |-> with]]
    BY <1>7 DEF Fetched
  <2> DEFINE s == [at |-> "fetched", with |-> with]
  <2>2. s \in CallState /\ s.at = "fetched"
    BY <1>0, <2>1 DEF CallState
  <2>3. Steps(c, s)
    BY <2>1
  <2> HIDE DEF s
  <2>4. UNCHANGED <<service, boots, loaded, boot, inflight, failed, stamps>> /\ caller[c].at = "fetching"
    BY <1>7 DEF Fetched
  <2>5. caller'[c] = s /\ (\A d \in Callers \ {c} : caller'[d] = caller[d]) /\ PolicyTypeOK'
    BY <1>0, <1>5, <2>2, <2>3, <2>4
  <2>. QED BY <1>0, <2>2, <2>4, <2>5 DEF PolicyKept, OneAtMost, Waiting, NoFetch
<1>8. ASSUME NEW c \in Callers, Rereads(c) PROVE PolicyKept'
  <2> DEFINE with == IF loaded THEN boot ELSE Unread
             s == [at |-> "out", with |-> with]
  <2>1. with \in 0 .. MaxBoot
    BY <1>0
  <2> HIDE DEF with
  <2>2. s \in CallState /\ s.at = "out"
    BY <2>1 DEF CallState
  <2>3. Steps(c, s)
    BY <1>8 DEF Rereads, Returns, with
  <2> HIDE DEF s
  <2>4. UNCHANGED <<service, boots, loaded, boot, inflight, failed, stamps>> /\ caller[c].at = "woken"
    BY <1>8 DEF Rereads
  <2>5. caller'[c] = s /\ (\A d \in Callers \ {c} : caller'[d] = caller[d]) /\ PolicyTypeOK'
    BY <1>0, <1>5, <2>2, <2>3, <2>4
  <2>. QED BY <1>0, <2>2, <2>4, <2>5 DEF PolicyKept, OneAtMost, Waiting, NoFetch
<1>9. ASSUME NEW c \in Callers, Stores(c) PROVE PolicyKept'
  <2>1. caller[c].at = "fetched" /\ inflight = {c} /\ inflight' = {}
    BY <1>0, <1>9 DEF Stores, OneAtMost
  <2> DEFINE back == [at |-> "out", with |-> caller[c].with]
             woken == [at |-> "woken", with |-> Unread]
  <2>2. back \in CallState /\ back.at = "out" /\ woken \in CallState /\ woken.at = "woken" /\ woken.with = Unread
    <3>1. caller[c].with \in 0 .. MaxBoot
      BY <1>0 DEF CallState
    <3>. QED BY <1>0, <3>1 DEF CallState
  <2>3. caller' = [d \in Callers |-> IF d = c THEN back ELSE IF d \in Waiting THEN woken ELSE caller[d]]
    BY <1>9 DEF Stores, Wakes
  <2> HIDE DEF back, woken
  <2>4. caller' \in [Callers -> CallState]
        /\ \A d \in Callers : /\ d = c => caller'[d] = back
                              /\ d # c /\ d \in Waiting => caller'[d] = woken
                              /\ d # c /\ d \notin Waiting => caller'[d] = caller[d]
    BY <1>0, <2>2, <2>3
  <2>5. failed' \in BOOLEAN /\ loaded' \in BOOLEAN /\ boot' \in 0 .. MaxBoot
    <3>1. caller[c].with \in 0 .. MaxBoot
      BY <1>0 DEF CallState
    <3>. QED BY <1>0, <1>9, <3>1 DEF Stores
  <2>6. PolicyTypeOK'
    BY <1>0, <1>9, <2>1, <2>2, <2>4, <2>5 DEF Stores
  <2>7. Waiting' = {}
    BY <2>2, <2>4 DEF Waiting
  <2>8. \A d \in Callers : caller'[d].at \notin {"fetching", "fetched"}
    BY <1>0, <2>1, <2>2, <2>4
  <2>. QED BY <2>1, <2>6, <2>7, <2>8 DEF PolicyKept, OneAtMost, NoFetch
<1>. QED BY <1>2, <1>3, <1>4, <1>6, <1>7, <1>8, <1>9 DEF PolicyNext

\* However many ask for the table, one fetch runs and the others wait for it
\* (isr_front.go policySource.table, 147-186).
THEOREM OneFetchAtATime == PolicySpec => [](PolicyTypeOK /\ OneFetch)
<1>1. PolicyKept => PolicyTypeOK /\ OneFetch
  BY OneAtMostIsOne DEF PolicyKept, OneFetch
<1>. QED BY <1>1, PolicyKeptInit, PolicyKeptStep, PTL DEF PolicySpec

-----------------------------------------------------------------------------
(* Compressed documents.  A zlib stream is the business of one document    *)
(* from Start to Cleanup: that is OneUserEach, about the streams.  While   *)
(* it runs, what its client has, what the answer holds and what zlib holds *)
(* are, one after the other, exactly what was read: that is DocOK.         *)

LOCAL INSTANCE SequencesExt

Uses(d) == using[d] # None

\* a document whose pump has a zlib stream to itself, and a sound one
Running(d) == Uses(d) /\ ~released[d] /\ ~Destroyed(d)

\* what its client took or can take
Handed(d) == Len(taken[d]) + Len(queue[d])

Input(d) == zlib[using[d]].input

Listened(d) == d \in zlib[using[d]].listeners

ChunksOf == [doc : Docs, n : 1 .. Length + 1]

ZlibStates == [listeners : SUBSET Docs, input : Seq([doc : Docs, n : 1 .. Length]),
               flush : Docs \cup {None}, destroyed : BOOLEAN]

StreamsAreTyped ==
  /\ queue \in [Docs -> Seq(ChunksOf)]
  /\ taken \in [Docs -> Seq(ChunksOf)]

\* what was not asked for is as it was
UnaskedIsFresh(d) ==
  ~Uses(d) =>
    /\ taken[d] = <<>> /\ queue[d] = <<>> /\ read[d] = 0
    /\ ~released[d] /\ ~cancelled[d] /\ ~broken[d] /\ source[d] = "open"
    /\ answer[d] \in {"unasked", "cut"} /\ pump[d] \in {"none", "over"}

RunningIsOpen(d) ==
  Running(d) =>
    /\ answer[d] = "open" /\ source[d] = "open" /\ ~cancelled[d] /\ ~broken[d]
    /\ pump[d] \in Pumping \cup {"flushing"}

\* what zlib holds is what follows, up to what was read
InputFollows(d) ==
  Running(d) =>
    /\ read[d] = Handed(d) + Len(Input(d))
    /\ \A i \in 1 .. Len(Input(d)) : Input(d)[i] = Chunk(d, Handed(d) + i)

\* a pump that may write has room for it
RoomIsKept(d) ==
  Running(d) =>
    /\ Len(queue[d]) + Len(Input(d)) <= Buffer
    /\ pump[d] \in {"woken", "reading"} => Len(queue[d]) + Len(Input(d)) < Buffer
    /\ pump[d] \in {"top", "parked"} => Len(Input(d)) < Buffer

\* a pump that runs on without its stream has nobody to answer
LeftPumpsEnd(d) ==
  pump[d] \in Pumping /\ ~Running(d) =>
    Uses(d) /\ Destroyed(d) /\ answer[d] \in {"errored", "cancelled"}

ChunksInPlace(d) ==
  /\ \A i \in 1 .. Len(taken[d]) : taken[d][i] = Chunk(d, i)
  /\ \A i \in 1 .. Len(queue[d]) : queue[d][i] = Chunk(d, Len(taken[d]) + i)
  /\ Handed(d) <= Length + 1
  /\ answer[d] = "closed" => Handed(d) = Length + 1

RenderIsStopped(d) == answer[d] = "open" => read[d] <= Len(taken[d]) + 2 * Buffer + 1

DocOK(d) ==
  /\ UnaskedIsFresh(d) /\ RunningIsOpen(d) /\ InputFollows(d) /\ RoomIsKept(d)
  /\ LeftPumpsEnd(d) /\ ChunksInPlace(d) /\ RenderIsStopped(d)

UsedAreMade ==
  \A d \in Docs : Uses(d) => using[d] \in made /\ answer[d] # "unasked" /\ pump[d] # "none"

UnmadeAreNew ==
  \A z \in Zlibs \ made :
    /\ zlib[z].listeners = {} /\ zlib[z].input = <<>> /\ zlib[z].flush = None
    /\ zlib[z].destroyed => \A d \in Docs : answer[d] # "unasked"

PoolIsDistinct == \A i, j \in DOMAIN pool : pool[i] = pool[j] => i = j

\* one document at a time listens to a stream, and it is the one that uses it
UsersListen ==
  \A z \in Zlibs, d \in Docs : d \in zlib[z].listeners <=> using[d] = z /\ ~released[d]

UsersAreAlone ==
  \A d, e \in Docs :
    Uses(d) /\ using[d] = using[e] /\ ~released[d] /\ ~released[e] => d = e

FlushIsLast ==
  \A z \in Zlibs : zlib[z].flush # None /\ ~zlib[z].destroyed =>
    /\ using[zlib[z].flush] = z /\ ~released[zlib[z].flush]
    /\ pump[zlib[z].flush] = "flushing" /\ read[zlib[z].flush] = Length

OneUserEach ==
  /\ UsedAreMade /\ UnmadeAreNew /\ PoolIsDistinct /\ UsersListen /\ UsersAreAlone
  /\ FlushIsLast /\ PoolIsIdle

PumpInv == PumpTypeOK /\ StreamsAreTyped /\ OneUserEach /\ \A d \in Docs : DocOK(d)

\* the types, one variable each
PumpTypes ==
  /\ pool \in Seq(made) /\ made \subseteq Zlibs
  /\ zlib \in [Zlibs -> ZlibStates]
  /\ pump \in [Docs -> Pumping \cup {"none", "flushing", "over"}]
  /\ using \in [Docs -> Zlibs \cup {None}]
  /\ cancelled \in [Docs -> BOOLEAN]
  /\ broken \in [Docs -> BOOLEAN]
  /\ released \in [Docs -> BOOLEAN]
  /\ read \in [Docs -> 0 .. Length]
  /\ source \in [Docs -> {"open", "returned", "failed"}]
  /\ answer \in [Docs -> {"unasked", "open", "closed", "errored", "cancelled", "cut"}]
  /\ queue \in [Docs -> Seq(ChunksOf)]
  /\ taken \in [Docs -> Seq(ChunksOf)]

LEMMA PumpTypesAre == PumpTypeOK /\ StreamsAreTyped <=> PumpTypes
<1>1. ASSUME PumpTypeOK, StreamsAreTyped PROVE PumpTypes
  BY <1>1 DEF PumpTypeOK, PumpTypes, StreamsAreTyped, ZlibStates
<1>2. ASSUME PumpTypes PROVE PumpTypeOK /\ StreamsAreTyped
  BY <1>2 DEF PumpTypeOK, PumpTypes, StreamsAreTyped, ZlibStates
<1>. QED BY <1>1, <1>2

LEMMA PumpInvInit == PumpInit => PumpInv
<1> SUFFICES ASSUME PumpInit PROVE PumpInv
  OBVIOUS
<1> USE PumpAssumption DEF PumpInit
<1>1. PumpTypeOK /\ StreamsAreTyped
  <2>1. NoZlib \in ZlibStates
    BY DEF NoZlib, ZlibStates
  <2>. QED BY <2>1, PumpTypesAre DEF PumpTypes, Pumping
<1>2. OneUserEach
  <2>1. \A z \in Zlibs : /\ zlib[z].listeners = {} /\ zlib[z].input = <<>>
                          /\ zlib[z].flush = None /\ zlib[z].destroyed = FALSE
    BY DEF NoZlib
  <2>2. \A d \in Docs : using[d] = None /\ None \notin Zlibs
    OBVIOUS
  <2>3. PoolIsIdle /\ PoolIsDistinct
    BY DEF PoolIsIdle, PoolIsDistinct
  <2>. QED BY <2>1, <2>2, <2>3 DEF OneUserEach, UsedAreMade, UnmadeAreNew, UsersListen,
       UsersAreAlone, FlushIsLast, Uses
<1>3. ASSUME NEW d \in Docs PROVE DocOK(d)
  <2>1. ~Uses(d) /\ ~Running(d)
    BY DEF Uses, Running
  <2>2. Handed(d) = 0
    BY DEF Handed
  <2>. QED BY <2>1, <2>2 DEF DocOK, UnaskedIsFresh, RunningIsOpen, InputFollows,
       RoomIsKept, LeftPumpsEnd, ChunksInPlace, RenderIsStopped, Pumping
<1>. QED BY <1>1, <1>2, <1>3 DEF PumpInv

-----------------------------------------------------------------------------
(* A document that a step leaves alone, but for what others may do to a    *)
(* stream it has left.                                                     *)

LeftAlone(e) ==
  /\ pump'[e] = pump[e] /\ using'[e] = using[e] /\ cancelled'[e] = cancelled[e]
  /\ broken'[e] = broken[e] /\ released'[e] = released[e] /\ read'[e] = read[e]
  /\ source'[e] = source[e] /\ queue'[e] = queue[e] /\ taken'[e] = taken[e]
  /\ answer'[e] = answer[e]
  /\ Uses(e) /\ ~released[e] => zlib'[using[e]] = zlib[using[e]]
  /\ Uses(e) /\ released[e] /\ Destroyed(e) => zlib'[using[e]].destroyed

LEMMA LeftAloneIsOK ==
  ASSUME NEW e \in Docs, DocOK(e), LeftAlone(e)
  PROVE  DocOK(e)'
<1>1. Uses(e)' <=> Uses(e)
  BY DEF LeftAlone, Uses
<1>2. Uses(e) /\ ~released[e] => (Destroyed(e)' <=> Destroyed(e)) /\ Input(e)' = Input(e)
  BY DEF LeftAlone, Destroyed, Input
<1>3. Running(e)' <=> Running(e)
  BY <1>1, <1>2 DEF Running, LeftAlone
<1>4. Running(e) => Input(e)' = Input(e)
  BY <1>2 DEF Running
<1>5. Handed(e)' = Handed(e)
  BY DEF Handed, LeftAlone
<1>6. Uses(e) /\ Destroyed(e) => Destroyed(e)'
  BY <1>2 DEF LeftAlone, Destroyed
<1>7. UnaskedIsFresh(e)'
  BY <1>1 DEF DocOK, UnaskedIsFresh, LeftAlone
<1>8. RunningIsOpen(e)'
  BY <1>3 DEF DocOK, RunningIsOpen, LeftAlone, Pumping
<1>9. InputFollows(e)'
  BY <1>3, <1>4, <1>5 DEF DocOK, InputFollows, LeftAlone, Chunk
<1>10. RoomIsKept(e)'
  BY <1>3, <1>4 DEF DocOK, RoomIsKept, LeftAlone
<1>11. LeftPumpsEnd(e)'
  BY <1>1, <1>3, <1>6 DEF DocOK, LeftPumpsEnd, LeftAlone, Pumping
<1>12. ChunksInPlace(e)'
  BY <1>5 DEF DocOK, ChunksInPlace, LeftAlone, Chunk
<1>13. RenderIsStopped(e)'
  BY DEF DocOK, RenderIsStopped, LeftAlone
<1>. QED BY <1>7, <1>8, <1>9, <1>10, <1>11, <1>12, <1>13 DEF DocOK

-----------------------------------------------------------------------------
(* The streams, in a step that takes none and lets none go.                *)

StreamsKept ==
  /\ pool' = pool /\ made' = made /\ using' = using /\ released' = released
  /\ \A z \in Zlibs :
       /\ zlib'[z].listeners = zlib[z].listeners
       /\ zlib[z].destroyed => zlib'[z].destroyed
       /\ zlib'[z] # zlib[z] => \/ zlib[z].input # <<>>
                                \/ \E d \in Docs : using[d] = z /\ ~released[d]
       /\ \/ zlib'[z].flush = zlib[z].flush
          \/ \E d \in Docs : /\ zlib'[z].flush = d /\ using[d] = z /\ ~released[d]
                             /\ pump'[d] = "flushing" /\ read'[d] = Length
  /\ \A d \in Docs :
       /\ answer'[d] = "unasked" => answer[d] = "unasked"
       /\ Uses(d) => pump'[d] # "none"
       /\ released[d] /\ pump[d] \notin Pumping => pump'[d] \notin Pumping
       /\ Running(d) /\ pump[d] = "flushing" => pump'[d] = "flushing" /\ read'[d] = read[d]

LEMMA KeptStreamsAreOneUserEach ==
  ASSUME PumpInv, StreamsKept PROVE OneUserEach'
<1> USE DEF PumpInv, OneUserEach
<1>0. PumpTypes
  BY PumpTypesAre
<1>1. UsedAreMade'
  BY DEF UsedAreMade, StreamsKept, Uses
<1>2. UnmadeAreNew'
  <2> SUFFICES ASSUME NEW z \in Zlibs, z \notin made
               PROVE  zlib'[z] = zlib[z] /\ (zlib[z].destroyed => \A d \in Docs : answer'[d] # "unasked")
    BY DEF UnmadeAreNew, StreamsKept
  <2>1. \A d \in Docs : using[d] # z
    BY PumpAssumption DEF UsedAreMade, Uses
  <2>2. zlib[z].input = <<>>
    BY DEF UnmadeAreNew
  <2>. QED BY <2>1, <2>2 DEF UnmadeAreNew, StreamsKept
<1>3. PoolIsDistinct'
  BY DEF PoolIsDistinct, StreamsKept
<1>4. UsersListen'
  BY DEF UsersListen, StreamsKept
<1>5. UsersAreAlone'
  BY DEF UsersAreAlone, StreamsKept, Uses
<1>6. FlushIsLast'
  <2> SUFFICES ASSUME NEW z \in Zlibs, zlib'[z].flush # None, ~zlib'[z].destroyed
               PROVE  /\ using'[zlib'[z].flush] = z /\ ~released'[zlib'[z].flush]
                      /\ pump'[zlib'[z].flush] = "flushing" /\ read'[zlib'[z].flush] = Length
    BY DEF FlushIsLast
  <2>1. CASE zlib'[z].flush = zlib[z].flush
    <3>1. ~zlib[z].destroyed /\ zlib[z].flush # None
      BY <2>1 DEF StreamsKept
    <3>2. zlib[z].flush \in Docs
      BY <1>0, <3>1 DEF PumpTypes, ZlibStates
    <3> DEFINE d == zlib[z].flush
    <3>3. using[d] = z /\ ~released[d] /\ pump[d] = "flushing" /\ read[d] = Length
      BY <3>1 DEF FlushIsLast
    <3>4. Running(d)
      BY <3>1, <3>3, PumpAssumption DEF Running, Uses, Destroyed
    <3>. QED BY <2>1, <3>2, <3>3, <3>4 DEF StreamsKept
  <2>2. CASE zlib'[z].flush # zlib[z].flush
    BY <2>2 DEF StreamsKept
  <2>. QED BY <2>1, <2>2
<1>7. PoolIsIdle'
  <2> SUFFICES ASSUME NEW i \in DOMAIN pool
               PROVE  /\ zlib'[pool[i]] = NoZlib
                      /\ \A d \in Docs : using'[d] = pool[i] => released'[d] /\ pump'[d] \notin Pumping
    BY DEF PoolIsIdle, StreamsKept, Pumps
  <2>1. zlib[pool[i]] = NoZlib /\ \A d \in Docs : using[d] = pool[i] => released[d] /\ pump[d] \notin Pumping
    BY DEF PoolIsIdle, Pumps
  <2>2. pool[i] \in Zlibs
    BY <1>0, ElementOfSeq DEF PumpTypes
  <2>3. zlib[pool[i]].input = <<>>
    BY <2>1 DEF NoZlib
  <2>. QED BY <2>1, <2>2, <2>3 DEF StreamsKept
<1>. QED BY <1>1, <1>2, <1>3, <1>4, <1>5, <1>6, <1>7

-----------------------------------------------------------------------------
(* The streams, when a document lets its own go.                           *)

Left(pools) == [listeners |-> {}, input |-> <<>>, flush |-> None, destroyed |-> ~pools]

LetsGo(d, pools) ==
  /\ released' = [released EXCEPT ![d] = TRUE]
  /\ broken' = [broken EXCEPT ![d] = TRUE]
  /\ zlib' = [zlib EXCEPT ![using[d]] = Left(pools)]
  /\ pool' = IF pools THEN Append(pool, using[d]) ELSE pool
  /\ made' = made /\ using' = using

LEMMA CleanupLeaves ==
  ASSUME PumpInv, NEW d \in Docs, Uses(d), ~released[d], NEW keeps \in BOOLEAN,
         Cleanup(d, keeps), using' = using
  PROVE  \E pools \in BOOLEAN : LetsGo(d, pools) /\ (pools => keeps /\ ~Destroyed(d))
<1> DEFINE z == using[d]
           pools == keeps /\ ~zlib[z].destroyed /\ Len(pool) < PoolMax
<1>0. PumpTypes
  BY PumpTypesAre DEF PumpInv
<1>1. z \in Zlibs
  BY <1>0 DEF Uses, PumpTypes
<1>2. zlib[z].listeners \ {d} = {}
  <2>1. \A e \in Docs : e \in zlib[z].listeners => e = d
    BY <1>1 DEF PumpInv, OneUserEach, UsersListen, UsersAreAlone, Uses
  <2>2. zlib[z].listeners \subseteq Docs
    BY <1>0, <1>1 DEF PumpTypes, ZlibStates
  <2>. QED BY <2>1, <2>2
<1>3. Listeners(z, d) = {}
  BY <1>2 DEF Listeners
<1>4. LetsGo(d, pools)
  BY <1>3 DEF Cleanup, LetsGo, Left
<1>5. pools \in BOOLEAN /\ (pools => keeps /\ ~Destroyed(d))
  BY DEF Destroyed
<1>. QED BY <1>4, <1>5

LEMMA LeavingIsTyped ==
  ASSUME PumpInv, NEW d \in Docs, Uses(d), NEW pools \in BOOLEAN, LetsGo(d, pools)
  PROVE  /\ pool' \in Seq(made') /\ made' \subseteq Zlibs
         /\ zlib' \in [Zlibs -> ZlibStates]
         /\ using' \in [Docs -> Zlibs \cup {None}]
         /\ broken' \in [Docs -> BOOLEAN]
         /\ released' \in [Docs -> BOOLEAN]
<1>0. PumpTypes
  BY PumpTypesAre DEF PumpInv
<1>1. using[d] \in Zlibs /\ using[d] \in made
  BY <1>0 DEF Uses, PumpTypes, PumpInv, OneUserEach, UsedAreMade
<1>2. Left(pools) \in ZlibStates
  <2>1. <<>> \in Seq([doc : Docs, n : 1 .. Length])
    OBVIOUS
  <2>. QED BY <2>1 DEF Left, ZlibStates
<1>3. zlib' \in [Zlibs -> ZlibStates]
  BY <1>0, <1>1, <1>2 DEF LetsGo, PumpTypes
<1>4. pool' \in Seq(made')
  BY <1>0, <1>1 DEF LetsGo, PumpTypes
<1>. QED BY <1>0, <1>3, <1>4 DEF LetsGo, PumpTypes

LEMMA LeavingIsOneUserEach ==
  ASSUME PumpInv, NEW d \in Docs, Uses(d), ~released[d],
         NEW pools \in BOOLEAN, LetsGo(d, pools), pools => ~Destroyed(d),
         pump' \in [Docs -> Pumping \cup {"none", "flushing", "over"}],
         \A e \in Docs \ {d} : pump'[e] = pump[e] /\ read'[e] = read[e],
         pump'[d] # "none", pools => pump'[d] \notin Pumping,
         \A e \in Docs : answer'[e] = "unasked" => answer[e] = "unasked"
  PROVE  OneUserEach'
<1> USE DEF PumpInv, OneUserEach
<1>0. PumpTypes
  BY PumpTypesAre
<1> DEFINE z == using[d]
<1>1. z \in Zlibs /\ z \in made
  BY <1>0 DEF Uses, PumpTypes, UsedAreMade
<1>2. zlib'[z] = Left(pools) /\ \A y \in Zlibs \ {z} : zlib'[y] = zlib[y]
  BY <1>0, <1>1 DEF LetsGo, PumpTypes
<1>3. /\ zlib'[z].listeners = {} /\ zlib'[z].input = <<>>
      /\ zlib'[z].flush = None /\ zlib'[z].destroyed = ~pools
  BY <1>2 DEF Left
<1>4. released'[d] /\ \A e \in Docs \ {d} : released'[e] = released[e]
  BY <1>0 DEF LetsGo, PumpTypes
<1>5. using' = using /\ made' = made
  BY DEF LetsGo
<1>6. \A e \in Docs : using[e] = z /\ ~released[e] => e = d
  BY DEF UsersAreAlone
<1> HIDE DEF z
<1>7. UsedAreMade'
  BY <1>5 DEF UsedAreMade, Uses
<1>8. UnmadeAreNew'
  BY <1>1, <1>2, <1>5 DEF UnmadeAreNew
<1>9. \A i \in DOMAIN pool : pool[i] # z
  BY DEF PoolIsIdle, z
<1>10. pools => /\ Len(pool') = Len(pool) + 1 /\ pool'[Len(pool) + 1] = z
                /\ \A i \in 1 .. Len(pool) : pool'[i] = pool[i]
                /\ DOMAIN pool' = 1 .. Len(pool) + 1
  BY <1>0, <1>1 DEF LetsGo, z, PumpTypes
<1>11. Len(pool) \in Nat /\ DOMAIN pool = 1 .. Len(pool)
  BY <1>0 DEF PumpTypes
<1>12. ~pools => pool' = pool
  BY DEF LetsGo
<1>13. PoolIsDistinct'
  <2>1. CASE pools
    BY <2>1, <1>9, <1>10, <1>11 DEF PoolIsDistinct
  <2>2. CASE ~pools
    BY <2>2, <1>12 DEF PoolIsDistinct
  <2>. QED BY <2>1, <2>2
<1>14. UsersListen'
  <2> SUFFICES ASSUME NEW y \in Zlibs, NEW e \in Docs
               PROVE  e \in zlib'[y].listeners <=> using[e] = y /\ ~released'[e]
    BY <1>5 DEF UsersListen
  <2>1. CASE y = z
    BY <2>1, <1>3, <1>4, <1>6
  <2>2. CASE y # z
    BY <2>2, <1>2, <1>4 DEF UsersListen, z
  <2>. QED BY <2>1, <2>2
<1>15. UsersAreAlone'
  BY <1>4, <1>5 DEF UsersAreAlone, Uses
<1>16. FlushIsLast'
  <2> SUFFICES ASSUME NEW y \in Zlibs, zlib'[y].flush # None, ~zlib'[y].destroyed
               PROVE  /\ using'[zlib'[y].flush] = y /\ ~released'[zlib'[y].flush]
                      /\ pump'[zlib'[y].flush] = "flushing" /\ read'[zlib'[y].flush] = Length
    BY DEF FlushIsLast
  <2>1. y # z /\ zlib'[y] = zlib[y]
    BY <1>2, <1>3
  <2>2. zlib[y].flush \in Docs
    BY <1>0, <2>1 DEF PumpTypes, ZlibStates
  <2>3. using[zlib[y].flush] = y /\ zlib[y].flush # d
    BY <2>1 DEF FlushIsLast, z
  <2>. QED BY <2>1, <2>2, <2>3, <1>4, <1>5 DEF FlushIsLast
<1>17. PoolIsIdle'
  <2> SUFFICES ASSUME NEW i \in DOMAIN pool'
               PROVE  /\ zlib'[pool'[i]] = NoZlib
                      /\ \A e \in Docs : using[e] = pool'[i] => released'[e] /\ pump'[e] \notin Pumping
    BY <1>5 DEF PoolIsIdle, Pumps
  <2>1. CASE i \in DOMAIN pool /\ pool'[i] = pool[i]
    <3>1. pool[i] \in Zlibs
      BY <1>0, <2>1, ElementOfSeq DEF PumpTypes
    <3>2. zlib'[pool[i]] = NoZlib
      BY <3>1, <2>1, <1>2, <1>9 DEF PoolIsIdle
    <3>3. ASSUME NEW e \in Docs, using[e] = pool[i] PROVE released'[e] /\ pump'[e] \notin Pumping
      <4>1. e # d
        BY <3>3, <2>1, <1>9 DEF z
      <4>. QED BY <4>1, <3>3, <2>1, <1>4 DEF PoolIsIdle, Pumps
    <3>. QED BY <2>1, <3>2, <3>3
  <2>2. CASE pools /\ i = Len(pool) + 1
    <3>1. pool'[i] = z
      BY <2>2, <1>10
    <3>2. Left(pools) = NoZlib
      BY <2>2 DEF Left, NoZlib
    <3>3. ASSUME NEW e \in Docs, using[e] = z PROVE released'[e] /\ pump'[e] \notin Pumping
      <4>1. CASE e = d
        BY <4>1, <2>2, <1>4
      <4>2. CASE e # d
        <5>1. released[e] /\ released'[e]
          BY <4>2, <3>3, <1>4, <1>6
        <5>2. ~Destroyed(e) /\ ~Running(e)
          BY <2>2, <3>3, <5>1 DEF Destroyed, Running, z
        <5>3. pump[e] \notin Pumping
          BY <5>2 DEF DocOK, LeftPumpsEnd
        <5>. QED BY <5>1, <5>3, <4>2
      <4>. QED BY <4>1, <4>2
    <3>. QED BY <3>1, <3>2, <3>3, <1>2
  <2>. QED BY <2>1, <2>2, <1>10, <1>11, <1>12
<1>. QED BY <1>7, <1>8, <1>13, <1>14, <1>15, <1>16, <1>17

LEMMA LeavingLeavesAlone ==
  ASSUME PumpInv, NEW d \in Docs, Uses(d), ~released[d],
         NEW pools \in BOOLEAN, LetsGo(d, pools), pools => ~Destroyed(d),
         NEW e \in Docs, e # d,
         pump'[e] = pump[e], cancelled'[e] = cancelled[e], read'[e] = read[e],
         source'[e] = source[e], queue'[e] = queue[e], taken'[e] = taken[e],
         answer'[e] = answer[e]
  PROVE  LeftAlone(e)
<1>0. PumpTypes
  BY PumpTypesAre DEF PumpInv
<1>1. using[d] \in Zlibs /\ (Uses(e) => using[e] \in Zlibs)
  BY <1>0 DEF Uses, PumpTypes
<1>2. using'[e] = using[e] /\ broken'[e] = broken[e] /\ released'[e] = released[e]
  BY <1>0 DEF LetsGo, PumpTypes
<1>3. CASE Uses(e) /\ using[e] = using[d]
  <2>1. released[e]
    BY <1>3 DEF PumpInv, OneUserEach, UsersAreAlone
  <2>2. zlib'[using[e]].destroyed = ~pools
    BY <1>0, <1>1, <1>3 DEF LetsGo, PumpTypes, Left
  <2>3. Destroyed(e) => ~pools
    BY <1>3 DEF Destroyed
  <2>. QED BY <1>2, <2>1, <2>2, <2>3 DEF LeftAlone
<1>4. CASE ~(Uses(e) /\ using[e] = using[d])
  <2>1. Uses(e) => zlib'[using[e]] = zlib[using[e]]
    BY <1>0, <1>1, <1>4 DEF LetsGo, PumpTypes
  <2>. QED BY <1>2, <2>1 DEF LeftAlone, Destroyed
<1>. QED BY <1>3, <1>4

\* a document whose stream is gone
LEMMA LeftIsOK ==
  ASSUME NEW d \in Docs, Uses(d), using' = using, released'[d] \/ zlib'[using[d]].destroyed,
         \/ pump'[d] \notin Pumping
         \/ zlib'[using[d]].destroyed /\ answer'[d] \in {"errored", "cancelled"},
         ChunksInPlace(d)', RenderIsStopped(d)'
  PROVE  DocOK(d)'
<1>1. Uses(d)' /\ ~Running(d)'
  BY DEF Uses, Running, Destroyed
<1>2. LeftPumpsEnd(d)'
  BY <1>1 DEF LeftPumpsEnd, Destroyed
<1>. QED BY <1>1, <1>2 DEF DocOK, UnaskedIsFresh, RunningIsOpen, InputFollows, RoomIsKept

LEMMA AbandonedIsOK ==
  ASSUME PumpInv, NEW d \in Docs, pump[d] \in Pumping, Abandons(d),
         UNCHANGED <<using, cancelled, queue, taken, answer>>,
         read' \in [Docs -> 0 .. Length], \A e \in Docs \ {d} : read'[e] = read[e],
         source' \in [Docs -> {"open", "returned", "failed"}],
         \A e \in Docs \ {d} : source'[e] = source[e],
         RenderIsStopped(d)'
  PROVE  PumpInv'
<1>0. PumpTypes
  BY PumpTypesAre DEF PumpInv
<1>1. DocOK(d) /\ ChunksInPlace(d)' /\ Uses(d)
  <2>1. DocOK(d)
    BY DEF PumpInv
  <2>2. Uses(d)
    BY <2>1 DEF DocOK, LeftPumpsEnd, Running
  <2>. QED BY <2>1, <2>2 DEF DocOK, ChunksInPlace, Handed, Chunk
<1>2. pump' \in [Docs -> Pumping \cup {"none", "flushing", "over"}] /\ pump'[d] = "over"
      /\ \A e \in Docs \ {d} : pump'[e] = pump[e]
  BY <1>0 DEF Abandons, PumpTypes
<1>3. "over" \notin Pumping
  BY DEF Pumping
<1>4. CASE released[d]
  <2>1. UNCHANGED <<streams, broken, released>>
    BY <1>4 DEF Abandons, Cleanup
  <2>2. PumpTypes'
    BY <1>0, <1>2, <2>1 DEF PumpTypes, streams
  <2>3. StreamsKept
    BY <1>2, <1>3, <1>4, <2>1 DEF StreamsKept, streams, Running, PumpInv, OneUserEach, UsedAreMade
  <2>4. OneUserEach'
    BY <2>3, KeptStreamsAreOneUserEach
  <2>5. DocOK(d)'
    BY <1>1, <1>2, <1>3, <1>4, <2>1, LeftIsOK
  <2>6. ASSUME NEW e \in Docs, e # d PROVE DocOK(e)'
    <3>1. LeftAlone(e)
      BY <1>2, <2>1, <2>6 DEF LeftAlone, streams, Destroyed
    <3>. QED BY <3>1, LeftAloneIsOK DEF PumpInv
  <2>. QED BY <2>2, <2>4, <2>5, <2>6 DEF PumpInv, PumpTypes, PumpTypeOK, StreamsAreTyped, ZlibStates
<1>5. CASE ~released[d]
  <2>1. PICK pools \in BOOLEAN : LetsGo(d, pools) /\ (pools => FALSE)
    BY <1>1, <1>5, CleanupLeaves DEF Abandons
  <2>2. PumpTypes'
    BY <1>0, <1>1, <1>2, <2>1, LeavingIsTyped DEF PumpTypes
  <2>4. OneUserEach'
    BY <1>1, <1>2, <1>5, <2>1, LeavingIsOneUserEach
  <2>5. released'[d]
    BY <1>0, <2>1 DEF LetsGo, PumpTypes
  <2>6. DocOK(d)'
    BY <1>1, <1>2, <1>3, <2>5, LeftIsOK
  <2>7. ASSUME NEW e \in Docs, e # d PROVE DocOK(e)'
    <3>1. LeftAlone(e)
      BY <1>1, <1>2, <1>5, <2>1, <2>7, LeavingLeavesAlone
    <3>. QED BY <3>1, LeftAloneIsOK DEF PumpInv
  <2>. QED BY <2>2, <2>4, <2>6, <2>7 DEF PumpInv, PumpTypes, PumpTypeOK, StreamsAreTyped, ZlibStates
<1>. QED BY <1>4, <1>5

LEMMA MovedIsOK ==
  ASSUME PumpInv, NEW d \in Docs, pump[d] \in Pumping, NEW to \in Pumping, Moves(d, to),
         UNCHANGED <<using, cancelled, read, source, queue, taken, answer>>,
         RoomIsKept(d)'
  PROVE  PumpInv'
<1>0. PumpTypes
  BY PumpTypesAre DEF PumpInv
<1>1. DocOK(d)
  BY DEF PumpInv
<1>2. UNCHANGED <<pool, made, zlib, broken, released>>
  BY DEF Moves, streams
<1>3. pump' \in [Docs -> Pumping \cup {"none", "flushing", "over"}] /\ pump'[d] = to
      /\ \A e \in Docs \ {d} : pump'[e] = pump[e]
  BY <1>0 DEF Moves, PumpTypes
<1>4. PumpTypes'
  BY <1>0, <1>2, <1>3 DEF PumpTypes
<1>5. to # "none" /\ pump[d] # "flushing"
  BY DEF Pumping
<1>6. OneUserEach'
  <2>1. StreamsKept
    BY <1>2, <1>3, <1>5 DEF StreamsKept, PumpInv, OneUserEach, UsedAreMade
  <2>. QED BY <2>1, KeptStreamsAreOneUserEach
<1>7. DocOK(d)'
  <2>1. (Uses(d)' <=> Uses(d)) /\ (Running(d)' <=> Running(d)) /\ (Destroyed(d)' <=> Destroyed(d))
    BY <1>2 DEF Uses, Running, Destroyed
  <2>2. Handed(d)' = Handed(d) /\ Input(d)' = Input(d)
    BY <1>2 DEF Handed, Input
  <2>3. UnaskedIsFresh(d)' /\ LeftPumpsEnd(d)'
    BY <1>1, <1>2, <1>3, <2>1 DEF DocOK, UnaskedIsFresh, LeftPumpsEnd, Pumping, Running
  <2>4. RunningIsOpen(d)' /\ InputFollows(d)' /\ ChunksInPlace(d)' /\ RenderIsStopped(d)'
    BY <1>1, <1>2, <1>3, <2>1, <2>2
    DEF DocOK, RunningIsOpen, InputFollows, ChunksInPlace, RenderIsStopped, Pumping, Chunk
  <2>. QED BY <2>3, <2>4 DEF DocOK
<1>8. ASSUME NEW e \in Docs, e # d PROVE DocOK(e)'
  <2>1. LeftAlone(e)
    BY <1>2, <1>3, <1>8 DEF LeftAlone, Destroyed
  <2>. QED BY <2>1, LeftAloneIsOK DEF PumpInv
<1>. QED BY <1>4, <1>6, <1>7, <1>8 DEF PumpInv, PumpTypes, PumpTypeOK, StreamsAreTyped, ZlibStates

-----------------------------------------------------------------------------
(* The pump's steps.                                                       *)

\* a pump under way and not let go has its stream to itself
LEMMA UnderWay ==
  ASSUME PumpInv, NEW d \in Docs, pump[d] \in Pumping
  PROVE  /\ DocOK(d) /\ Uses(d)
         /\ ~Destroyed(d) => Running(d)
         /\ cancelled[d] => Destroyed(d)
<1>1. DocOK(d)
  BY DEF PumpInv
<1>2. Uses(d)
  BY <1>1 DEF DocOK, LeftPumpsEnd, Running
<1>3. ~Destroyed(d) => Running(d)
  BY <1>1 DEF DocOK, LeftPumpsEnd
<1>. QED BY <1>1, <1>2, <1>3 DEF DocOK, RunningIsOpen

\* the numbers of a document are numbers
LEMMA HandedCounts ==
  ASSUME PumpInv, NEW d \in Docs
  PROVE  \E q \in Nat, t \in Nat : Len(queue[d]) = q /\ Len(taken[d]) = t /\ Handed(d) = t + q
<1>1. queue[d] \in Seq(ChunksOf) /\ taken[d] \in Seq(ChunksOf)
  BY PumpTypesAre DEF PumpInv, PumpTypes
<1>2. PICK q \in Nat : q = Len(queue[d])
  BY <1>1, LenProperties
<1>3. PICK t \in Nat : t = Len(taken[d])
  BY <1>1, LenProperties
<1>4. Handed(d) = t + q
  BY <1>2, <1>3 DEF Handed
<1>. QED BY <1>2, <1>3, <1>4

LEMMA RunningCounts ==
  ASSUME PumpInv, NEW d \in Docs, Running(d)
  PROVE  /\ using[d] \in Zlibs /\ Input(d) \in Seq([doc : Docs, n : 1 .. Length])
         /\ Len(Input(d)) \in Nat /\ Len(queue[d]) \in Nat /\ Len(taken[d]) \in Nat
         /\ read[d] \in 0 .. Length
<1>0. PumpTypes
  BY PumpTypesAre DEF PumpInv
<1>1. using[d] \in Zlibs
  BY <1>0 DEF Running, Uses, PumpTypes
<1>2. Input(d) \in Seq([doc : Docs, n : 1 .. Length])
  <2>1. zlib[using[d]] \in ZlibStates
    BY <1>0, <1>1 DEF PumpTypes
  <2>. QED BY <2>1 DEF ZlibStates, Input
<1>3. queue[d] \in Seq(ChunksOf) /\ taken[d] \in Seq(ChunksOf) /\ read[d] \in 0 .. Length
  BY <1>0 DEF PumpTypes
<1>4. Len(Input(d)) \in Nat /\ Len(queue[d]) \in Nat /\ Len(taken[d]) \in Nat
  BY <1>2, <1>3, LenProperties
<1>. QED BY <1>1, <1>2, <1>3, <1>4

LEMMA ParksIsOK == ASSUME PumpInv, NEW d \in Docs, Parks(d) PROVE PumpInv'
<1>1. pump[d] \in Pumping /\ "parked" \in Pumping
  BY DEF Parks, Pumping
<1>2. RoomIsKept(d)'
  <2>1. DocOK(d) /\ PumpTypes
    BY PumpTypesAre DEF PumpInv
  <2>2. pump'[d] = "parked" /\ UNCHANGED <<zlib, using, released, queue>>
    BY <2>1 DEF Parks, Moves, streams, PumpTypes
  <2>. QED BY <2>1, <2>2 DEF Parks, DocOK, RoomIsKept, Running, Uses, Destroyed, Input
<1>. QED BY <1>1, <1>2, MovedIsOK DEF Parks

LEMMA GoesOnIsOK == ASSUME PumpInv, NEW d \in Docs, GoesOn(d) PROVE PumpInv'
<1>0. PumpTypes
  BY PumpTypesAre DEF PumpInv
<1>1. pump[d] \in Pumping /\ "reading" \in Pumping
  BY DEF GoesOn, Pumping
<1>2. DocOK(d)
  BY <1>1, UnderWay
<1>3. CASE cancelled[d] \/ Destroyed(d)
  <2>1. RenderIsStopped(d)'
    BY <1>2 DEF GoesOn, DocOK, RenderIsStopped
  <2>. QED BY <1>0, <1>1, <1>3, <2>1, AbandonedIsOK DEF GoesOn, PumpTypes
<1>4. CASE ~(cancelled[d] \/ Destroyed(d))
  <2>1. pump'[d] = "reading" /\ UNCHANGED <<zlib, using, released, queue>>
    BY <1>0, <1>4 DEF GoesOn, Moves, streams, PumpTypes
  <2>2. pump[d] = "woken" \/ (pump[d] = "top" /\ queue[d] = <<>>)
    BY <1>4 DEF GoesOn, Full
  <2>3. queue[d] = <<>> => Len(queue[d]) = 0
    OBVIOUS
  <2>4. Running(d) => Len(Input(d)) \in Nat /\ Len(queue[d]) \in Nat
    BY RunningCounts
  <2>5. RoomIsKept(d)'
    <3>1. Input(d)' = Input(d) /\ (Running(d)' <=> Running(d))
      BY <2>1 DEF Running, Uses, Destroyed, Input
    <3>2. Running(d) => Len(queue[d]) + Len(Input(d)) < Buffer
      BY <1>2, <2>2, <2>3, <2>4, PumpAssumption DEF DocOK, RoomIsKept
    <3>. QED BY <2>1, <2>4, <3>1, <3>2, PumpAssumption DEF RoomIsKept
  <2>. QED BY <1>1, <1>4, <2>5, MovedIsOK DEF GoesOn
<1>. QED BY <1>3, <1>4

LEMMA StopsWaitingIsOK == ASSUME PumpInv, NEW d \in Docs, StopsWaiting(d) PROVE PumpInv'
<1>0. PumpTypes
  BY PumpTypesAre DEF PumpInv
<1>1. pump[d] \in Pumping
  BY DEF StopsWaiting, Pumping
<1>2. DocOK(d) /\ (~Destroyed(d) => Running(d))
  BY <1>1, UnderWay
<1>3. Destroyed(d)
  BY <1>2 DEF StopsWaiting, LetGo, DocOK, RunningIsOpen
<1>4. RenderIsStopped(d)'
  BY <1>2 DEF StopsWaiting, DocOK, RenderIsStopped
<1>. QED BY <1>0, <1>1, <1>3, <1>4, AbandonedIsOK DEF StopsWaiting, PumpTypes

LEMMA ReadFailsIsOK == ASSUME PumpInv, NEW d \in Docs, ReadFails(d) PROVE PumpInv'
<1>0. PumpTypes
  BY PumpTypesAre DEF PumpInv
<1>1. pump[d] \in Pumping
  BY DEF ReadFails, Pumping
<1>2. RenderIsStopped(d)'
  BY <1>1, UnderWay DEF ReadFails, DocOK, RenderIsStopped
<1>3. source' \in [Docs -> {"open", "returned", "failed"}] /\ \A e \in Docs \ {d} : source'[e] = source[e]
  BY <1>0 DEF ReadFails, PumpTypes
<1>. QED BY <1>0, <1>1, <1>2, <1>3, AbandonedIsOK DEF ReadFails, PumpTypes

LEMMA ReadsIsOK == ASSUME PumpInv, NEW d \in Docs, Reads(d) PROVE PumpInv'
<1>0. PumpTypes
  BY PumpTypesAre DEF PumpInv
<1>1. pump[d] = "reading" /\ pump[d] \in Pumping
  BY DEF Reads, Pumping
<1>2. DocOK(d) /\ Uses(d) /\ (~Destroyed(d) => Running(d))
  BY <1>1, UnderWay
<1>3. /\ read' \in [Docs -> 0 .. Length] /\ read'[d] = read[d] + 1
      /\ \A e \in Docs \ {d} : read'[e] = read[e]
  BY <1>0, PumpAssumption DEF Reads, PumpTypes
<1>4. CASE Destroyed(d)
  <2>1. ~Running(d) /\ answer[d] \in {"errored", "cancelled"}
    BY <1>1, <1>2, <1>4 DEF Running, DocOK, LeftPumpsEnd
  <2>2. RenderIsStopped(d)'
    BY <2>1 DEF Reads, RenderIsStopped
  <2>. QED BY <1>0, <1>1, <1>3, <1>4, <2>2, AbandonedIsOK DEF Reads, PumpTypes
<1>5. CASE ~Destroyed(d)
  <2> DEFINE z == using[d]
             chunk == Chunk(d, read'[d])
  <2>1. Running(d) /\ z \in Zlibs
    BY <1>2, <1>5, RunningCounts
  <2>2. Input(d) \in Seq([doc : Docs, n : 1 .. Length]) /\ chunk \in [doc : Docs, n : 1 .. Length]
    <3>1. read[d] + 1 \in 1 .. Length
      BY <1>0, PumpAssumption DEF Reads, PumpTypes
    <3>. QED BY <1>3, <2>1, <3>1, RunningCounts DEF Chunk
  <2>3. UNCHANGED <<pool, made, broken, released, using, cancelled, source, queue, taken, answer>>
    BY <1>5 DEF Reads
  <2>4. /\ zlib' \in [Zlibs -> ZlibStates]
        /\ zlib'[z] = [zlib[z] EXCEPT !.input = Append(Input(d), chunk)]
        /\ \A y \in Zlibs \ {z} : zlib'[y] = zlib[y]
    <3>1. zlib' = [zlib EXCEPT ![z].input = Append(Input(d), chunk)]
      BY <1>5 DEF Reads, Input
    <3>2. Append(Input(d), chunk) \in Seq([doc : Docs, n : 1 .. Length])
      BY <2>2
    <3> HIDE DEF chunk
    <3>3. [zlib[z] EXCEPT !.input = Append(Input(d), chunk)] \in ZlibStates
      <4>1. zlib[z] \in ZlibStates
        BY <1>0, <2>1 DEF PumpTypes
      <4>. QED BY <3>2, <4>1 DEF ZlibStates
    <3> HIDE DEF z
    <3>4. zlib' = [zlib EXCEPT ![z] = [zlib[z] EXCEPT !.input = Append(Input(d), chunk)]]
      BY <3>1 DEF z
    <3>. QED BY <1>0, <2>1, <3>3, <3>4 DEF PumpTypes
  <2>5. /\ zlib'[z].input = Append(Input(d), chunk)
        /\ zlib'[z].listeners = zlib[z].listeners /\ zlib'[z].flush = zlib[z].flush
        /\ zlib'[z].destroyed = zlib[z].destroyed
    BY <1>0, <2>1, <2>4 DEF PumpTypes, ZlibStates
  <2>6. /\ pump' \in [Docs -> Pumping \cup {"none", "flushing", "over"}]
        /\ pump'[d] = IF Len(Input(d)) + 1 < Buffer THEN "top" ELSE "draining"
        /\ \A e \in Docs \ {d} : pump'[e] = pump[e]
    BY <1>0, <1>5 DEF Reads, PumpTypes, Input, Pumping
  <2>7. pump'[d] \in Pumping /\ pump'[d] \in {"top", "draining"}
    BY <2>6 DEF Pumping
  <2> HIDE DEF z, chunk
  <2>8. PumpTypes'
    BY <1>0, <1>3, <2>3, <2>4, <2>6 DEF PumpTypes
  <2>9. OneUserEach'
    <3>1. \A y \in Zlibs : /\ zlib'[y].listeners = zlib[y].listeners
                           /\ zlib'[y].flush = zlib[y].flush
                           /\ zlib'[y].destroyed = zlib[y].destroyed
      BY <2>4, <2>5
    <3>2. \A y \in Zlibs : zlib'[y] # zlib[y] => using[d] = y /\ ~released[d]
      BY <2>1, <2>4 DEF z, Running
    <3>3. \A e \in Docs : Uses(e) => pump'[e] # "none"
      BY <2>6, <2>7 DEF PumpInv, OneUserEach, UsedAreMade
    <3>4. \A e \in Docs : pump[e] = "flushing" => pump'[e] = "flushing" /\ read'[e] = read[e]
      BY <1>1, <1>3, <2>6
    <3>5. \A e \in Docs : pump[e] \notin Pumping => pump'[e] \notin Pumping
      BY <1>1, <2>6
    <3>6. StreamsKept
      BY <2>3, <3>1, <3>2, <3>3, <3>4, <3>5 DEF StreamsKept
    <3>. QED BY <3>6, KeptStreamsAreOneUserEach
  <2>10. DocOK(d)'
    <3>1. Uses(d)' /\ Running(d)' /\ Handed(d)' = Handed(d)
      BY <2>1, <2>3, <2>5 DEF Uses, Running, Destroyed, Handed, z
    <3>2. Input(d)' = Append(Input(d), chunk) /\ Len(Input(d)') = Len(Input(d)) + 1
      BY <2>2, <2>3, <2>5 DEF Input, z
    <3>3. \A i \in 1 .. Len(Input(d)) : Input(d)'[i] = Input(d)[i]
      BY <2>2, <3>2
    <3>4. Input(d)'[Len(Input(d)) + 1] = chunk
      BY <2>2, <3>2
    <3>5. PICK q \in Nat, t \in Nat : Len(queue[d]) = q /\ Len(taken[d]) = t /\ Handed(d) = t + q
      BY HandedCounts
    <3> PICK n \in Nat : Len(Input(d)) = n
      BY <2>1, RunningCounts
    <3>a. read[d] = t + q + n
      BY <1>2, <2>1, <3>5 DEF DocOK, InputFollows
    <3>6. InputFollows(d)'
      <4>1. read'[d] = Handed(d)' + Len(Input(d)')
        BY <1>3, <3>1, <3>2, <3>5, <3>a
      <4>2. ASSUME NEW i \in 1 .. Len(Input(d)') PROVE Input(d)'[i] = Chunk(d, Handed(d) + i)
        <5>1. CASE i = Len(Input(d)) + 1
          BY <5>1, <1>3, <3>4, <3>5, <3>a DEF chunk, Chunk
        <5>2. CASE i # Len(Input(d)) + 1
          <6>1. i \in 1 .. Len(Input(d))
            BY <5>2, <3>2, <3>5
          <6>. QED BY <1>2, <2>1, <3>3, <6>1 DEF DocOK, InputFollows
        <5>. QED BY <5>1, <5>2
      <4>. QED BY <3>1, <4>1, <4>2 DEF InputFollows, Chunk
    <3>7. RoomIsKept(d)'
      <4>1. Len(queue[d]) + Len(Input(d)) < Buffer
        BY <1>1, <1>2, <2>1 DEF DocOK, RoomIsKept
      <4>. QED BY <4>1, <2>3, <2>6, <3>2, <3>5, <3>a, PumpAssumption DEF RoomIsKept
    <3>8. RenderIsStopped(d)'
      <4>1. Len(queue[d]) + Len(Input(d)) < Buffer
        BY <1>1, <1>2, <2>1 DEF DocOK, RoomIsKept
      <4>. QED BY <4>1, <1>3, <2>3, <3>5, <3>a, PumpAssumption DEF RenderIsStopped
    <3>9. RunningIsOpen(d)' /\ UnaskedIsFresh(d)' /\ LeftPumpsEnd(d)'
      BY <1>2, <2>1, <2>3, <2>7, <3>1 DEF DocOK, RunningIsOpen, UnaskedIsFresh, LeftPumpsEnd
    <3>10. ChunksInPlace(d)'
      BY <1>2, <2>3, <3>1 DEF DocOK, ChunksInPlace, Chunk
    <3>. QED BY <3>6, <3>7, <3>8, <3>9, <3>10 DEF DocOK
  <2>11. ASSUME NEW e \in Docs, e # d PROVE DocOK(e)'
    <3>1. Uses(e) => using[e] \in Zlibs
      BY <1>0 DEF Uses, PumpTypes
    <3>2. Uses(e) /\ ~released[e] => using[e] # z
      BY <2>1, <2>11 DEF PumpInv, OneUserEach, UsersAreAlone, z, Running
    <3>3. LeftAlone(e)
      BY <1>3, <2>3, <2>4, <2>5, <2>6, <2>11, <3>1, <3>2 DEF LeftAlone, Destroyed
    <3>. QED BY <3>3, LeftAloneIsOK DEF PumpInv
  <2>. QED BY <2>8, <2>9, <2>10, <2>11 DEF PumpInv, PumpTypes, PumpTypeOK, StreamsAreTyped, ZlibStates
<1>. QED BY <1>4, <1>5

LEMMA ReadsEndIsOK == ASSUME PumpInv, NEW d \in Docs, ReadsEnd(d) PROVE PumpInv'
<1>0. PumpTypes
  BY PumpTypesAre DEF PumpInv
<1>1. pump[d] = "reading" /\ pump[d] \in Pumping
  BY DEF ReadsEnd, Pumping
<1>2. DocOK(d) /\ Uses(d) /\ (~Destroyed(d) => Running(d))
  BY <1>1, UnderWay
<1>3. CASE cancelled[d] \/ Destroyed(d)
  <2>1. RenderIsStopped(d)'
    BY <1>2 DEF ReadsEnd, DocOK, RenderIsStopped
  <2>. QED BY <1>0, <1>1, <1>3, <2>1, AbandonedIsOK DEF ReadsEnd, PumpTypes
<1>4. CASE ~(cancelled[d] \/ Destroyed(d))
  <2> DEFINE z == using[d]
  <2>1. Running(d) /\ z \in Zlibs
    BY <1>2, <1>4, RunningCounts
  <2>2. read[d] = Length
    BY <1>2, <2>1 DEF ReadsEnd, DocOK, RunningIsOpen
  <2>3. UNCHANGED <<pool, made, broken, released, using, cancelled, read, source, queue, taken, answer>>
    BY <1>4 DEF ReadsEnd
  <2>4. /\ pump' \in [Docs -> Pumping \cup {"none", "flushing", "over"}] /\ pump'[d] = "flushing"
        /\ \A e \in Docs \ {d} : pump'[e] = pump[e]
    BY <1>0, <1>4 DEF ReadsEnd, PumpTypes
  <2>5. /\ zlib' \in [Zlibs -> ZlibStates]
        /\ zlib'[z] = [zlib[z] EXCEPT !.flush = d]
        /\ \A y \in Zlibs \ {z} : zlib'[y] = zlib[y]
    <3>1. zlib' = [zlib EXCEPT ![z].flush = d]
      BY <1>4 DEF ReadsEnd
    <3>2. [zlib[z] EXCEPT !.flush = d] \in ZlibStates
      <4>1. zlib[z] \in ZlibStates
        BY <1>0, <2>1 DEF PumpTypes
      <4>. QED BY <4>1 DEF ZlibStates
    <3> HIDE DEF z
    <3>3. zlib' = [zlib EXCEPT ![z] = [zlib[z] EXCEPT !.flush = d]]
      BY <3>1
    <3>. QED BY <1>0, <2>1, <3>2, <3>3 DEF PumpTypes
  <2>6. /\ zlib'[z].input = zlib[z].input /\ zlib'[z].listeners = zlib[z].listeners
        /\ zlib'[z].flush = d /\ zlib'[z].destroyed = zlib[z].destroyed
    BY <1>0, <2>1, <2>5 DEF PumpTypes, ZlibStates
  <2> HIDE DEF z
  <2>7. PumpTypes'
    BY <1>0, <2>3, <2>4, <2>5 DEF PumpTypes
  <2>8. OneUserEach'
    <3>1. \A y \in Zlibs : /\ zlib'[y].listeners = zlib[y].listeners
                           /\ zlib'[y].destroyed = zlib[y].destroyed
                           /\ y # z => zlib'[y] = zlib[y]
      BY <2>5, <2>6
    <3>2. using[d] = z /\ ~released[d] /\ pump'[d] = "flushing" /\ read'[d] = Length
      BY <2>1, <2>2, <2>3, <2>4 DEF z, Running
    <3>3. \A e \in Docs : Uses(e) => pump'[e] # "none"
      BY <2>4 DEF PumpInv, OneUserEach, UsedAreMade
    <3>4. \A e \in Docs : pump[e] = "flushing" => pump'[e] = "flushing" /\ read'[e] = read[e]
      BY <2>3, <2>4
    <3>5. \A e \in Docs : pump[e] \notin Pumping => pump'[e] \notin Pumping
      BY <1>1, <2>4
    <3>6. \A y \in Zlibs : \/ zlib'[y].flush = zlib[y].flush
                           \/ \E e \in Docs : /\ zlib'[y].flush = e /\ using[e] = y /\ ~released[e]
                                              /\ pump'[e] = "flushing" /\ read'[e] = Length
      BY <2>6, <3>1, <3>2
    <3>7. StreamsKept
      BY <2>3, <3>1, <3>2, <3>3, <3>4, <3>5, <3>6 DEF StreamsKept
    <3>. QED BY <3>7, KeptStreamsAreOneUserEach
  <2>9. DocOK(d)'
    <3>1. Uses(d)' /\ Running(d)' /\ Handed(d)' = Handed(d) /\ Input(d)' = Input(d)
      BY <2>1, <2>3, <2>6 DEF Uses, Running, Destroyed, Handed, Input, z
    <3>2. UnaskedIsFresh(d)' /\ RunningIsOpen(d)' /\ RoomIsKept(d)' /\ LeftPumpsEnd(d)'
      BY <1>2, <2>1, <2>3, <2>4, <3>1 DEF DocOK, UnaskedIsFresh, RunningIsOpen, RoomIsKept, LeftPumpsEnd, Pumping
    <3>3. InputFollows(d)' /\ ChunksInPlace(d)' /\ RenderIsStopped(d)'
      BY <1>2, <2>1, <2>3, <3>1 DEF DocOK, InputFollows, ChunksInPlace, RenderIsStopped, Chunk
    <3>. QED BY <3>2, <3>3 DEF DocOK
  <2>10. ASSUME NEW e \in Docs, e # d PROVE DocOK(e)'
    <3>1. Uses(e) => using[e] \in Zlibs
      BY <1>0 DEF Uses, PumpTypes
    <3>2. Uses(e) /\ ~released[e] => using[e] # z
      BY <2>1, <2>10 DEF PumpInv, OneUserEach, UsersAreAlone, z, Running
    <3>3. LeftAlone(e)
      BY <2>3, <2>4, <2>5, <2>6, <2>10, <3>1, <3>2 DEF LeftAlone, Destroyed
    <3>. QED BY <3>3, LeftAloneIsOK DEF PumpInv
  <2>. QED BY <2>7, <2>8, <2>9, <2>10 DEF PumpInv, PumpTypes, PumpTypeOK, StreamsAreTyped, ZlibStates
<1>. QED BY <1>3, <1>4

-----------------------------------------------------------------------------
(* zlib's steps.                                                           *)

LEMMA BreaksIsOK == ASSUME PumpInv, NEW z \in Zlibs, Breaks(z) PROVE PumpInv'
<1>0. PumpTypes
  BY PumpTypesAre DEF PumpInv
<1>1. PICK d \in zlib[z].listeners :
        /\ ~zlib[z].destroyed /\ zlib[z].input # <<>> /\ zlib[z].flush = None
        /\ zlib' = [zlib EXCEPT ![z].destroyed = TRUE]
        /\ broken' = [broken EXCEPT ![d] = TRUE]
        /\ answer' = IF cancelled[d] THEN answer ELSE [answer EXCEPT ![d] = "errored"]
        /\ queue' = [queue EXCEPT ![d] = <<>>]
        /\ UNCHANGED <<pool, made, pump, using, cancelled, released, read, source, taken>>
  BY DEF Breaks
<1>2. d \in Docs /\ using[d] = z /\ ~released[d]
  <2>1. d \in Docs
    BY <1>0 DEF PumpTypes, ZlibStates
  <2>. QED BY <2>1 DEF PumpInv, OneUserEach, UsersListen
<1>3. DocOK(d) /\ Uses(d) /\ Running(d)
  BY <1>1, <1>2, PumpAssumption DEF PumpInv, Uses, Running, Destroyed
<1>4. /\ answer' \in [Docs -> {"unasked", "open", "closed", "errored", "cancelled", "cut"}]
      /\ answer'[d] = "errored" /\ \A e \in Docs \ {d} : answer'[e] = answer[e]
  <2>1. ~cancelled[d]
    BY <1>3 DEF DocOK, RunningIsOpen
  <2>. QED BY <1>0, <1>1, <1>2, <2>1 DEF PumpTypes
<1>5. /\ queue' \in [Docs -> Seq(ChunksOf)] /\ queue'[d] = <<>>
      /\ \A e \in Docs \ {d} : queue'[e] = queue[e]
  BY <1>0, <1>1, <1>2 DEF PumpTypes
<1>6. broken' \in [Docs -> BOOLEAN] /\ \A e \in Docs \ {d} : broken'[e] = broken[e]
  BY <1>0, <1>1, <1>2 DEF PumpTypes
<1>7. /\ zlib' \in [Zlibs -> ZlibStates]
      /\ zlib'[z] = [zlib[z] EXCEPT !.destroyed = TRUE]
      /\ \A y \in Zlibs \ {z} : zlib'[y] = zlib[y]
  <2>1. [zlib[z] EXCEPT !.destroyed = TRUE] \in ZlibStates
    <3>1. zlib[z] \in ZlibStates
      BY <1>0 DEF PumpTypes
    <3>. QED BY <3>1 DEF ZlibStates
  <2>2. zlib' = [zlib EXCEPT ![z] = [zlib[z] EXCEPT !.destroyed = TRUE]]
    BY <1>1
  <2>. QED BY <1>0, <2>1, <2>2 DEF PumpTypes
<1>8. /\ zlib'[z].listeners = zlib[z].listeners
      /\ zlib'[z].flush = zlib[z].flush /\ zlib'[z].destroyed
  BY <1>0, <1>7 DEF PumpTypes, ZlibStates
<1>9. PumpTypes'
  BY <1>0, <1>1, <1>4, <1>5, <1>6, <1>7 DEF PumpTypes
<1>10. OneUserEach'
  <2>1. \A y \in Zlibs : /\ zlib'[y].listeners = zlib[y].listeners
                         /\ zlib'[y].flush = zlib[y].flush
                         /\ zlib[y].destroyed => zlib'[y].destroyed
                         /\ zlib'[y] # zlib[y] => using[d] = y /\ ~released[d]
    BY <1>2, <1>7, <1>8
  <2>2. StreamsKept
    BY <1>1, <1>2, <1>4, <2>1 DEF StreamsKept, PumpInv, OneUserEach, UsedAreMade
  <2>. QED BY <2>2, KeptStreamsAreOneUserEach
<1>11. DocOK(d)'
  <2>1. RenderIsStopped(d)'
    BY <1>4 DEF RenderIsStopped
  <2>2. ChunksInPlace(d)'
    <3>1. PICK q \in Nat, t \in Nat : Len(queue[d]) = q /\ Len(taken[d]) = t /\ Handed(d) = t + q
      BY <1>2, HandedCounts
    <3>2. Len(<<>>) = 0
      OBVIOUS
    <3>3. Len(queue'[d]) = 0 /\ taken'[d] = taken[d]
      BY <1>1, <1>5, <3>2
    <3>4. Handed(d)' = t
      BY <3>1, <3>3 DEF Handed
    <3>5. Handed(d)' <= Length + 1
      BY <1>3, <3>1, <3>4, PumpAssumption DEF DocOK, ChunksInPlace
    <3>6. \A i \in 1 .. Len(taken'[d]) : taken'[d][i] = Chunk(d, i)
      BY <1>3, <3>3 DEF DocOK, ChunksInPlace
    <3>7. \A i \in 1 .. Len(queue'[d]) : FALSE
      BY <3>3
    <3>. QED BY <1>4, <3>5, <3>6, <3>7 DEF ChunksInPlace, Chunk
  <2>. QED BY <1>1, <1>2, <1>3, <1>4, <1>8, <2>1, <2>2, LeftIsOK
<1>12. ASSUME NEW e \in Docs, e # d PROVE DocOK(e)'
  <2>1. Uses(e) => using[e] \in Zlibs
    BY <1>0 DEF Uses, PumpTypes
  <2>2. Uses(e) /\ ~released[e] => using[e] # z
    BY <1>2, <1>3, <1>12 DEF PumpInv, OneUserEach, UsersAreAlone
  <2>3. LeftAlone(e)
    BY <1>1, <1>4, <1>5, <1>6, <1>7, <1>8, <1>12, <2>1, <2>2 DEF LeftAlone, Destroyed
  <2>. QED BY <2>3, LeftAloneIsOK DEF PumpInv
<1>. QED BY <1>9, <1>10, <1>11, <1>12 DEF PumpInv, PumpTypes, PumpTypeOK, StreamsAreTyped, ZlibStates

\* zlib has deflated what it was given first
LEMMA DeflatedIsOK ==
  ASSUME PumpInv, NEW z \in Zlibs, Deflates(z), NEW d \in zlib[z].listeners
  PROVE  d \in Docs /\ DocOK(d)'
<1>0. PumpTypes
  BY PumpTypesAre DEF PumpInv
<1>1. d \in Docs /\ using[d] = z /\ ~released[d] /\ Running(d) /\ DocOK(d) /\ ~cancelled[d]
  <2>1. d \in Docs
    BY <1>0 DEF PumpTypes, ZlibStates
  <2>2. using[d] = z /\ ~released[d]
    BY <2>1 DEF PumpInv, OneUserEach, UsersListen
  <2>3. Running(d) /\ DocOK(d)
    BY <2>1, <2>2, PumpAssumption DEF Deflates, PumpInv, Uses, Running, Destroyed
  <2>. QED BY <2>1, <2>2, <2>3 DEF DocOK, RunningIsOpen
<1> DEFINE in == Input(d)
<1>2. in = zlib[z].input /\ in \in Seq([doc : Docs, n : 1 .. Length]) /\ in # <<>>
  BY <1>1, RunningCounts DEF Input, Deflates
<1>3. /\ queue'[d] = Append(queue[d], Head(in)) /\ zlib' = [zlib EXCEPT ![z].input = Tail(in)]
      /\ UNCHANGED <<using, cancelled, broken, released, read, source, taken, answer>>
  BY <1>1, <1>2 DEF Deflates, locals
<1>4. pump'[d] = IF pump[d] = "draining" /\ Tail(in) = <<>> THEN "top" ELSE pump[d]
  BY <1>1, <1>2 DEF Deflates
<1>5. /\ zlib'[z].input = Tail(in) /\ zlib'[z].destroyed = zlib[z].destroyed
  BY <1>0, <1>3 DEF PumpTypes, ZlibStates
<1>6. Uses(d)' /\ Running(d)' /\ Input(d)' = Tail(in)
  BY <1>1, <1>3, <1>5 DEF Uses, Running, Destroyed, Input
<1>7. PICK q \in Nat, t \in Nat : Len(queue[d]) = q /\ Len(taken[d]) = t /\ Handed(d) = t + q
  BY <1>1, HandedCounts
<1>8. PICK n \in Nat : Len(in) = n
  BY <1>1, RunningCounts
<1>9. n > 0 /\ Len(Tail(in)) = n - 1 /\ Head(in) = in[1]
      /\ \A i \in 1 .. n - 1 : Tail(in)[i] = in[i + 1]
  BY <1>2, <1>8
<1>10. queue[d] \in Seq(ChunksOf) /\ taken[d] \in Seq(ChunksOf) /\ read[d] \in 0 .. Length
  BY <1>0, <1>1 DEF PumpTypes
<1>11. Len(queue'[d]) = q + 1 /\ queue'[d][q + 1] = Head(in)
       /\ \A i \in 1 .. q : queue'[d][i] = queue[d][i]
  <2>1. Head(in) \in ChunksOf
    <3>1. Head(in) \in [doc : Docs, n : 1 .. Length]
      BY <1>2, HeadTailProperties
    <3>. QED BY <3>1, PumpAssumption DEF ChunksOf
  <2> HIDE DEF in
  <2>. QED BY <1>3, <1>7, <1>10, <2>1
<1>12. taken'[d] = taken[d] /\ Len(taken'[d]) = t
  BY <1>3, <1>7
<1>13. Handed(d)' = t + (q + 1)
  BY <1>11, <1>12 DEF Handed
<1>14. read[d] = t + q + n /\ \A i \in 1 .. n : in[i] = Chunk(d, t + q + i)
  BY <1>1, <1>7, <1>8 DEF DocOK, InputFollows
<1> HIDE DEF in
<1>15. InputFollows(d)'
  <2>1. read'[d] = Handed(d)' + Len(Input(d)')
    BY <1>3, <1>6, <1>9, <1>13, <1>14
  <2>2. \A i \in 1 .. Len(Input(d)') : Input(d)'[i] = Chunk(d, Handed(d)' + i)
    <3> SUFFICES ASSUME NEW i \in 1 .. n - 1 PROVE Tail(in)[i] = Chunk(d, t + (q + 1) + i)
      BY <1>6, <1>9, <1>13
    <3>1. i + 1 \in 1 .. n
      OBVIOUS
    <3>2. t + q + (i + 1) = t + (q + 1) + i
      OBVIOUS
    <3>. QED BY <1>9, <1>14, <3>1, <3>2
  <2>. QED BY <2>1, <2>2 DEF InputFollows, Chunk
<1>16. ChunksInPlace(d)'
  <2>1. in[1] = Chunk(d, t + (q + 1))
    <3>1. t + q + 1 = t + (q + 1)
      OBVIOUS
    <3>. QED BY <1>9, <1>14, <3>1
  <2>2. \A i \in 1 .. q + 1 : queue'[d][i] = Chunk(d, t + i)
    <3> SUFFICES ASSUME NEW i \in 1 .. q + 1 PROVE queue'[d][i] = Chunk(d, t + i)
      OBVIOUS
    <3>1. CASE i = q + 1
      BY <3>1, <1>9, <1>11, <2>1
    <3>2. CASE i # q + 1
      <4>1. i \in 1 .. q
        BY <3>2
      <4>. QED BY <4>1, <1>1, <1>7, <1>11 DEF DocOK, ChunksInPlace
    <3>. QED BY <3>1, <3>2
  <2>3. Handed(d)' <= Length + 1
    BY <1>9, <1>10, <1>13, <1>14, PumpAssumption
  <2>4. \A i \in 1 .. t : taken'[d][i] = Chunk(d, i)
    BY <1>1, <1>7, <1>12 DEF DocOK, ChunksInPlace
  <2>5. answer'[d] # "closed"
    BY <1>1, <1>3 DEF DocOK, RunningIsOpen
  <2>. QED BY <1>11, <1>12, <2>2, <2>3, <2>4, <2>5 DEF ChunksInPlace, Chunk
<1>17. RoomIsKept(d)'
  <2>1. q + n <= Buffer /\ (pump[d] \in {"woken", "reading"} => q + n < Buffer)
        /\ (pump[d] \in {"top", "parked"} => n < Buffer)
    BY <1>1, <1>7, <1>8 DEF DocOK, RoomIsKept, in
  <2>a. Len(queue'[d]) = q + 1 /\ Len(Input(d)') = n - 1
    BY <1>6, <1>9, <1>11
  <2>b. (q + 1) + (n - 1) = q + n
    OBVIOUS
  <2>2. Len(queue'[d]) + Len(Input(d)') = q + n /\ Len(Input(d)') = n - 1
    BY <2>a, <2>b
  <2>3. Tail(in) = <<>> => n - 1 = 0
    BY <1>9
  <2>. QED BY <1>4, <2>1, <2>2, <2>3, <1>9, PumpAssumption DEF RoomIsKept
<1>18. UnaskedIsFresh(d)' /\ RunningIsOpen(d)' /\ LeftPumpsEnd(d)' /\ RenderIsStopped(d)'
  BY <1>1, <1>3, <1>4, <1>6, <1>12
  DEF DocOK, UnaskedIsFresh, RunningIsOpen, LeftPumpsEnd, RenderIsStopped, Pumping
<1>. QED BY <1>1, <1>15, <1>16, <1>17, <1>18 DEF DocOK

LEMMA DeflatesIsOK == ASSUME PumpInv, NEW z \in Zlibs, Deflates(z) PROVE PumpInv'
<1>0. PumpTypes
  BY PumpTypesAre DEF PumpInv
<1> DEFINE in == zlib[z].input
<1>1. in \in Seq([doc : Docs, n : 1 .. Length]) /\ in # <<>> /\ zlib[z] \in ZlibStates
  <2>1. zlib[z] \in ZlibStates
    BY <1>0 DEF PumpTypes
  <2>. QED BY <2>1 DEF ZlibStates, Deflates
<1>2. /\ zlib' \in [Zlibs -> ZlibStates]
      /\ zlib'[z] = [zlib[z] EXCEPT !.input = Tail(in)]
      /\ \A y \in Zlibs \ {z} : zlib'[y] = zlib[y]
  <2>1. Tail(in) \in Seq([doc : Docs, n : 1 .. Length])
    BY <1>1
  <2>2. [zlib[z] EXCEPT !.input = Tail(in)] \in ZlibStates
    BY <1>1, <2>1 DEF ZlibStates
  <2>3. zlib' = [zlib EXCEPT ![z] = [zlib[z] EXCEPT !.input = Tail(in)]]
    BY DEF Deflates
  <2> HIDE DEF in
  <2>. QED BY <1>0, <2>2, <2>3 DEF PumpTypes
<1>3. /\ zlib'[z].listeners = zlib[z].listeners /\ zlib'[z].flush = zlib[z].flush
      /\ zlib'[z].destroyed = zlib[z].destroyed
  BY <1>1, <1>2 DEF ZlibStates
<1>4. UNCHANGED <<pool, made, using, cancelled, broken, released, read, source, taken, answer>>
  BY DEF Deflates, locals
<1>5. \A d \in Docs : d \in zlib[z].listeners <=> using[d] = z /\ ~released[d]
  BY DEF PumpInv, OneUserEach, UsersListen
<1>6. queue' \in [Docs -> Seq(ChunksOf)]
      /\ \A d \in Docs : d \notin zlib[z].listeners => queue'[d] = queue[d]
  <2>1. Head(in) \in ChunksOf
    <3>1. Head(in) \in [doc : Docs, n : 1 .. Length]
      BY <1>1, HeadTailProperties
    <3>. QED BY <3>1, PumpAssumption DEF ChunksOf
  <2> HIDE DEF in
  <2>2. queue' = [d \in Docs |-> IF d \in zlib[z].listeners /\ ~cancelled[d]
                                 THEN Append(queue[d], Head(in)) ELSE queue[d]]
    BY DEF Deflates, in
  <2>. QED BY <1>0, <2>1, <2>2 DEF PumpTypes
<1>7. /\ pump' \in [Docs -> Pumping \cup {"none", "flushing", "over"}]
      /\ \A d \in Docs : \/ pump'[d] = pump[d]
                         \/ d \in zlib[z].listeners /\ pump[d] = "draining" /\ pump'[d] = "top"
  <2>1. pump' = [d \in Docs |-> IF using[d] = z /\ ~released[d] /\ pump[d] = "draining" /\ Tail(in) = <<>>
                                THEN "top" ELSE pump[d]]
    BY DEF Deflates
  <2> HIDE DEF in
  <2>. QED BY <1>0, <1>5, <2>1 DEF PumpTypes, Pumping
<1>8. PumpTypes'
  BY <1>0, <1>2, <1>4, <1>6, <1>7 DEF PumpTypes
<1>9. OneUserEach'
  <2>1. \A y \in Zlibs : /\ zlib'[y].listeners = zlib[y].listeners
                         /\ zlib'[y].flush = zlib[y].flush
                         /\ zlib[y].destroyed => zlib'[y].destroyed
                         /\ zlib'[y] # zlib[y] => zlib[y].input # <<>>
    BY <1>1, <1>2, <1>3
  <2>2. \A d \in Docs : /\ pump[d] # "none" => pump'[d] # "none"
                        /\ pump[d] \notin Pumping => pump'[d] = pump[d]
    BY <1>7 DEF Pumping
  <2>3. "flushing" \notin Pumping
    BY DEF Pumping
  <2>4. StreamsKept
    BY <1>4, <2>1, <2>2, <2>3 DEF StreamsKept, PumpInv, OneUserEach, UsedAreMade
  <2>. QED BY <2>4, KeptStreamsAreOneUserEach
<1>10. ASSUME NEW d \in Docs PROVE DocOK(d)'
  <2>1. CASE d \in zlib[z].listeners
    BY <2>1, DeflatedIsOK
  <2>2. CASE d \notin zlib[z].listeners
    <3>1. Uses(d) => using[d] \in Zlibs
      BY <1>0 DEF Uses, PumpTypes
    <3>2. LeftAlone(d)
      BY <1>2, <1>3, <1>4, <1>5, <1>6, <1>7, <2>2, <3>1 DEF LeftAlone, Destroyed
    <3>. QED BY <3>2, LeftAloneIsOK DEF PumpInv
  <2>. QED BY <2>1, <2>2
<1>. QED BY <1>8, <1>9, <1>10 DEF PumpInv, PumpTypes, PumpTypeOK, StreamsAreTyped, ZlibStates

LEMMA FinishesIsOK == ASSUME PumpInv, NEW z \in Zlibs, Finishes(z) PROVE PumpInv'
<1>0. PumpTypes
  BY PumpTypesAre DEF PumpInv
<1> PICK d \in Docs : d = zlib[z].flush
  BY <1>0 DEF Finishes, PumpTypes, ZlibStates
<1>1. d \in Docs /\ using[d] = z /\ ~released[d] /\ pump[d] = "flushing" /\ read[d] = Length
  BY DEF Finishes, PumpInv, OneUserEach, FlushIsLast
<1>2. Uses(d) /\ Running(d) /\ DocOK(d) /\ ~cancelled[d] /\ answer[d] = "open"
  <2>1. Running(d) /\ Uses(d)
    BY <1>1, PumpAssumption DEF Finishes, Running, Uses, Destroyed
  <2>2. DocOK(d)
    BY <1>1 DEF PumpInv
  <2>. QED BY <2>1, <2>2 DEF DocOK, RunningIsOpen
<1> DEFINE trailer == Chunk(d, Length + 1)
<1>3. /\ pump' = [pump EXCEPT ![d] = "over"] /\ answer' = [answer EXCEPT ![d] = "closed"]
      /\ queue' = [queue EXCEPT ![d] = Append(@, trailer)]
      /\ Cleanup(d, TRUE)
      /\ UNCHANGED <<using, cancelled, read, source, taken>>
  BY <1>2 DEF Finishes
<1>4. zlib[z].input = <<>>
  BY DEF Finishes
<1>5. trailer \in ChunksOf
  BY <1>1, PumpAssumption DEF Chunk, ChunksOf
<1> HIDE DEF trailer
<1>6. PICK pools \in BOOLEAN : LetsGo(d, pools) /\ (pools => ~Destroyed(d))
  BY <1>1, <1>2, <1>3, CleanupLeaves
<1>7. /\ pump' \in [Docs -> Pumping \cup {"none", "flushing", "over"}] /\ pump'[d] = "over"
      /\ \A e \in Docs \ {d} : pump'[e] = pump[e]
  BY <1>0, <1>1, <1>3 DEF PumpTypes
<1>8. /\ answer' \in [Docs -> {"unasked", "open", "closed", "errored", "cancelled", "cut"}]
      /\ answer'[d] = "closed" /\ \A e \in Docs \ {d} : answer'[e] = answer[e]
  BY <1>0, <1>1, <1>3 DEF PumpTypes
<1>9. /\ queue' \in [Docs -> Seq(ChunksOf)] /\ queue'[d] = Append(queue[d], trailer)
      /\ \A e \in Docs \ {d} : queue'[e] = queue[e]
  BY <1>0, <1>1, <1>3, <1>5 DEF PumpTypes
<1>10. PumpTypes'
  BY <1>0, <1>1, <1>2, <1>3, <1>6, <1>7, <1>8, <1>9, LeavingIsTyped DEF PumpTypes
<1>11. OneUserEach'
  <2>1. "over" \notin Pumping
    BY DEF Pumping
  <2>2. \A e \in Docs : answer'[e] = "unasked" => answer[e] = "unasked"
    BY <1>8
  <2>. QED BY <1>1, <1>2, <1>3, <1>6, <1>7, <2>1, <2>2, LeavingIsOneUserEach
<1>12. DocOK(d)'
  <2>1. released'[d]
    BY <1>0, <1>1, <1>6 DEF LetsGo, PumpTypes
  <2>2. RenderIsStopped(d)'
    BY <1>8 DEF RenderIsStopped
  <2>3. ChunksInPlace(d)'
    <3>1. PICK q \in Nat, t \in Nat : Len(queue[d]) = q /\ Len(taken[d]) = t /\ Handed(d) = t + q
      BY <1>1, HandedCounts
    <3>2. Len(Input(d)) = 0
      BY <1>1, <1>4 DEF Input
    <3>3. Length = t + q
      BY <1>1, <1>2, <3>1, <3>2 DEF DocOK, InputFollows
    <3>4. Len(queue'[d]) = q + 1 /\ queue'[d][q + 1] = trailer /\ \A i \in 1 .. q : queue'[d][i] = queue[d][i]
      <4>1. queue[d] \in Seq(ChunksOf)
        BY <1>0, <1>1 DEF PumpTypes
      <4>. QED BY <1>5, <1>9, <3>1, <4>1
    <3>5. taken'[d] = taken[d] /\ Len(taken'[d]) = t
      BY <1>3, <3>1
    <3>6. Handed(d)' = t + (q + 1)
      BY <3>4, <3>5 DEF Handed
    <3>7. Handed(d)' = Length + 1
      BY <3>3, <3>6
    <3>8. \A i \in 1 .. q + 1 : queue'[d][i] = Chunk(d, t + i)
      <4> SUFFICES ASSUME NEW i \in 1 .. q + 1 PROVE queue'[d][i] = Chunk(d, t + i)
        OBVIOUS
      <4>1. CASE i = q + 1
        <5>1. t + i = Length + 1
          BY <4>1, <3>3
        <5>. QED BY <4>1, <5>1, <3>4 DEF trailer
      <4>2. CASE i # q + 1
        <5>1. i \in 1 .. q
          BY <4>2
        <5>. QED BY <5>1, <1>2, <3>1, <3>4 DEF DocOK, ChunksInPlace
      <4>. QED BY <4>1, <4>2
    <3>9. \A i \in 1 .. t : taken'[d][i] = Chunk(d, i)
      BY <1>2, <3>1, <3>5 DEF DocOK, ChunksInPlace
    <3>10. Length + 1 <= Length + 1
      BY PumpAssumption
    <3>. QED BY <3>4, <3>5, <3>7, <3>8, <3>9, <3>10 DEF ChunksInPlace, Chunk
  <2>4. pump'[d] \notin Pumping
    BY <1>7 DEF Pumping
  <2>. QED BY <1>1, <1>2, <1>3, <2>1, <2>2, <2>3, <2>4, LeftIsOK
<1>13. ASSUME NEW e \in Docs, e # d PROVE DocOK(e)'
  <2>1. LeftAlone(e)
    BY <1>1, <1>2, <1>3, <1>6, <1>7, <1>8, <1>9, <1>13, LeavingLeavesAlone
  <2>. QED BY <2>1, LeftAloneIsOK DEF PumpInv
<1>. QED BY <1>10, <1>11, <1>12, <1>13 DEF PumpInv, PumpTypes, PumpTypeOK, StreamsAreTyped, ZlibStates

-----------------------------------------------------------------------------
(* The client's steps, a new document, and the end of the process.         *)

LEMMA TakeIsOK == ASSUME PumpInv, NEW d \in Docs, Take(d) PROVE PumpInv'
<1>0. PumpTypes
  BY PumpTypesAre DEF PumpInv
<1>1. UNCHANGED <<pool, made, zlib, using, cancelled, broken, released, read, source, answer>>
  BY DEF Take, streams, locals
<1>2. queue[d] \in Seq(ChunksOf) /\ queue[d] # <<>> /\ taken[d] \in Seq(ChunksOf)
  BY <1>0 DEF Take, PumpTypes
<1>3. Head(queue[d]) \in ChunksOf /\ Tail(queue[d]) \in Seq(ChunksOf)
  BY <1>2, HeadTailProperties
<1>4. /\ taken' \in [Docs -> Seq(ChunksOf)] /\ taken'[d] = Append(taken[d], Head(queue[d]))
      /\ \A e \in Docs \ {d} : taken'[e] = taken[e]
  BY <1>0, <1>2, <1>3 DEF Take, PumpTypes
<1>5. /\ queue' \in [Docs -> Seq(ChunksOf)] /\ queue'[d] = Tail(queue[d])
      /\ \A e \in Docs \ {d} : queue'[e] = queue[e]
  BY <1>0, <1>2, <1>3 DEF Take, PumpTypes
<1>6. /\ pump' \in [Docs -> Pumping \cup {"none", "flushing", "over"}]
      /\ pump'[d] = IF Len(queue[d]) = 1 /\ pump[d] = "parked" THEN "woken" ELSE pump[d]
      /\ \A e \in Docs \ {d} : pump'[e] = pump[e]
  BY <1>0 DEF Take, Woken, PumpTypes, Pumping
<1>7. PumpTypes'
  BY <1>0, <1>1, <1>4, <1>5, <1>6 DEF PumpTypes
<1>8. OneUserEach'
  <2>1. \A e \in Docs : pump'[e] = pump[e] \/ (pump[e] = "parked" /\ pump'[e] = "woken")
    BY <1>6
  <2>2. StreamsKept
    BY <1>1, <2>1 DEF StreamsKept, PumpInv, OneUserEach, UsedAreMade, Pumping
  <2>. QED BY <2>2, KeptStreamsAreOneUserEach
<1>9. DocOK(d)'
  <2>0. DocOK(d) /\ Uses(d)
    <3>1. DocOK(d)
      BY DEF PumpInv
    <3>. QED BY <3>1 DEF DocOK, UnaskedIsFresh, Take
  <2>1. Uses(d)' /\ (Running(d)' <=> Running(d)) /\ (Destroyed(d)' <=> Destroyed(d)) /\ Input(d)' = Input(d)
    BY <1>1, <2>0 DEF Uses, Running, Destroyed, Input
  <2>2. PICK q \in Nat, t \in Nat : Len(queue[d]) = q /\ Len(taken[d]) = t /\ Handed(d) = t + q
    BY HandedCounts
  <2>3. Len(queue'[d]) = q - 1 /\ q > 0 /\ \A i \in 1 .. q - 1 : queue'[d][i] = queue[d][i + 1]
    <3>1. Len(Tail(queue[d])) = q - 1 /\ \A i \in 1 .. q - 1 : Tail(queue[d])[i] = queue[d][i + 1]
      BY <1>2, <2>2, HeadTailProperties
    <3>2. q > 0
      BY <1>2, <2>2
    <3>. QED BY <1>5, <3>1, <3>2
  <2>4. Len(taken'[d]) = t + 1 /\ taken'[d][t + 1] = queue[d][1]
        /\ \A i \in 1 .. t : taken'[d][i] = taken[d][i]
    <3>1. Head(queue[d]) = queue[d][1]
      BY <1>2
    <3>. QED BY <1>2, <1>3, <1>4, <2>2, <3>1
  <2>5. Handed(d)' = Handed(d)
    <3>1. Handed(d)' = (t + 1) + (q - 1)
      BY <2>3, <2>4 DEF Handed
    <3>. QED BY <2>2, <3>1
  <2>6. ChunksInPlace(d)'
    <3>1. \A i \in 1 .. t : taken[d][i] = Chunk(d, i)
      BY <2>0, <2>2 DEF DocOK, ChunksInPlace
    <3>2. \A i \in 1 .. q : queue[d][i] = Chunk(d, t + i)
      BY <2>0, <2>2 DEF DocOK, ChunksInPlace
    <3>3. \A i \in 1 .. t + 1 : taken'[d][i] = Chunk(d, i)
      <4> SUFFICES ASSUME NEW i \in 1 .. t + 1 PROVE taken'[d][i] = Chunk(d, i)
        OBVIOUS
      <4>1. CASE i = t + 1
        <5>1. 1 \in 1 .. q
          BY <2>3
        <5>. QED BY <4>1, <5>1, <2>4, <3>2
      <4>2. CASE i # t + 1
        <5>1. i \in 1 .. t
          BY <4>2
        <5>. QED BY <5>1, <2>4, <3>1
      <4>. QED BY <4>1, <4>2
    <3>4. \A i \in 1 .. q - 1 : queue'[d][i] = Chunk(d, (t + 1) + i)
      <4> SUFFICES ASSUME NEW i \in 1 .. q - 1 PROVE queue'[d][i] = Chunk(d, (t + 1) + i)
        OBVIOUS
      <4>1. i + 1 \in 1 .. q /\ t + (i + 1) = (t + 1) + i
        OBVIOUS
      <4>. QED BY <4>1, <2>3, <3>2
    <3>. QED BY <1>1, <2>0, <2>3, <2>4, <2>5, <3>3, <3>4 DEF DocOK, ChunksInPlace, Chunk
  <2>7. InputFollows(d)'
    BY <1>1, <2>0, <2>1, <2>5 DEF DocOK, InputFollows, Chunk
  <2>8. RenderIsStopped(d)'
    <3>1. answer[d] = "open" => read[d] <= t + 2 * Buffer + 1
      BY <2>0, <2>2 DEF DocOK, RenderIsStopped
    <3>2. read[d] \in 0 .. Length
      BY <1>0 DEF PumpTypes
    <3>. QED BY <1>1, <2>4, <3>1, <3>2, PumpAssumption DEF RenderIsStopped
  <2>9. RoomIsKept(d)'
    <3> SUFFICES ASSUME Running(d)
                 PROVE  /\ Len(queue'[d]) + Len(Input(d)) <= Buffer
                        /\ pump'[d] \in {"woken", "reading"} => Len(queue'[d]) + Len(Input(d)) < Buffer
                        /\ pump'[d] \in {"top", "parked"} => Len(Input(d)) < Buffer
      BY <2>1 DEF RoomIsKept
    <3> PICK n \in Nat : Len(Input(d)) = n
      BY RunningCounts
    <3>1. q + n <= Buffer /\ (pump[d] \in {"woken", "reading"} => q + n < Buffer)
          /\ (pump[d] \in {"top", "parked"} => n < Buffer)
      BY <2>0, <2>2 DEF DocOK, RoomIsKept
    <3>. QED BY <1>6, <2>2, <2>3, <3>1, PumpAssumption
  <2>10. UnaskedIsFresh(d)' /\ RunningIsOpen(d)' /\ LeftPumpsEnd(d)'
    BY <1>1, <1>6, <2>0, <2>1 DEF DocOK, UnaskedIsFresh, RunningIsOpen, LeftPumpsEnd, Pumping
  <2>. QED BY <2>6, <2>7, <2>8, <2>9, <2>10 DEF DocOK
<1>10. ASSUME NEW e \in Docs, e # d PROVE DocOK(e)'
  <2>1. LeftAlone(e)
    BY <1>1, <1>4, <1>5, <1>6, <1>10 DEF LeftAlone, Destroyed
  <2>. QED BY <2>1, LeftAloneIsOK DEF PumpInv
<1>. QED BY <1>7, <1>8, <1>9, <1>10 DEF PumpInv, PumpTypes, PumpTypeOK, StreamsAreTyped, ZlibStates

LEMMA CancelIsOK == ASSUME PumpInv, NEW d \in Docs, Cancel(d) PROVE PumpInv'
<1>0. PumpTypes
  BY PumpTypesAre DEF PumpInv
<1>1. DocOK(d) /\ Uses(d) /\ answer[d] = "open"
  <2>1. DocOK(d)
    BY DEF PumpInv
  <2>. QED BY <2>1 DEF DocOK, UnaskedIsFresh, Cancel
<1>2. UNCHANGED <<using, read, taken>>
  BY DEF Cancel
<1>3. /\ answer' \in [Docs -> {"unasked", "open", "closed", "errored", "cancelled", "cut"}]
      /\ answer'[d] = "cancelled" /\ \A e \in Docs \ {d} : answer'[e] = answer[e]
  BY <1>0 DEF Cancel, PumpTypes
<1>4. /\ cancelled' \in [Docs -> BOOLEAN]
      /\ \A e \in Docs \ {d} : cancelled'[e] = cancelled[e]
  BY <1>0 DEF Cancel, PumpTypes
<1>5. /\ pump' \in [Docs -> Pumping \cup {"none", "flushing", "over"}]
      /\ pump'[d] = IF pump[d] = "flushing" THEN "over" ELSE IF pump[d] = "parked" THEN "woken" ELSE pump[d]
      /\ \A e \in Docs \ {d} : pump'[e] = pump[e]
  <2> DEFINE to == IF pump[d] = "flushing" THEN "over" ELSE IF pump[d] = "parked" THEN "woken" ELSE pump[d]
  <2>1. to \in Pumping \cup {"none", "flushing", "over"}
    BY <1>0 DEF PumpTypes, Pumping
  <2>2. pump' = [pump EXCEPT ![d] = to]
    BY DEF Cancel, Woken
  <2> HIDE DEF to
  <2>3. pump' \in [Docs -> Pumping \cup {"none", "flushing", "over"}] /\ pump'[d] = to
        /\ \A e \in Docs \ {d} : pump'[e] = pump[e]
    BY <1>0, <2>1, <2>2 DEF PumpTypes
  <2>. QED BY <2>3 DEF to
<1>6. /\ source' \in [Docs -> {"open", "returned", "failed"}]
      /\ \A e \in Docs \ {d} : source'[e] = source[e]
  BY <1>0 DEF Cancel, PumpTypes
<1>7. /\ queue' \in [Docs -> Seq(ChunksOf)] /\ queue'[d] = <<>>
      /\ \A e \in Docs \ {d} : queue'[e] = queue[e]
  BY <1>0 DEF Cancel, PumpTypes
<1>8. ChunksInPlace(d)' /\ RenderIsStopped(d)'
  <2>1. RenderIsStopped(d)'
    BY <1>3 DEF RenderIsStopped
  <2>2. PICK q \in Nat, t \in Nat : Len(queue[d]) = q /\ Len(taken[d]) = t /\ Handed(d) = t + q
    BY HandedCounts
  <2>3. Len(<<>>) = 0
    OBVIOUS
  <2>4. Len(queue'[d]) = 0 /\ taken'[d] = taken[d]
    BY <1>2, <1>7, <2>3
  <2>5. Handed(d)' = t
    BY <2>2, <2>4 DEF Handed
  <2>6. Handed(d)' <= Length + 1
    BY <1>1, <2>2, <2>5, PumpAssumption DEF DocOK, ChunksInPlace
  <2>7. \A i \in 1 .. Len(taken'[d]) : taken'[d][i] = Chunk(d, i)
    BY <1>1, <2>4 DEF DocOK, ChunksInPlace
  <2>8. \A i \in 1 .. Len(queue'[d]) : FALSE
    BY <2>4
  <2>. QED BY <1>3, <2>1, <2>6, <2>7, <2>8 DEF ChunksInPlace, Chunk
<1>9. CASE released[d]
  <2>1. UNCHANGED <<pool, made, zlib, broken, released>>
    BY <1>9 DEF Cancel, Cleanup, streams
  <2>2. pump[d] \notin Pumping /\ pump'[d] \notin Pumping /\ pump'[d] # "none"
    <3>1. pump[d] \notin Pumping
      BY <1>1, <1>9 DEF DocOK, LeftPumpsEnd, Running
    <3>2. pump[d] # "none"
      BY <1>1 DEF PumpInv, OneUserEach, UsedAreMade
    <3>. QED BY <1>5, <3>1, <3>2 DEF Pumping
  <2>3. PumpTypes'
    BY <1>0, <1>2, <1>3, <1>4, <1>5, <1>6, <1>7, <2>1 DEF PumpTypes
  <2>4. OneUserEach'
    <3>1. ~Running(d)
      BY <1>9 DEF Running
    <3>2. StreamsKept
      BY <1>2, <1>3, <1>5, <1>9, <2>1, <2>2, <3>1 DEF StreamsKept, PumpInv, OneUserEach, UsedAreMade
    <3>. QED BY <3>2, KeptStreamsAreOneUserEach
  <2>5. DocOK(d)'
    BY <1>1, <1>2, <1>8, <1>9, <2>1, <2>2, LeftIsOK
  <2>6. ASSUME NEW e \in Docs, e # d PROVE DocOK(e)'
    <3>1. LeftAlone(e)
      BY <1>2, <1>3, <1>4, <1>5, <1>6, <1>7, <2>1, <2>6 DEF LeftAlone, Destroyed
    <3>. QED BY <3>1, LeftAloneIsOK DEF PumpInv
  <2>. QED BY <2>3, <2>4, <2>5, <2>6 DEF PumpInv, PumpTypes, PumpTypeOK, StreamsAreTyped, ZlibStates
<1>10. CASE ~released[d]
  <2>1. PICK pools \in BOOLEAN : LetsGo(d, pools) /\ (pools => FALSE)
    BY <1>1, <1>2, <1>10, CleanupLeaves DEF Cancel
  <2>2. PumpTypes'
    BY <1>0, <1>1, <1>2, <1>3, <1>4, <1>5, <1>6, <1>7, <2>1, LeavingIsTyped DEF PumpTypes
  <2>3. OneUserEach'
    <3>1. pump'[d] # "none"
      BY <1>1, <1>5 DEF PumpInv, OneUserEach, UsedAreMade
    <3>2. \A e \in Docs : answer'[e] = "unasked" => answer[e] = "unasked"
      BY <1>3
    <3>. QED BY <1>1, <1>2, <1>5, <1>10, <2>1, <3>1, <3>2, LeavingIsOneUserEach
  <2>4. released'[d] /\ zlib'[using[d]].destroyed
    <3>1. using[d] \in Zlibs
      BY <1>0, <1>1 DEF Uses, PumpTypes
    <3>. QED BY <1>0, <2>1, <3>1 DEF LetsGo, Left, PumpTypes
  <2>5. DocOK(d)'
    BY <1>1, <1>2, <1>3, <1>8, <2>4, LeftIsOK
  <2>6. ASSUME NEW e \in Docs, e # d PROVE DocOK(e)'
    <3>1. LeftAlone(e)
      BY <1>1, <1>2, <1>3, <1>4, <1>5, <1>6, <1>7, <1>10, <2>1, <2>6, LeavingLeavesAlone
    <3>. QED BY <3>1, LeftAloneIsOK DEF PumpInv
  <2>. QED BY <2>2, <2>3, <2>5, <2>6 DEF PumpInv, PumpTypes, PumpTypeOK, StreamsAreTyped, ZlibStates
<1>. QED BY <1>9, <1>10

\* the stream a new document is given, made for it or out of the pool
LEMMA AcquiredIsFree ==
  ASSUME PumpInv, NEW d \in Docs, NEW z \in Zlibs, Acquires(d, z), answer[d] = "unasked"
  PROVE  /\ z \in made' /\ made \subseteq made' /\ made' \subseteq Zlibs
         /\ pool' \in Seq(made')
         /\ \A i \in DOMAIN pool' : i \in DOMAIN pool /\ pool'[i] = pool[i] /\ pool[i] # z
         /\ \A e \in Docs : using[e] = z => released[e] /\ pump[e] \notin Pumping
         /\ zlib[z].input = <<>> /\ ~zlib[z].destroyed /\ zlib[z].flush = None
         /\ \A y \in made' \ {z} : y \in made
<1>0. PumpTypes
  BY PumpTypesAre DEF PumpInv
<1>1. CASE pool = <<>>
  <2>1. z \notin made /\ made' = made \cup {z} /\ pool' = <<>>
    BY <1>1 DEF Acquires
  <2>2. \A e \in Docs : using[e] # z
    BY <2>1, PumpAssumption DEF PumpInv, OneUserEach, UsedAreMade, Uses
  <2>3. zlib[z].input = <<>> /\ ~zlib[z].destroyed /\ zlib[z].flush = None
    BY <2>1 DEF PumpInv, OneUserEach, UnmadeAreNew
  <2>4. pool' \in Seq(made') /\ DOMAIN pool' = {}
    BY <2>1
  <2>. QED BY <1>0, <2>1, <2>2, <2>3, <2>4 DEF PumpTypes
<1>2. CASE pool # <<>>
  <2>1. z = pool[Len(pool)] /\ pool' = SubSeq(pool, 1, Len(pool) - 1) /\ made' = made
    BY <1>2 DEF Acquires, Last, Front
  <2>2. pool \in Seq(made)
    BY <1>0 DEF PumpTypes
  <2>3. Len(pool) \in Nat /\ Len(pool) > 0 /\ DOMAIN pool = 1 .. Len(pool)
    BY <1>2, <2>2
  <2>4. z \in made
    BY <2>1, <2>2, <2>3, ElementOfSeq
  <2>5. /\ pool' \in Seq(made) /\ Len(pool') = Len(pool) - 1
        /\ \A i \in 1 .. Len(pool) - 1 : pool'[i] = pool[i]
    BY <2>1, <2>2, <2>3
  <2>6. DOMAIN pool' = 1 .. Len(pool) - 1
    BY <2>5
  <2>7. \A i \in 1 .. Len(pool) - 1 : pool[i] # z
    BY <2>1, <2>3 DEF PumpInv, OneUserEach, PoolIsDistinct
  <2>8. zlib[z] = NoZlib /\ \A e \in Docs : using[e] = z => released[e] /\ pump[e] \notin Pumping
    BY <2>1, <2>3 DEF PumpInv, OneUserEach, PoolIsIdle, Pumps
  <2>9. zlib[z].input = <<>> /\ ~zlib[z].destroyed /\ zlib[z].flush = None
    BY <2>8 DEF NoZlib
  <2>. QED BY <1>0, <2>1, <2>3, <2>4, <2>5, <2>6, <2>7, <2>8, <2>9 DEF PumpTypes
<1>. QED BY <1>1, <1>2

LEMMA StartIsOK == ASSUME PumpInv, NEW d \in Docs, Start(d) PROVE PumpInv'
<1>0. PumpTypes
  BY PumpTypesAre DEF PumpInv
<1>1. PICK z \in Zlibs : Acquires(d, z)
  BY DEF Start
<1>2. /\ z \in made' /\ made \subseteq made' /\ made' \subseteq Zlibs
      /\ pool' \in Seq(made')
      /\ \A i \in DOMAIN pool' : i \in DOMAIN pool /\ pool'[i] = pool[i] /\ pool[i] # z
      /\ \A e \in Docs : using[e] = z => released[e] /\ pump[e] \notin Pumping
      /\ zlib[z].input = <<>> /\ ~zlib[z].destroyed /\ zlib[z].flush = None
      /\ \A y \in made' \ {z} : y \in made
  BY <1>1, AcquiredIsFree DEF Start
<1>3. ~Uses(d) /\ DocOK(d)
  BY DEF PumpInv, OneUserEach, UsedAreMade, Start
<1>4. UNCHANGED <<cancelled, broken, released, read, source, queue, taken>>
  BY DEF Start
<1>5. /\ using' \in [Docs -> Zlibs \cup {None}] /\ using'[d] = z
      /\ \A e \in Docs \ {d} : using'[e] = using[e]
  BY <1>0, <1>1 DEF Acquires, PumpTypes
<1>6. /\ pump' \in [Docs -> Pumping \cup {"none", "flushing", "over"}] /\ pump'[d] = "top"
      /\ \A e \in Docs \ {d} : pump'[e] = pump[e]
  BY <1>0 DEF Start, PumpTypes, Pumping
<1>7. /\ answer' \in [Docs -> {"unasked", "open", "closed", "errored", "cancelled", "cut"}]
      /\ answer'[d] = "open" /\ \A e \in Docs \ {d} : answer'[e] = answer[e]
  BY <1>0 DEF Start, PumpTypes
<1> DEFINE heard == zlib[z].listeners \cup {d}
<1>8. /\ zlib' \in [Zlibs -> ZlibStates]
      /\ zlib'[z] = [zlib[z] EXCEPT !.listeners = heard]
      /\ \A y \in Zlibs \ {z} : zlib'[y] = zlib[y]
  <2>1. [zlib[z] EXCEPT !.listeners = heard] \in ZlibStates
    <3>1. zlib[z] \in ZlibStates
      BY <1>0 DEF PumpTypes
    <3>. QED BY <3>1 DEF ZlibStates
  <2>2. zlib' = [zlib EXCEPT ![z] = [zlib[z] EXCEPT !.listeners = heard]]
    BY <1>1 DEF Acquires
  <2> HIDE DEF heard
  <2>. QED BY <1>0, <2>1, <2>2 DEF PumpTypes
<1>9. /\ zlib'[z].listeners = heard /\ zlib'[z].input = <<>> /\ ~zlib'[z].destroyed
      /\ zlib'[z].flush = None
  BY <1>0, <1>2, <1>8 DEF PumpTypes, ZlibStates
<1>10. ~released[d] /\ read[d] = 0 /\ queue[d] = <<>> /\ taken[d] = <<>> /\ ~cancelled[d] /\ ~broken[d]
       /\ source[d] = "open"
  BY <1>3 DEF DocOK, UnaskedIsFresh
<1>11. \A e \in Docs : e # d => (Uses(e)' <=> Uses(e))
  BY <1>5 DEF Uses
<1>12. PumpTypes'
  BY <1>0, <1>2, <1>4, <1>5, <1>6, <1>7, <1>8 DEF PumpTypes
<1>13. OneUserEach'
  <2> USE DEF PumpInv, OneUserEach
  <2>1. UsedAreMade'
    BY <1>2, <1>5, <1>6, <1>7, <1>11 DEF UsedAreMade
  <2>2. UnmadeAreNew'
    <3>1. \A y \in Zlibs \ made' : y \in Zlibs \ made /\ y # z
      BY <1>2
    <3>2. \A e \in Docs : answer'[e] = "unasked" => answer[e] = "unasked"
      BY <1>7
    <3>. QED BY <1>8, <3>1, <3>2 DEF UnmadeAreNew
  <2>3. PoolIsDistinct'
    BY <1>2 DEF PoolIsDistinct
  <2>4. UsersListen'
    <3> SUFFICES ASSUME NEW y \in Zlibs, NEW e \in Docs
                 PROVE  e \in zlib'[y].listeners <=> using'[e] = y /\ ~released'[e]
      BY DEF UsersListen
    <3>1. CASE e = d
      <4>1. d \in zlib'[y].listeners => y = z
        <5>1. using[d] # y
          BY <1>3, PumpAssumption DEF Uses
        <5>. QED BY <1>8, <5>1 DEF UsersListen
      <4>. QED BY <3>1, <4>1, <1>4, <1>5, <1>9, <1>10
    <3>2. CASE e # d
      <4>1. e \in zlib'[y].listeners <=> e \in zlib[y].listeners
        BY <3>2, <1>8, <1>9
      <4>. QED BY <3>2, <4>1, <1>4, <1>5 DEF UsersListen
    <3>. QED BY <3>1, <3>2
  <2>5. UsersAreAlone'
    <3> SUFFICES ASSUME NEW e \in Docs, NEW f \in Docs, using'[e] # None, using'[e] = using'[f],
                        ~released'[e], ~released'[f], e # f
                 PROVE  FALSE
      BY DEF UsersAreAlone, Uses
    <3>1. CASE e = d
      BY <3>1, <1>2, <1>4, <1>5
    <3>2. CASE f = d
      BY <3>2, <1>2, <1>4, <1>5
    <3>3. CASE e # d /\ f # d
      BY <3>3, <1>4, <1>5 DEF UsersAreAlone, Uses
    <3>. QED BY <3>1, <3>2, <3>3
  <2>6. FlushIsLast'
    <3> SUFFICES ASSUME NEW y \in Zlibs, zlib'[y].flush # None, ~zlib'[y].destroyed
                 PROVE  /\ using'[zlib'[y].flush] = y /\ ~released'[zlib'[y].flush]
                        /\ pump'[zlib'[y].flush] = "flushing" /\ read'[zlib'[y].flush] = Length
      BY DEF FlushIsLast
    <3>1. y # z /\ zlib'[y] = zlib[y]
      BY <1>8, <1>9
    <3>2. zlib[y].flush \in Docs
      BY <1>0, <3>1 DEF PumpTypes, ZlibStates
    <3>3. using[zlib[y].flush] = y
      BY <3>1 DEF FlushIsLast
    <3>4. zlib[y].flush # d
      BY <3>3, <1>3, PumpAssumption DEF Uses
    <3>. QED BY <3>1, <3>2, <3>4, <1>4, <1>5, <1>6 DEF FlushIsLast
  <2>7. PoolIsIdle'
    <3> SUFFICES ASSUME NEW i \in DOMAIN pool'
                 PROVE  /\ zlib'[pool'[i]] = NoZlib
                        /\ \A e \in Docs : using'[e] = pool'[i] => released'[e] /\ pump'[e] \notin Pumping
      BY DEF PoolIsIdle, Pumps
    <3>1. i \in DOMAIN pool /\ pool'[i] = pool[i] /\ pool[i] # z
      BY <1>2
    <3>2. pool[i] \in Zlibs
      BY <1>0, <3>1, ElementOfSeq DEF PumpTypes
    <3>3. \A e \in Docs : using'[e] = pool[i] => e # d /\ using[e] = pool[i]
      BY <1>5, <3>1
    <3>. QED BY <3>1, <3>2, <3>3, <1>4, <1>6, <1>8 DEF PoolIsIdle, Pumps
  <2>. QED BY <2>1, <2>2, <2>3, <2>4, <2>5, <2>6, <2>7
<1>14. DocOK(d)'
  <2>1. Len(<<>>) = 0
    OBVIOUS
  <2>2. Len(queue'[d]) = 0 /\ Len(taken'[d]) = 0 /\ Len(Input(d)') = 0 /\ read'[d] = 0
    BY <1>4, <1>5, <1>9, <1>10, <2>1 DEF Input
  <2>3. Handed(d)' = 0
    BY <2>2 DEF Handed
  <2>4. Uses(d)' /\ Running(d)'
    BY <1>4, <1>5, <1>9, <1>10, PumpAssumption DEF Uses, Running, Destroyed
  <2>5. ChunksInPlace(d)' /\ InputFollows(d)' /\ RoomIsKept(d)' /\ RenderIsStopped(d)'
    BY <1>6, <1>7, <2>2, <2>3, PumpAssumption DEF ChunksInPlace, InputFollows, RoomIsKept, RenderIsStopped
  <2>6. UnaskedIsFresh(d)' /\ RunningIsOpen(d)' /\ LeftPumpsEnd(d)'
    BY <1>4, <1>6, <1>7, <1>10, <2>4 DEF UnaskedIsFresh, RunningIsOpen, LeftPumpsEnd, Pumping
  <2>. QED BY <2>5, <2>6 DEF DocOK
<1>15. ASSUME NEW e \in Docs, e # d PROVE DocOK(e)'
  <2>1. Uses(e) => using[e] \in Zlibs
    BY <1>0 DEF Uses, PumpTypes
  <2>2. Uses(e) /\ using[e] = z => released[e] /\ ~Destroyed(e)
    BY <1>2 DEF Destroyed
  <2>3. LeftAlone(e)
    BY <1>4, <1>5, <1>6, <1>7, <1>8, <1>15, <2>1, <2>2 DEF LeftAlone, Destroyed
  <2>. QED BY <2>3, LeftAloneIsOK DEF PumpInv
<1>. QED BY <1>12, <1>13, <1>14, <1>15 DEF PumpInv, PumpTypes, PumpTypeOK, StreamsAreTyped, ZlibStates

LEMMA NobodyHearsIsOK == ASSUME PumpInv, NEW d \in Docs, NobodyHears(d) PROVE PumpInv'
<1>0. PumpTypes
  BY PumpTypesAre DEF PumpInv
<1>1. UNCHANGED <<made, using, cancelled, broken, released, read, source, queue, taken>> /\ pool' = <<>>
  BY DEF NobodyHears, locals
<1>2. /\ answer' \in [Docs -> {"unasked", "open", "closed", "errored", "cancelled", "cut"}]
      /\ \A e \in Docs : answer'[e] = answer[e] \/ answer'[e] = "cut"
      /\ \A e \in Docs : answer'[e] \notin {"unasked", "open"}
  BY <1>0 DEF NobodyHears, PumpTypes
<1>3. /\ pump' \in [Docs -> Pumping \cup {"none", "flushing", "over"}]
      /\ \A e \in Docs : pump'[e] = "over"
  BY DEF NobodyHears
<1>4. /\ zlib' \in [Zlibs -> ZlibStates]
      /\ \A z \in Zlibs : zlib'[z] = [zlib[z] EXCEPT !.destroyed = TRUE]
  <2>1. \A z \in Zlibs : [zlib[z] EXCEPT !.destroyed = TRUE] \in ZlibStates
    <3>1. \A z \in Zlibs : zlib[z] \in ZlibStates
      BY <1>0 DEF PumpTypes
    <3>. QED BY <3>1 DEF ZlibStates
  <2>. QED BY <2>1 DEF NobodyHears
<1>5. \A z \in Zlibs : /\ zlib'[z].listeners = zlib[z].listeners /\ zlib'[z].input = zlib[z].input
                       /\ zlib'[z].flush = zlib[z].flush /\ zlib'[z].destroyed
  <2>1. \A z \in Zlibs : zlib[z] \in ZlibStates
    BY <1>0 DEF PumpTypes
  <2>. QED BY <1>4, <2>1 DEF ZlibStates
<1>6. PumpTypes'
  <2>1. pool' \in Seq(made')
    BY <1>1
  <2>. QED BY <1>0, <1>1, <1>2, <1>3, <1>4, <2>1 DEF PumpTypes
<1>7. OneUserEach'
  <2> USE DEF PumpInv, OneUserEach
  <2>1. UsedAreMade' /\ UsersAreAlone'
    BY <1>1, <1>2, <1>3 DEF UsedAreMade, UsersAreAlone, Uses
  <2>2. UnmadeAreNew' /\ UsersListen'
    BY <1>1, <1>2, <1>5 DEF UnmadeAreNew, UsersListen
  <2>3. FlushIsLast'
    BY <1>5 DEF FlushIsLast
  <2>4. DOMAIN pool' = {}
    BY <1>1
  <2>5. PoolIsDistinct' /\ PoolIsIdle'
    BY <2>4 DEF PoolIsDistinct, PoolIsIdle
  <2>. QED BY <2>1, <2>2, <2>3, <2>5
<1>8. ASSUME NEW e \in Docs PROVE DocOK(e)'
  <2>1. DocOK(e)
    BY DEF PumpInv
  <2>2. ~Running(e)' /\ (Uses(e)' <=> Uses(e)) /\ Handed(e)' = Handed(e)
    <3>1. Uses(e) => using[e] \in Zlibs
      BY <1>0 DEF Uses, PumpTypes
    <3>. QED BY <1>1, <1>5, <3>1 DEF Running, Uses, Destroyed, Handed
  <2>3. pump'[e] \notin Pumping
    BY <1>3 DEF Pumping
  <2>4. RunningIsOpen(e)' /\ InputFollows(e)' /\ RoomIsKept(e)' /\ LeftPumpsEnd(e)'
    BY <2>2, <2>3 DEF RunningIsOpen, InputFollows, RoomIsKept, LeftPumpsEnd
  <2>5. UnaskedIsFresh(e)' /\ RenderIsStopped(e)'
    BY <1>1, <1>2, <1>3, <2>1, <2>2 DEF DocOK, UnaskedIsFresh, RenderIsStopped
  <2>6. answer'[e] = "closed" => answer[e] = "closed"
    BY <1>2
  <2>7. ChunksInPlace(e)'
    BY <1>1, <2>1, <2>2, <2>6 DEF DocOK, ChunksInPlace, Chunk
  <2>. QED BY <2>4, <2>5, <2>7 DEF DocOK
<1>. QED BY <1>6, <1>7, <1>8 DEF PumpInv, PumpTypes, PumpTypeOK, StreamsAreTyped, ZlibStates

LEMMA PumpInvStutters == ASSUME PumpInv, UNCHANGED pumpVars PROVE PumpInv'
<1> USE DEF pumpVars, streams, locals
<1>1. PumpTypeOK' /\ StreamsAreTyped'
  BY DEF PumpInv, PumpTypeOK, StreamsAreTyped, ChunksOf
<1>2. OneUserEach'
  <2>1. StreamsKept
    BY DEF StreamsKept, PumpInv, OneUserEach, UsedAreMade
  <2>. QED BY <2>1, KeptStreamsAreOneUserEach
<1>3. ASSUME NEW e \in Docs PROVE DocOK(e)'
  <2>1. LeftAlone(e)
    BY DEF LeftAlone, Destroyed
  <2>. QED BY <2>1, LeftAloneIsOK DEF PumpInv
<1>. QED BY <1>1, <1>2, <1>3 DEF PumpInv

LEMMA PumpInvStep == PumpInv /\ [PumpNext]_pumpVars => PumpInv'
<1> SUFFICES ASSUME PumpInv, PumpNext \/ UNCHANGED pumpVars PROVE PumpInv'
  OBVIOUS
<1>1. CASE \E d \in Docs : Start(d) \/ PumpStep(d) \/ ReadFails(d) \/ NobodyHears(d) \/ Take(d) \/ Cancel(d)
  BY <1>1, StartIsOK, ParksIsOK, GoesOnIsOK, ReadsIsOK, ReadsEndIsOK, StopsWaitingIsOK, ReadFailsIsOK,
     NobodyHearsIsOK, TakeIsOK, CancelIsOK DEF PumpStep
<1>2. CASE \E z \in Zlibs : ZlibStep(z) \/ Breaks(z)
  BY <1>2, DeflatesIsOK, FinishesIsOK, BreaksIsOK DEF ZlibStep
<1>3. CASE UNCHANGED pumpVars
  BY <1>3, PumpInvStutters
<1>. QED BY <1>1, <1>2, <1>3 DEF PumpNext

\* What a client took and can take are the first chunks of its document.
LEMMA InPlaceIsWhole == ASSUME PumpInv PROVE DocumentsAreWhole
<1> SUFFICES ASSUME NEW d \in Docs
             PROVE  /\ IsPrefix(taken[d] \o queue[d], Whole(d))
                    /\ answer[d] = "closed" => taken[d] \o queue[d] = Whole(d)
  BY DEF DocumentsAreWhole
<1> DEFINE had == taken[d] \o queue[d]
           whole == Whole(d)
<1>1. queue[d] \in Seq(ChunksOf) /\ taken[d] \in Seq(ChunksOf) /\ DocOK(d)
  BY PumpTypesAre DEF PumpInv, PumpTypes
<1>2. PICK q \in Nat, t \in Nat : Len(queue[d]) = q /\ Len(taken[d]) = t /\ Handed(d) = t + q
  BY HandedCounts
<1>3. /\ had \in Seq(ChunksOf) /\ Len(had) = t + q
      /\ \A i \in 1 .. t + q : had[i] = IF i <= t THEN taken[d][i] ELSE queue[d][i - t]
  BY <1>1, <1>2, ConcatProperties
<1>4. \A i \in 1 .. t + q : had[i] = Chunk(d, i)
  <2> SUFFICES ASSUME NEW i \in 1 .. t + q PROVE had[i] = Chunk(d, i)
    OBVIOUS
  <2>1. CASE i <= t
    <3>1. i \in 1 .. t
      BY <2>1
    <3>. QED BY <3>1, <2>1, <1>1, <1>2, <1>3 DEF DocOK, ChunksInPlace
  <2>2. CASE ~(i <= t)
    <3>1. i - t \in 1 .. q /\ t + (i - t) = i
      BY <2>2
    <3>. QED BY <3>1, <2>2, <1>1, <1>2, <1>3 DEF DocOK, ChunksInPlace
  <2>. QED BY <2>1, <2>2
<1>5. whole \in Seq(ChunksOf) /\ Len(whole) = Length + 1 /\ \A i \in 1 .. Length + 1 : whole[i] = Chunk(d, i)
  <2>1. \A i \in 1 .. Length + 1 : Chunk(d, i) \in ChunksOf
    BY DEF Chunk, ChunksOf
  <2>2. Length + 1 \in Nat
    BY PumpAssumption
  <2>. QED BY <2>1, <2>2 DEF Whole
<1>6. t + q <= Length + 1 /\ (answer[d] = "closed" => t + q = Length + 1)
  BY <1>1, <1>2 DEF DocOK, ChunksInPlace
<1> HIDE DEF had, whole
<1>7. answer[d] = "closed" => had = whole
  BY <1>3, <1>4, <1>5, <1>6, SeqEqual
<1>8. IsPrefix(had, whole)
  <2>1. \A i \in 1 .. t + q : i \in 1 .. Length + 1
    BY <1>6, PumpAssumption
  <2>2. SubSeq(had, 1, t + q) \in Seq(ChunksOf) /\ Len(SubSeq(had, 1, t + q)) = t + q
        /\ \A i \in 1 .. t + q : SubSeq(had, 1, t + q)[i] = had[i]
    BY <1>3
  <2>3. SubSeq(whole, 1, t + q) \in Seq(ChunksOf) /\ Len(SubSeq(whole, 1, t + q)) = t + q
        /\ \A i \in 1 .. t + q : SubSeq(whole, 1, t + q)[i] = whole[i]
    BY <1>5, <1>6, <2>1, PumpAssumption
  <2>4. SubSeq(had, 1, t + q) = SubSeq(whole, 1, t + q)
    BY <1>4, <1>5, <2>1, <2>2, <2>3, SeqEqual
  <2>. QED BY <1>3, <1>5, <1>6, <2>4 DEF IsPrefix
<1>. QED BY <1>7, <1>8 DEF had, whole

\* The pool of zlib streams is safe to share (compress.ts gzipStream,
\* acquireGzip, releaseGzip): whatever clients, zlib and react do, a document is
\* its own and in order, one that closed is whole, an idle stream has nobody at
\* work on it, and a client that stalls stops its own render only.
THEOREM PoolIsSafeToShare == PumpSpec => []PumpsAreSafe
<1>1. PumpInv => PumpsAreSafe
  <2> SUFFICES ASSUME PumpInv PROVE PumpsAreSafe
    OBVIOUS
  <2>1. DocumentsAreWhole
    BY InPlaceIsWhole
  <2>2. PoolIsIdle /\ PumpTypeOK
    BY DEF PumpInv, OneUserEach
  <2>3. StalledClientsStopTheRender
    BY DEF PumpInv, DocOK, RenderIsStopped, StalledClientsStopTheRender
  <2>. QED BY <2>1, <2>2, <2>3 DEF PumpsAreSafe
<1>. QED BY <1>1, PumpInvInit, PumpInvStep, PTL DEF PumpSpec
=============================================================================
