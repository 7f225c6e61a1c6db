---------------------------- MODULE DocumentPump ----------------------------
(***************************************************************************)
(* The compressed documents of the render service (compress.ts): gzipStream *)
(* pumps the stream of documentStream through a zlib stream of the pool,    *)
(* into an answer its client reads at its own pace or abandons. Between two *)
(* awaits a pump runs alone; zlib, the source and the client answer when    *)
(* they please.                                                             *)
(***************************************************************************)
EXTENDS Naturals, Sequences, FiniteSets

LOCAL INSTANCE SequencesExt

CONSTANTS
    Docs,        \* the documents asked for
    Zlibs,       \* the zlib streams that may be made
    None,
    Length,      \* chunks of a document, its head and its tail among them
    Buffer,      \* chunks zlib takes before write() says wait
    PoolMax      \* GZIP_POOL_MAX

ASSUME PumpAssumption ==
    /\ Length \in Nat \ {0} /\ Buffer \in Nat \ {0} /\ PoolMax \in Nat
    /\ None \notin Docs \cup Zlibs
    /\ IsFiniteSet(Docs) /\ IsFiniteSet(Zlibs) /\ Cardinality(Zlibs) >= Cardinality(Docs)

VARIABLES
    pool,        \* gzipPool
    made,        \* the zlib streams made so far
    zlib,        \* of a zlib stream: its listeners, what it was given, who flushes, whether it is destroyed
    pump,        \* of a document: where its pump is
    using,       \* its zlib stream
    cancelled, broken, released,      \* the variables of one gzipStream
    read,        \* chunks its reader was given
    source,      \* "open", "returned" (cancelled through the reader) or "failed"
    queue, taken,                     \* what the answer holds, and what its client took of it
    answer       \* "unasked", "open", "closed", "errored", "cancelled"; or "cut", the process gone

streams == <<pool, made, zlib>>
locals == <<using, cancelled, broken, released>>
pumpVars == <<streams, pump, locals, read, source, queue, taken, answer>>

NoZlib == [listeners |-> {}, input |-> <<>>, flush |-> None, destroyed |-> FALSE]

PumpInit ==
    /\ pool = <<>> /\ made = {}
    /\ zlib = [z \in Zlibs |-> NoZlib]
    /\ pump = [d \in Docs |-> "none"]
    /\ using = [d \in Docs |-> None]
    /\ cancelled = [d \in Docs |-> FALSE]
    /\ broken = [d \in Docs |-> FALSE]
    /\ released = [d \in Docs |-> FALSE]
    /\ read = [d \in Docs |-> 0]
    /\ source = [d \in Docs |-> "open"]
    /\ queue = [d \in Docs |-> <<>>]
    /\ taken = [d \in Docs |-> <<>>]
    /\ answer = [d \in Docs |-> "unasked"]

Chunk(d, n) == [doc |-> d, n |-> n]
Destroyed(d) == zlib[using[d]].destroyed
Pumping == {"top", "parked", "woken", "reading", "draining"}

\* activeGzipPumps: a flush that is on its way is not counted.
Pumps == {d \in Docs : pump[d] \in Pumping}

\* acquireGzip, and the listeners of one answer on it.
Acquires(d, z) ==
    /\ IF pool = <<>> THEN z \in Zlibs \ made /\ made' = made \cup {z} /\ UNCHANGED pool
                      ELSE z = Last(pool) /\ pool' = Front(pool) /\ UNCHANGED made
    /\ zlib' = [zlib EXCEPT ![z].listeners = @ \cup {d}]
    /\ using' = [using EXCEPT ![d] = z]

\* releaseGzip, or the end of a stream whose state nobody knows: its listeners
\* are off, and whoever waits for a drain is let go.
\* slip: the listeners stay on a stream that goes back to the pool.
KeptListeners(z, d) == zlib[z].listeners
Listeners(z, d) == zlib[z].listeners \ {d}

Cleanup(d, keeps) ==
    LET z == using[d]
        pools == keeps /\ ~zlib[z].destroyed /\ Len(pool) < PoolMax
    IN IF released[d] THEN UNCHANGED <<streams, broken, released>>
       ELSE /\ released' = [released EXCEPT ![d] = TRUE]
            /\ broken' = [broken EXCEPT ![d] = TRUE]
            /\ zlib' = [zlib EXCEPT ![z] = [listeners |-> Listeners(z, d), input |-> <<>>, flush |-> None,
                                             destroyed |-> ~pools]]
            /\ pool' = IF pools THEN Append(pool, z) ELSE pool
            /\ UNCHANGED made

Abandons(d) == pump' = [pump EXCEPT ![d] = "over"] /\ Cleanup(d, FALSE)
Moves(d, to) == pump' = [pump EXCEPT ![d] = to] /\ UNCHANGED <<streams, broken, released>>

Start(d) ==
    /\ answer[d] = "unasked"
    /\ \E z \in Zlibs : Acquires(d, z)
    /\ pump' = [pump EXCEPT ![d] = "top"]
    /\ answer' = [answer EXCEPT ![d] = "open"]
    /\ UNCHANGED <<cancelled, broken, released, read, source, queue, taken>>

-----------------------------------------------------------------------------
\* The pump.

\* desiredSize of a stream with the default high-water mark.
Full(d) == queue[d] # <<>>

Parks(d) ==
    /\ pump[d] = "top" /\ ~cancelled[d] /\ ~Destroyed(d) /\ Full(d)
    /\ Moves(d, "parked")
    /\ UNCHANGED <<using, cancelled, read, source, queue, taken, answer>>

GoesOn(d) ==
    /\ pump[d] = "woken" \/ (pump[d] = "top" /\ (cancelled[d] \/ Destroyed(d) \/ ~Full(d)))
    /\ IF cancelled[d] \/ Destroyed(d) THEN Abandons(d) ELSE Moves(d, "reading")
    /\ UNCHANGED <<using, cancelled, read, source, queue, taken, answer>>

\* write() says whether zlib wants more.
Reads(d) ==
    /\ pump[d] = "reading" /\ source[d] = "open" /\ read[d] < Length
    /\ read' = [read EXCEPT ![d] = @ + 1]
    /\ IF Destroyed(d) THEN Abandons(d)
       ELSE LET z == using[d]
            IN /\ zlib' = [zlib EXCEPT ![z].input = Append(@, Chunk(d, read'[d]))]
               /\ pump' = [pump EXCEPT ![d] = IF Len(zlib[z].input) + 1 < Buffer THEN "top" ELSE "draining"]
               /\ UNCHANGED <<pool, made, broken, released>>
    /\ UNCHANGED <<using, cancelled, source, queue, taken, answer>>

\* The trailer is asked for, and the pump is not one of those in flight any more.
ReadsEnd(d) ==
    /\ pump[d] = "reading" /\ (source[d] = "returned" \/ (source[d] = "open" /\ read[d] = Length))
    /\ IF cancelled[d] \/ Destroyed(d) THEN Abandons(d)
       ELSE /\ pump' = [pump EXCEPT ![d] = "flushing"]
            /\ zlib' = [zlib EXCEPT ![using[d]].flush = d]
            /\ UNCHANGED <<pool, made, broken, released>>
    /\ UNCHANGED <<using, cancelled, read, source, queue, taken, answer>>

\* The render fails under the reader: the listeners are off by the time the
\* destroyed stream tells its error, in a turn of its own. That nobody hears it
\* is nothing to one runtime, and to another the end of the process.
ReadFails(d) ==
    /\ pump[d] = "reading" /\ source[d] = "open" /\ read[d] < Length
    /\ source' = [source EXCEPT ![d] = "failed"]
    /\ Abandons(d)
    /\ UNCHANGED <<using, cancelled, read, queue, taken, answer>>

NobodyHears(d) ==
    /\ source[d] = "failed" /\ answer[d] = "open"
    /\ answer' = [e \in Docs |-> IF answer[e] \in {"unasked", "open"} THEN "cut" ELSE answer[e]]
    /\ pump' = [e \in Docs |-> "over"]
    /\ pool' = <<>>
    /\ zlib' = [z \in Zlibs |-> [zlib[z] EXCEPT !.destroyed = TRUE]]
    /\ UNCHANGED <<made, locals, read, source, queue, taken>>

\* The race between the drain and the end of the stream, settled by cleanup()
\* or by the stream's own close.
LetGo(d) == broken[d] \/ Destroyed(d)

StopsWaiting(d) ==
    /\ pump[d] = "draining" /\ LetGo(d)
    /\ IF Destroyed(d) THEN Abandons(d) ELSE Moves(d, "top")
    /\ UNCHANGED <<using, cancelled, read, source, queue, taken, answer>>

-----------------------------------------------------------------------------
\* zlib: a chunk goes to whoever listens; the buffer empty, it drains.

Deflates(z) ==
    LET rest == Tail(zlib[z].input)
    IN /\ ~zlib[z].destroyed /\ zlib[z].input # <<>>
       /\ zlib' = [zlib EXCEPT ![z].input = rest]
       /\ queue' = [d \in Docs |-> IF d \in zlib[z].listeners /\ ~cancelled[d] THEN Append(queue[d], Head(zlib[z].input))
                                                                     ELSE queue[d]]
       /\ pump' = [d \in Docs |-> IF using[d] = z /\ ~released[d] /\ pump[d] = "draining" /\ rest = <<>>
                                  THEN "top" ELSE pump[d]]
       /\ UNCHANGED <<pool, made, locals, read, source, taken, answer>>

\* The trailer, then the callback of the flush.
Finishes(z) ==
    LET d == zlib[z].flush
    IN /\ ~zlib[z].destroyed /\ zlib[z].input = <<>> /\ d # None
       /\ pump' = [pump EXCEPT ![d] = "over"]
       /\ answer' = IF cancelled[d] THEN answer ELSE [answer EXCEPT ![d] = "closed"]
       /\ queue' = IF cancelled[d] THEN queue ELSE [queue EXCEPT ![d] = Append(@, Chunk(d, Length + 1))]
       /\ Cleanup(d, ~cancelled[d])
       /\ UNCHANGED <<using, cancelled, read, source, taken>>

\* Zlib destroys itself, and tells whoever listens.
Breaks(z) ==
    \E to \in zlib[z].listeners :
       /\ ~zlib[z].destroyed /\ zlib[z].input # <<>> /\ zlib[z].flush = None
       /\ zlib' = [zlib EXCEPT ![z].destroyed = TRUE]
       /\ broken' = [broken EXCEPT ![to] = TRUE]
       /\ answer' = IF cancelled[to] THEN answer ELSE [answer EXCEPT ![to] = "errored"]
       /\ queue' = [queue EXCEPT ![to] = <<>>]
       /\ UNCHANGED <<pool, made, pump, using, cancelled, released, read, source, taken>>

-----------------------------------------------------------------------------
\* The client. A read that leaves room is a pull().

Woken(d) == IF pump[d] = "parked" THEN "woken" ELSE pump[d]

Take(d) ==
    /\ answer[d] \in {"open", "closed"} /\ queue[d] # <<>>
    /\ taken' = [taken EXCEPT ![d] = Append(@, Head(queue[d]))]
    /\ queue' = [queue EXCEPT ![d] = Tail(@)]
    /\ pump' = [pump EXCEPT ![d] = IF Len(queue[d]) = 1 THEN Woken(d) ELSE @]
    /\ UNCHANGED <<streams, locals, read, source, answer>>

Cancel(d) ==
    /\ answer[d] = "open"
    /\ answer' = [answer EXCEPT ![d] = "cancelled"]
    /\ cancelled' = [cancelled EXCEPT ![d] = TRUE]
    /\ pump' = [pump EXCEPT ![d] = CASE @ = "flushing" -> "over" [] OTHER -> Woken(d)]
    /\ Cleanup(d, FALSE)
    /\ source' = [source EXCEPT ![d] = IF @ = "open" THEN "returned" ELSE @]
    /\ queue' = [queue EXCEPT ![d] = <<>>]
    /\ UNCHANGED <<using, read, taken>>

-----------------------------------------------------------------------------
PumpStep(d) == Parks(d) \/ GoesOn(d) \/ Reads(d) \/ ReadsEnd(d) \/ StopsWaiting(d)
ZlibStep(z) == Deflates(z) \/ Finishes(z)
PumpNext ==
    \/ \E d \in Docs : Start(d) \/ PumpStep(d) \/ ReadFails(d) \/ NobodyHears(d) \/ Take(d) \/ Cancel(d)
    \/ \E z \in Zlibs : ZlibStep(z) \/ Breaks(z)

\* The event loop comes to every pump, zlib and react answer, and a client that
\* stays reads what it is sent.
PumpFairness ==
    /\ \A d \in Docs : WF_pumpVars(PumpStep(d)) /\ WF_pumpVars(Take(d))
    /\ \A z \in Zlibs : WF_pumpVars(ZlibStep(z))

PumpSpec == PumpInit /\ [][PumpNext]_pumpVars /\ PumpFairness

-----------------------------------------------------------------------------
PumpTypeOK ==
    /\ pool \in Seq(made) /\ made \subseteq Zlibs
    /\ zlib \in [Zlibs -> [listeners : SUBSET Docs, input : Seq([doc : Docs, n : 1 .. Length]),
                           flush : Docs \cup {None}, destroyed : BOOLEAN]]
    /\ pump \in [Docs -> Pumping \cup {"none", "flushing", "over"}]
    /\ using \in [Docs -> Zlibs \cup {None}]
    /\ \A v \in {cancelled, broken, released} : v \in [Docs -> BOOLEAN]
    /\ read \in [Docs -> 0 .. Length]
    /\ source \in [Docs -> {"open", "returned", "failed"}]
    /\ answer \in [Docs -> {"unasked", "open", "closed", "errored", "cancelled", "cut"}]

\* A document is its own, from its head on and in order, and one that closed is
\* whole to its trailer, on whichever stream of the pool it went (compress.ts
\* 681: "or the second document would replay into the first document's
\* controller").
Whole(d) == [n \in 1 .. Length + 1 |-> Chunk(d, n)]
DocumentsAreWhole ==
    \A d \in Docs :
        /\ IsPrefix(taken[d] \o queue[d], Whole(d))
        /\ answer[d] = "closed" => taken[d] \o queue[d] = Whole(d)

\* A stream in the pool has no listener, no input, and nobody at work on it.
PoolIsIdle ==
    \A i \in DOMAIN pool :
        /\ zlib[pool[i]] = NoZlib
        /\ \A d \in Docs : using[d] = pool[i] => released[d] /\ d \notin Pumps

\* A client that stalls stops the render: what react was asked for is at most
\* the chunk in hand, what zlib buffers and what it had put in the queue.
StalledClientsStopTheRender ==
    \A d \in Docs : answer[d] = "open" => read[d] <= Len(taken[d]) + 2 * Buffer + 1

\* No pump is left behind: not by a client that went while zlib was full or the
\* queue was, not by a render that failed (compress.ts 647: "a number that must
\* return to zero"). A zlib stream that failed under a parked pump leaves it.
PumpsEnd == PumpFairness => \A d \in Docs : d \in Pumps ~> d \notin Pumps \/ answer[d] = "errored"

\* Whoever waits for a document is told how it ended, by its own answer: the
\* net that server.ts 691-694 names ("a body failing mid-stream above all") is
\* under what the pump does not tell.
AnswersEnd == \A d \in Docs : answer[d] = "open" ~> answer[d] \in {"closed", "errored", "cancelled"}

\* The pool is safe to share: documents are whole, an idle stream is idle, and a
\* client that stalls stops its own render only.
PumpsAreSafe == PumpTypeOK /\ DocumentsAreWhole /\ PoolIsIdle /\ StalledClientsStopTheRender
==============================================================================
