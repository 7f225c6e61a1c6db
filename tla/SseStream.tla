------------------------------ MODULE SseStream ------------------------------
(***************************************************************************)
(* One open event stream (sse.go, type SSEStream) shared by the goroutines *)
(* of a handler: some write, one or more close it, and its watcher ends it *)
(* when the client goes away or the server stops.                          *)
(*                                                                         *)
(* A write takes the stream's mutex, looks whether the stream was closed,  *)
(* and writes; Close takes no lock, so that it interrupts and waits for    *)
(* nobody.  A goroutine may also wait on Done and write when it fires.     *)
(***************************************************************************)
EXTENDS Naturals, FiniteSets

CONSTANTS
  Writers,      (* goroutines that call Send or Ping                        *)
  Closers,      (* goroutines that call Close                               *)
  Nobody        (* the mutex is free                                        *)

ASSUME NobodyAssumption == Nobody \notin Writers

VARIABLES
  lock,         (* the stream's mutex                                       *)
  stored,       (* state.closed                                             *)
  done,         (* the latch's channel is closed                            *)
  write,        (* each writer: where its call stands, what it answered     *)
  close,        (* the statements each Close has run                        *)
  watcher,      (* the watcher goroutine: "none" with nothing to watch      *)
  gone,         (* the request's context is cancelled, or the latch tripped *)
  barred,       (* history: writers that began after a Close returned, or   *)
                (* after Done had fired and only a Close could have fired it *)
  landed        (* history: the barred writers whose frame was written      *)

streamVars == <<lock, stored, done, write, close, watcher, gone, barred, landed>>

StreamInit ==
  /\ lock = Nobody /\ stored = FALSE /\ done = FALSE
  /\ write = [w \in Writers |-> "out"]
  /\ close = [c \in Closers |-> 0]
  /\ watcher \in {"none", "watching"}
  /\ gone = FALSE /\ barred = {} /\ landed = {}

\* only a Close can have ended the stream: nothing else did
OnlyClosed == done /\ ~gone

Returned == \E c \in Closers : close[c] = 2

-----------------------------------------------------------------------------
(* Send and Ping.                                                          *)

WriteBegins(w) ==
  /\ write[w] = "out"
  /\ write' = [write EXCEPT ![w] = "begun"]
  /\ barred' = IF Returned \/ OnlyClosed THEN barred \cup {w} ELSE barred
  /\ UNCHANGED <<lock, stored, done, close, watcher, gone, landed>>

WriteLocks(w) ==
  /\ write[w] = "begun" /\ lock = Nobody
  /\ lock' = w
  /\ write' = [write EXCEPT ![w] = "locked"]
  /\ UNCHANGED <<stored, done, close, watcher, gone, barred, landed>>

Unlocked(w) == Nobody

\* only Close refuses writes: ErrStreamClosed, or on to the connection
WriteLooks(w) ==
  /\ write[w] = "locked"
  /\ write' = [write EXCEPT ![w] = IF stored THEN "refused" ELSE "writing"]
  /\ lock' = IF stored THEN Unlocked(w) ELSE lock
  /\ UNCHANGED <<stored, done, close, watcher, gone, barred, landed>>

\* the frame and its flush, or what the connection reported
WriteLands(w) ==
  /\ write[w] = "writing"
  /\ \/ /\ write' = [write EXCEPT ![w] = "written"]
        /\ landed' = IF w \in barred THEN landed \cup {w} ELSE landed
     \/ /\ write' = [write EXCEPT ![w] = "failed"]
        /\ UNCHANGED landed
  /\ lock' = Nobody
  /\ UNCHANGED <<stored, done, close, watcher, gone, barred>>

-----------------------------------------------------------------------------
(* Close, and the watcher.                                                 *)

\* slip: Done fires first, and whoever it wakes may still write
TripsFirst == <<"trip", "store">>

\* writes are refused before Done fires
CloseOrder == <<"store", "trip">>

\* the n-th statement of a Close
CloseDoes(c, n) ==
  /\ close[c] = n - 1
  /\ close' = [close EXCEPT ![c] = n]
  /\ stored' = (stored \/ CloseOrder[n] = "store")
  /\ done' = (done \/ CloseOrder[n] = "trip")
  /\ UNCHANGED <<lock, write, watcher, gone, barred, landed>>

ClientGoes ==
  /\ ~gone
  /\ gone' = TRUE
  /\ UNCHANGED <<lock, stored, done, write, close, watcher, barred, landed>>

Seen == gone \/ done

WatcherEnds ==
  /\ watcher = "watching" /\ Seen
  /\ watcher' = "over"
  /\ done' = TRUE
  /\ UNCHANGED <<lock, stored, write, close, gone, barred, landed>>

StreamNext ==
  \/ \E w \in Writers : WriteBegins(w) \/ WriteLocks(w) \/ WriteLooks(w) \/ WriteLands(w)
  \/ \E c \in Closers : CloseDoes(c, 1) \/ CloseDoes(c, 2)
  \/ ClientGoes \/ WatcherEnds

StreamSpec == StreamInit /\ [][StreamNext]_streamVars

\* the watcher waits on nothing but the stream and its client
StreamFairness == WF_streamVars(WatcherEnds)

-----------------------------------------------------------------------------
(* Properties.                                                             *)

StreamTypeOK ==
  /\ lock \in {w \in Writers : write[w] \in {"locked", "writing"}} \cup {Nobody}
  /\ stored \in BOOLEAN /\ done \in BOOLEAN
  /\ write \in [Writers -> {"out", "begun", "locked", "writing", "refused",
                            "written", "failed"}]
  /\ close \in [Closers -> 0 .. 2]
  /\ watcher \in {"none", "watching", "over"}
  /\ gone \in BOOLEAN
  /\ barred \in SUBSET Writers /\ landed \in SUBSET Writers

\* Once a Close has returned, or has woken a goroutine through Done, no write
\* that begins reaches the client: a frame never follows the close.
NothingSlipsBehind == landed = {}

\* A stream that ended, however it ended, leaves no watcher: not even on a
\* request nothing will ever cancel.
WatchersLeave == StreamFairness => (done ~> watcher # "watching")

\* A stream that was closed is silent.
ClosedIsSilent == StreamTypeOK /\ NothingSlipsBehind
=============================================================================
