------------------------------- MODULE WsSocket -------------------------------
(***************************************************************************)
(* A websocket after its handshake (websocket_conn.go, type wsConn): the   *)
(* goroutine that reads and serves, the one that writes, and the relay     *)
(* that sends, which holds the relay's lock and so is one at a time.       *)
(*                                                                         *)
(* A step is what happens between two points where another goroutine can   *)
(* be noticed: a critical section of queueMu or of the deadline mutex, a   *)
(* look at quit, a write.  Frames are numbered as they are sent; a ping,   *)
(* the pong of a peer's ping and a message's content are not kept.  Time   *)
(* is the deadline of the connection: it passes, or the peer is heard.     *)
(* drain, which reads and drops until the peer is quiet, changes nothing   *)
(* here but when the connection closes.                                    *)
(***************************************************************************)
EXTENDS Naturals, Sequences, Functions

CONSTANTS
  MaxFrames,    (* bound on the frames sent                                 *)
  Size,         (* their sizes in bytes                                     *)
  QueueFrames,  (* wsQueueFrames                                            *)
  QueueBytes    (* wsQueueBytes                                             *)

ASSUME FramesAssumption ==
  /\ MaxFrames \in Nat
  /\ Size \in [1 .. MaxFrames -> Nat \ {0}]
  /\ QueueFrames \in Nat
  /\ QueueBytes \in Nat

VARIABLES
  accepted,     (* history: how many frames were queued                     *)
  queue,        (* the frames that wait for the writer                      *)
  batch,        (* what the writer took and has not written                 *)
  queued,       (* bytes not yet written, as counted                        *)
  pending,      (* frames not yet written, as counted                       *)
  wake,         (* the writer's wake token is in its channel                *)
  pong,         (* the pong slot is taken                                   *)
  ending,       (* "open" until quit closes, then what closeFrame says      *)
  wire,         (* what the peer was sent: data frames, then a close frame  *)
  late,         (* history: frames whose write began after the ending       *)
  sender,       (* where the send stands                                    *)
  writer,       (* where writeLoop stands                                   *)
  heard,        (* writeLoop has set its shutdown channel to nil            *)
  reader,       (* where serve stands: it runs readLoop                     *)
  deadline,     (* the read deadline of the connection                      *)
  closed,       (* the connection is closed                                 *)
  stopping      (* the server's shutdown latch has tripped                  *)

sendVars == <<accepted, queue, queued, pending>>
writeVars == <<batch, wire, late, writer, heard>>
socketVars == <<sendVars, wake, pong, ending, writeVars, sender, reader, deadline,
          closed, stopping>>

\* "nil" ends the socket without a close frame
CloseFrames == {"refused", "try again later", "going away", "violation", "echo"}
Endings == {"open", "nil"} \cup CloseFrames

Ended == ending # "open"

\* a socket refused at its handshake is closed before it is served
SocketInit ==
  /\ accepted = 0 /\ queue = <<>> /\ batch = <<>>
  /\ queued = 0 /\ pending = 0
  /\ wake = FALSE /\ pong = FALSE
  /\ ending \in {"open", "refused"}
  /\ wire = [data |-> <<>>, close |-> "none"]
  /\ late = 0
  /\ sender = "idle" /\ writer = "top" /\ heard = FALSE /\ reader = "arming"
  /\ deadline = "none" /\ closed = FALSE /\ stopping = FALSE

\* finish: once decides, and quit closes with it
Finish(how) == ending' = IF Ended THEN ending ELSE how

-----------------------------------------------------------------------------
(* send, called with the relay's lock held: it never waits.                *)

SendLooks ==
  /\ sender = "idle" /\ accepted < MaxFrames
  /\ ~Ended
  /\ sender' = "queueing"
  /\ UNCHANGED <<sendVars, wake, pong, ending, writeVars, reader, deadline,
                 closed, stopping>>

\* slip: the size of the frame itself is left out
FullBefore(n) == pending >= QueueFrames \/ queued > QueueBytes

Full(n) == pending >= QueueFrames \/ queued + Size[n] > QueueBytes

\* slip: what does not fit is skipped, as the event streams do
SkipsWhatOverflows(n) ==
  /\ IF Full(n)
     THEN /\ accepted' = n /\ sender' = "idle"
          /\ UNCHANGED <<queue, queued, pending, ending>>
     ELSE /\ accepted' = n /\ sender' = "waking"
          /\ queue' = Append(queue, n)
          /\ queued' = queued + Size[n] /\ pending' = pending + 1
          /\ UNCHANGED ending

\* the socket that has fallen behind is closed, nothing is skipped
Queues(n) ==
  IF Full(n)
  THEN /\ Finish("try again later")
       /\ sender' = "idle"
       /\ UNCHANGED sendVars
  ELSE /\ accepted' = n
       /\ queue' = Append(queue, n)
       /\ queued' = queued + Size[n]
       /\ pending' = pending + 1
       /\ sender' = "waking"
       /\ UNCHANGED ending

SendQueues ==
  /\ sender = "queueing"
  /\ Queues(accepted + 1)
  /\ UNCHANGED <<wake, pong, writeVars, reader, deadline, closed, stopping>>

\* slip: the writer is only woken for the first frame of a socket
WokenAtFirst == accepted = 1

\* one token is enough: the writer takes the whole queue
Woken == TRUE

SendWakes ==
  /\ sender = "waking"
  /\ wake' = Woken
  /\ sender' = "idle"
  /\ UNCHANGED <<sendVars, pong, ending, writeVars, reader, deadline, closed,
                 stopping>>

-----------------------------------------------------------------------------
(* writeLoop.                                                              *)

\* what a write leaves: a failed one closes the connection and ends
WriteFails ==
  /\ closed' = TRUE
  /\ Finish("nil")

Counted == late' = IF Ended THEN late + 1 ELSE late

\* a ping or a pong
Control ==
  /\ Counted
  /\ writer' = "top"
  /\ \/ ~closed /\ UNCHANGED <<closed, ending>>
     \/ WriteFails
  /\ UNCHANGED wire

WriterLooks ==
  /\ writer = "top"
  /\ writer' = IF Ended THEN "farewell" ELSE "selecting"
  /\ UNCHANGED <<sendVars, wake, pong, ending, batch, wire, late, sender,
                 heard, reader, deadline, closed, stopping>>

WriterSeesQuit ==
  /\ writer = "selecting" /\ Ended
  /\ writer' = "top"
  /\ UNCHANGED <<sendVars, wake, pong, ending, batch, wire, late, sender,
                 heard, reader, deadline, closed, stopping>>

GoesAway == Finish("going away")

WriterHearsShutdown ==
  /\ writer = "selecting" /\ stopping /\ ~heard
  /\ GoesAway
  /\ heard' = TRUE
  /\ writer' = "top"
  /\ UNCHANGED <<sendVars, wake, pong, batch, wire, late, sender, reader,
                 deadline, closed, stopping>>

WriterPongs ==
  /\ writer = "selecting" /\ pong
  /\ pong' = FALSE
  /\ Control
  /\ UNCHANGED <<sendVars, wake, batch, sender, heard, reader, deadline, stopping>>

WriterPings ==
  /\ writer = "selecting"
  /\ Control
  /\ UNCHANGED <<sendVars, wake, pong, batch, sender, heard, reader, deadline,
                 stopping>>

\* what was taken still counts until it is written
Taken == UNCHANGED <<queued, pending>>

\* take
WriterTakes ==
  /\ writer = "selecting" /\ wake
  /\ wake' = FALSE
  /\ batch' = queue /\ queue' = <<>>
  /\ Taken
  /\ writer' = "bursting"
  /\ UNCHANGED <<accepted, pong, ending, wire, late, sender, heard, reader,
                 deadline, closed, stopping>>

\* one frame of the batch, or the batch is done
WriterBursts ==
  /\ writer = "bursting"
  /\ IF batch = <<>>
     THEN writer' = "top" /\ UNCHANGED <<wire, late, closed, ending>>
     ELSE /\ Counted
          /\ \/ /\ ~closed
                /\ wire' = [wire EXCEPT !.data = Append(@, Head(batch))]
                /\ writer' = "counting"
                /\ UNCHANGED <<closed, ending>>
             \/ /\ WriteFails
                /\ writer' = "top"
                /\ UNCHANGED wire
  /\ UNCHANGED <<sendVars, wake, pong, batch, sender, heard, reader, deadline,
                 stopping>>

\* a close decided in the middle of a burst does not wait for the rest of it
GoesOn == ~Ended

\* wrote, and the look at quit after it
WriterCounts ==
  /\ writer = "counting"
  /\ queued' = queued - Size[Head(batch)]
  /\ pending' = pending - 1
  /\ batch' = IF GoesOn THEN Tail(batch) ELSE <<>>
  /\ writer' = IF GoesOn THEN "bursting" ELSE "top"
  /\ UNCHANGED <<accepted, queue, wake, pong, ending, wire, late, sender, heard,
                 reader, deadline, closed, stopping>>

\* the close frame, if the ending has one; a failed write is not looked at
WriterSaysGoodbye ==
  /\ writer = "farewell"
  /\ \/ /\ ending \in CloseFrames /\ ~closed
        /\ wire' = [wire EXCEPT !.close = ending]
     \/ UNCHANGED wire
  /\ writer' = "cutting"
  /\ UNCHANGED <<sendVars, wake, pong, ending, batch, late, sender, heard,
                 reader, deadline, closed, stopping>>

\* the peer has wsCloseGrace to answer; written closes
WriterCuts ==
  /\ writer = "cutting"
  /\ deadline' = "grace"
  /\ writer' = "over"
  /\ UNCHANGED <<sendVars, wake, pong, ending, batch, wire, late, sender, heard,
                 reader, closed, stopping>>

-----------------------------------------------------------------------------
(* serve, and the readLoop it runs.                                        *)

\* an ended socket keeps the deadline that was cut short for it
Long == ~Ended

ReaderArms ==
  /\ reader = "arming"
  /\ deadline' = IF Long THEN "read" ELSE deadline
  /\ reader' = "reading"
  /\ UNCHANGED <<sendVars, wake, pong, ending, writeVars, sender, closed, stopping>>

DeadlinePasses ==
  /\ deadline = "grace"
  /\ deadline' = "passed"
  /\ UNCHANGED <<sendVars, wake, pong, ending, writeVars, sender, reader, closed,
                 stopping>>

\* what the peer sends; a message that crosses the close is not relayed
ReaderReads ==
  /\ reader = "reading" /\ ~closed /\ deadline # "passed"
  /\ \/ /\ reader' = IF Ended THEN "arming" ELSE "relaying"
        /\ UNCHANGED <<pong, ending>>
     \/ /\ pong' = TRUE
        /\ reader' = "arming"
        /\ UNCHANGED ending
     \/ /\ Finish("echo") \/ Finish("violation")
        /\ reader' = "ended"
        /\ UNCHANGED pong
  /\ UNCHANGED <<sendVars, wake, writeVars, sender, deadline, closed, stopping>>

\* the deadline passed, the peer is gone, or this side closed
ReaderFails ==
  /\ reader = "reading"
  /\ reader' = "ended"
  /\ UNCHANGED <<sendVars, wake, pong, ending, writeVars, sender, deadline,
                 closed, stopping>>

\* onMessage: the relay's fromClient, and the app's CanPublish in it
HandlerReturns ==
  /\ reader = "relaying"
  /\ reader' = "arming"
  /\ UNCHANGED <<sendVars, wake, pong, ending, writeVars, sender, deadline,
                 closed, stopping>>

\* contained: the socket ends, its writer is not waited for
HandlerPanics ==
  /\ reader = "relaying"
  /\ Finish("nil")
  /\ closed' = TRUE
  /\ reader' = "left"
  /\ UNCHANGED <<sendVars, wake, pong, writeVars, sender, deadline, stopping>>

ServeFinishes ==
  /\ reader = "ended"
  /\ Finish("nil")
  /\ reader' = "waiting"
  /\ UNCHANGED <<sendVars, wake, pong, writeVars, sender, deadline, closed,
                 stopping>>

\* the writer is over: the connection closes, and done leaves the relay
ServeCloses ==
  /\ reader = "waiting" /\ writer = "over"
  /\ closed' = TRUE
  /\ reader' = "left"
  /\ UNCHANGED <<sendVars, wake, pong, ending, writeVars, sender, deadline,
                 stopping>>

Shutdown ==
  /\ ~stopping
  /\ stopping' = TRUE
  /\ UNCHANGED <<sendVars, wake, pong, ending, writeVars, sender, reader,
                 deadline, closed>>

Sends == SendLooks \/ SendQueues \/ SendWakes

Writes ==
  \/ WriterLooks \/ WriterSeesQuit \/ WriterHearsShutdown \/ WriterPongs
  \/ WriterPings \/ WriterTakes \/ WriterBursts \/ WriterCounts
  \/ WriterSaysGoodbye \/ WriterCuts

Serves ==
  \/ ReaderArms \/ ReaderReads \/ ReaderFails \/ HandlerReturns
  \/ HandlerPanics \/ ServeFinishes \/ ServeCloses

SocketNext == Sends \/ Writes \/ Serves \/ DeadlinePasses \/ Shutdown

SocketSpec == SocketInit /\ [][SocketNext]_socketVars

(***************************************************************************)
(* Every write is bounded by wsWriteTimeout and every read by the deadline *)
(* of the connection; a check of the app that waits on the socket's        *)
(* context is let go when the socket ends; and of the ready cases of a     *)
(* select one is chosen at random, so none is passed over forever.  The    *)
(* peer need not send, nor the relay.                                      *)
(***************************************************************************)
SocketFairness ==
  /\ WF_socketVars(SendQueues \/ SendWakes)
  /\ WF_socketVars(WriterLooks \/ WriterBursts \/ WriterCounts
               \/ WriterSaysGoodbye \/ WriterCuts \/ WriterSeesQuit)
  /\ SF_socketVars(WriterTakes) /\ SF_socketVars(WriterHearsShutdown)
  /\ WF_socketVars(ReaderArms) /\ WF_socketVars(DeadlinePasses)
  /\ WF_socketVars((deadline = "passed" \/ closed) /\ ReaderFails)
  /\ WF_socketVars(Ended /\ HandlerReturns)
  /\ WF_socketVars(ServeFinishes) /\ WF_socketVars(ServeCloses)

-----------------------------------------------------------------------------
(* Properties.                                                             *)

SocketTypeOK ==
  /\ accepted \in 0 .. MaxFrames
  /\ queue \in Seq(1 .. MaxFrames) /\ batch \in Seq(1 .. MaxFrames)
  /\ queued \in Nat /\ pending \in Nat
  /\ wake \in BOOLEAN /\ pong \in BOOLEAN
  /\ ending \in Endings
  /\ wire.data \in Seq(1 .. MaxFrames) /\ wire.close \in CloseFrames \cup {"none"}
  /\ late \in Nat
  /\ sender \in {"idle", "queueing", "waking"}
  /\ writer \in {"top", "selecting", "bursting", "counting", "farewell",
                 "cutting", "over"}
  /\ heard \in BOOLEAN
  /\ reader \in {"arming", "reading", "relaying", "ended", "waiting", "left"}
  /\ deadline \in {"none", "read", "grace", "passed"}
  /\ closed \in BOOLEAN /\ stopping \in BOOLEAN

Waiting == queue \o batch

\* What a socket holds for a peer that does not read is bounded, in frames and
\* in bytes, with what the writer has taken and not yet written.
BacklogBounded ==
  /\ Len(Waiting) <= QueueFrames
  /\ SumFunctionOnSet([i \in DOMAIN Waiting |-> Size[Waiting[i]]], DOMAIN Waiting)
       <= QueueBytes

\* A close that was decided goes out before what is queued: one write at most
\* begins after it.
FewAfterEnding == late <= 1

\* a send that looked before the ending still queues its frame
Over == Ended /\ sender # "queueing"

Channel == INSTANCE WsChannel
  WITH Limit <- QueueFrames, delivered <- wire.data, over <- Over

\* A socket implements the channel the relay counts on: in order, no frame
\* skipped in silence, bounded, or ended.
KeepsOrder == Channel!Spec

\* A socket that ended leaves the relay and closes its connection, the peer that
\* never answers its close included: once the writer cut the read deadline
\* short nothing restores it.
EndedSocketsLeave == SocketFairness => (Ended ~> reader = "left")

\* A frame that was accepted goes out, or the socket ends: no wake-up is lost
\* between the queue's lock and the token left after it.
FramesGoOut ==
  SocketFairness => \A n \in 1 .. MaxFrames : accepted >= n ~> Len(wire.data) >= n \/ Ended

\* A peer that does not read costs no more than its bounds, and does not put
\* off the close that was decided because of it.
SlowPeersAreBounded == SocketTypeOK /\ BacklogBounded /\ FewAfterEnding

\* Nothing waits for ever: neither a frame that was accepted nor a socket that
\* ended.
SocketsMove == EndedSocketsLeave /\ FramesGoOut
=============================================================================
