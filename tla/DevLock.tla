------------------------------ MODULE DevLock ------------------------------
(***************************************************************************)
(* borgo dev before its first build: the lock of the directory, read and   *)
(* then written by each session, with what another process's pid and start *)
(* say of its holder, and the three ports, each asked whether something    *)
(* answers there.                                                          *)
(***************************************************************************)
EXTENDS Naturals, FiniteSets

CONSTANTS
    Sessions,
    Directories, Dir,   \* [Sessions -> Directories]
    Wanted,             \* [Sessions -> the front and api ports of its environment]
    SparePorts,        \* ports the render service may be given
    NoFile, Torn, NoSession

ASSUME DevLockAssumption ==
    /\ Dir \in [Sessions -> Directories]
    /\ {NoFile, Torn, NoSession} \cap Sessions = {}

VARIABLES
    lock,       \* [Directories -> the session of the text, Torn, or NoFile]
    lockAt,         \* [Sessions -> where it is]
    port,       \* [Sessions -> its render port]
    alive,      \* [Sessions -> "alive", "gone", or "reused": its pid is a stranger's]
    answering,  \* the sessions whose processes listen
    met         \* history: a session looked where another one had looked and not yet left its mark

lockfileVars == <<lock, lockAt, port, alive, answering, met>>

Places == {"ready", "picked", "taking", "writing", "asking", "building", "running", "leaving", "dropping", "ended"}

DevLockInit ==
    /\ lock = [d \in Directories |-> NoFile]
    /\ lockAt = [s \in Sessions |-> "ready"]
    /\ port = [s \in Sessions |-> NoSession]
    /\ alive = [s \in Sessions |-> "alive"]
    /\ answering = {} /\ met = FALSE

LockMoves(s, from, to) == alive[s] = "alive" /\ lockAt[s] = from /\ lockAt' = [lockAt EXCEPT ![s] = to]
Mine(s) == lock[Dir[s]] = s
PortsOf(s) == Wanted[s] \cup {port[s]}
InUse == UNION {PortsOf(s) : s \in answering}

\* A named port or a free one: whoever answers there is asked of later.
PickRenderPort(s) ==
    /\ LockMoves(s, "ready", "picked")
    /\ \E p \in SparePorts : port' = [port EXCEPT ![s] = p]
    /\ UNCHANGED <<lock, alive, answering, met>>

\* A live pid is the holder unless the start in the lock says otherwise; a
\* start that cannot be told keeps the answer that refuses.
\* slip: what cannot be told is a stranger.
ReusedIfUnknown(o) == BOOLEAN
IsReused(o) == IF alive[o] = "reused" THEN BOOLEAN ELSE {FALSE}

\* What readDevLock may answer: held, or to be taken over.
Judgements(s) ==
    LET o == lock[Dir[s]]
    IN CASE o \in {NoFile, Torn, s} -> {"free"}
         [] alive[o] = "gone"       -> {"free"}
         [] OTHER                   -> {IF r THEN "free" ELSE "held" : r \in IsReused(o)}

\* Another session found this directory free, and its lock is not there yet.
Taken(s) == \E t \in Sessions \ {s} : Dir[t] = Dir[s] /\ lockAt[t] \in {"taking", "writing"}

ReadsLock(s) ==
    /\ \E j \in Judgements(s) :
        /\ LockMoves(s, "picked", IF j = "held" THEN "ended" ELSE "taking")
        /\ met' = (met \/ (j = "free" /\ Taken(s)))
    /\ UNCHANGED <<lock, port, alive, answering>>

\* The file is truncated, and then it is written.
OpensLock(s) ==
    /\ LockMoves(s, "taking", "writing")
    /\ lock' = [lock EXCEPT ![Dir[s]] = Torn]
    /\ UNCHANGED <<port, alive, answering, met>>

WritesLock(s) ==
    /\ LockMoves(s, "writing", "asking")
    /\ lock' = [lock EXCEPT ![Dir[s]] = s]
    /\ UNCHANGED <<port, alive, answering, met>>

\* Another session found a port of this one free, and does not answer there yet.
Claimed(s) ==
    \E t \in Sessions \ {s} : lockAt[t] = "building" /\ PortsOf(t) \cap PortsOf(s) # {}

\* The three ports are asked by answering, not by binding ...
AsksPorts(s) ==
    /\ LET free == PortsOf(s) \cap InUse = {}
       IN /\ LockMoves(s, "asking", IF free THEN "building" ELSE "leaving")
          /\ met' = (met \/ (free /\ Claimed(s)))
    /\ UNCHANGED <<lock, port, alive, answering>>

\* ... and answer once go is built and both processes are up; a port that is
\* bound by now is bound again (dev.ts 262: what windows allows).
ServesNow(s) ==
    /\ LockMoves(s, "building", "running")
    /\ answering' = answering \cup {s}
    /\ UNCHANGED <<lock, port, alive, met>>

\* A signal, or the launcher's end: the exit drops the lock, if it is ours.
Stops(s) ==
    /\ \E from \in {"writing", "asking", "building", "running"} : LockMoves(s, from, "leaving")
    /\ UNCHANGED <<lock, port, alive, answering, met>>

ReadsItsLock(s) ==
    /\ LockMoves(s, "leaving", IF Mine(s) THEN "dropping" ELSE "ended")
    /\ answering' = IF Mine(s) THEN answering ELSE answering \ {s}
    /\ UNCHANGED <<lock, port, alive, met>>

DropsLock(s) ==
    /\ LockMoves(s, "dropping", "ended")
    /\ lock' = [lock EXCEPT ![Dir[s]] = NoFile]
    /\ answering' = answering \ {s}
    /\ UNCHANGED <<port, alive, met>>

\* A hard kill leaves the lock, an ended process leaves its pid to be given out.
Dies(s) ==
    /\ alive[s] = "alive" /\ lockAt[s] # "ended"
    /\ alive' = [alive EXCEPT ![s] = "gone"]
    /\ lockAt' = [lockAt EXCEPT ![s] = "ended"]
    /\ answering' = answering \ {s}
    /\ UNCHANGED <<lock, port, met>>

EndsCleanly(s) ==
    /\ alive[s] = "alive" /\ lockAt[s] = "ended"
    /\ alive' = [alive EXCEPT ![s] = "gone"]
    /\ UNCHANGED <<lock, lockAt, port, answering, met>>

PidIsReused(s) ==
    /\ alive[s] = "gone"
    /\ alive' = [alive EXCEPT ![s] = "reused"]
    /\ UNCHANGED <<lock, lockAt, port, answering, met>>

DevLockNext ==
    \E s \in Sessions :
        \/ PickRenderPort(s) \/ ReadsLock(s) \/ OpensLock(s) \/ WritesLock(s)
        \/ AsksPorts(s) \/ ServesNow(s)
        \/ Stops(s) \/ ReadsItsLock(s) \/ DropsLock(s)
        \/ Dies(s) \/ EndsCleanly(s) \/ PidIsReused(s)

DevLockSpec == DevLockInit /\ [][DevLockNext]_lockfileVars

-----------------------------------------------------------------------------
KeptApart == \A s, t \in answering : s # t => Dir[s] # Dir[t] /\ PortsOf(s) \cap PortsOf(t) = {}

\* One session runs in a directory, and one answers on a port (dev.ts 147),
\* whoever dies and whoever gets its pid: a lock is taken from a dead session or
\* a stranger with its pid, and never from a session that runs. The one way round
\* is to look at the same moment, at a lock before the other has written it or
\* at a port before the other answers there: the code asks and then acts.
SessionsKeepApart == met \/ KeptApart
=============================================================================
