------------------------------ MODULE BuildLock ------------------------------
(***************************************************************************)
(* The lock of an asset build (build.ts 1390-1528): a file created         *)
(* exclusively, which says who holds it, and the way a waiter takes over   *)
(* the lock of a process that is gone (with what parent-watch.ts reads of  *)
(* another process). Every system call on a file is a step of its own.     *)
(***************************************************************************)
EXTENDS Naturals, FiniteSets

CONSTANTS
    Builders,     \* processes that build, one build each
    NoFile,       \* the file is not there
    Torn,         \* a lock whose writer has not written its text (yet)
    HasProcfs     \* /proc tells a corpse from a living process (linux)

ASSUME LockAssumption ==
    /\ IsFiniteSet(Builders)
    /\ {NoFile, Torn} \cap Builders = {} /\ NoFile # Torn
    /\ NoFile \notin [owner : Builders, text : Builders \cup {Torn}]
    /\ HasProcfs \in BOOLEAN

VARIABLES
    lock,      \* the lock file: who created it, and its text (the token is its owner's alone)
    guard,     \* the owner of the takeover guard's file
    at,        \* where each builder is in withBuildLock
    judged,    \* the text a builder judged stale
    reuse,     \* what a builder was told of the pid in a lock: asked once per text
    proc,      \* each process: alive, a corpse, gone, or its pid another's
    mistaken   \* history: a living process's guard or unwritten lock was taken for the old one

lockVars == <<lock, guard, at, judged, reuse, proc, mistaken>>

Lives == {"alive", "corpse", "gone", "reused"}
Steps == {"trying", "writing", "refused", "taking", "clearing", "reading", "removing",
          "unguarding", "building", "releasing", "dropping", "done", "gaveUp"}

LockTypeOK ==
    /\ lock \in [owner : Builders, text : Builders \cup {Torn}] \cup {NoFile}
    /\ guard \in Builders \cup {NoFile}
    /\ at \in [Builders -> Steps]
    /\ judged \in [Builders -> Builders \cup {Torn, NoFile}]
    /\ reuse \in [Builders -> [Builders -> {"unasked", "reused", "unknown"}]]
    /\ proc \in [Builders -> Lives]
    /\ mistaken \in BOOLEAN

LockInit ==
    /\ lock = NoFile /\ guard = NoFile
    /\ at = [b \in Builders |-> "trying"]
    /\ judged = [b \in Builders |-> NoFile]
    /\ reuse = [b \in Builders |-> [o \in Builders |-> "unasked"]]
    /\ proc = [b \in Builders |-> "alive"]
    /\ mistaken = FALSE

Goes(b, from, to) ==
    /\ proc[b] = "alive" /\ at[b] = from
    /\ at' = [at EXCEPT ![b] = to]

Held == lock # NoFile

\* slip: the signal decides everywhere, and a corpse takes it.
Signalled(p) == FALSE

\* A corpse is read from /proc, and without it the signal decides: alive.
IsCorpse(p) == HasProcfs /\ proc[p] = "corpse"

\* The pid in a lock is nobody's. A probe that is refused reads as alive, and a
\* pid that is another's by now is alive as well.
ParentGone(p) == proc[p] = "gone" \/ IsCorpse(p)

\* What a builder may hear of a lock's pid: that it is another process's by now,
\* or nothing, when no start can be told.
MayHear(b, p) ==
    CASE reuse[b][p] # "unasked" -> {reuse[b][p]}
      [] proc[p] = "reused"      -> {"reused", "unknown"}
      [] OTHER                   -> {"unknown"}

\* Ten seconds are long for a living process between two system calls.
Old(owner) == proc[owner] # "alive"

-----------------------------------------------------------------------------
\* writeFileSync with the flag wx: the name first ...
Create(b) ==
    /\ ~Held
    /\ Goes(b, "trying", "writing")
    /\ lock' = [owner |-> b, text |-> Torn]
    /\ UNCHANGED <<guard, judged, reuse, proc, mistaken>>

\* ... and the text after it, into this file or into one that was unlinked.
Write(b) ==
    /\ Goes(b, "writing", "building")
    /\ lock' = IF Held /\ lock.owner = b THEN [lock EXCEPT !.text = b] ELSE lock
    /\ UNCHANGED <<guard, judged, reuse, proc, mistaken>>

Refused(b) ==
    /\ Held
    /\ Goes(b, "trying", "refused")
    /\ UNCHANGED <<lock, guard, judged, reuse, proc, mistaken>>

\* The lock is gone, or being written: the same again, a moment later.
Unreadable(b) ==
    /\ Held => lock.text = Torn /\ ~Old(lock.owner)
    /\ Goes(b, "refused", "trying")
    /\ UNCHANGED <<lock, guard, judged, reuse, proc, mistaken>>

HolderLives(b) ==
    /\ Held /\ lock.text # Torn /\ ~ParentGone(lock.text)
    /\ \E answer \in MayHear(b, lock.text) :
        /\ answer # "reused"
        /\ reuse' = [reuse EXCEPT ![b][lock.text] = answer]
    /\ Goes(b, "refused", "trying")
    /\ UNCHANGED <<lock, guard, judged, proc, mistaken>>

Judged(b) ==
    /\ judged' = [judged EXCEPT ![b] = lock.text]
    /\ Goes(b, "refused", "taking")
    /\ UNCHANGED <<lock, guard, proc, mistaken>>

\* The process it names is gone, or it is torn and was long ago.
Stale(file) == IF file.text = Torn THEN Old(file.owner) ELSE ParentGone(file.text)

HolderIsGone(b) ==
    /\ Held /\ Stale(lock)
    /\ Judged(b)
    /\ UNCHANGED reuse

HolderWasReplaced(b) ==
    /\ Held /\ lock.text # Torn /\ ~ParentGone(lock.text)
    /\ "reused" \in MayHear(b, lock.text)
    /\ reuse' = [reuse EXCEPT ![b][lock.text] = "reused"]
    /\ Judged(b)

\* Five minutes are over.
GiveUp(b) ==
    /\ Held
    /\ Goes(b, "refused", "gaveUp")
    /\ UNCHANGED <<lock, guard, judged, reuse, proc, mistaken>>

-----------------------------------------------------------------------------
Forgets(b) == judged' = [judged EXCEPT ![b] = NoFile]

TakeGuard(b) ==
    /\ guard = NoFile
    /\ Goes(b, "taking", "reading")
    /\ guard' = b
    /\ UNCHANGED <<lock, judged, reuse, proc, mistaken>>

GuardIsTaken(b) ==
    /\ guard # NoFile
    /\ Goes(b, "taking", IF Old(guard) THEN "clearing" ELSE "trying")
    /\ Forgets(b)
    /\ UNCHANGED <<lock, guard, reuse, proc, mistaken>>

\* Removed by name, whoever's it is by now.
ClearGuard(b) ==
    /\ Goes(b, "clearing", "trying")
    /\ guard' = NoFile
    /\ mistaken' = (mistaken \/ (guard # NoFile /\ proc[guard] = "alive"))
    /\ UNCHANGED <<lock, judged, reuse, proc>>

\* slip: whatever lock is there is the one that was judged.
StillThere(b) == Held
StillJudged(b) == Held /\ lock.text = judged[b]

\* One text without a token is like another: a lock that is being written now
\* passes for the one that was never written.
ReadUnderGuard(b) ==
    /\ Goes(b, "reading", IF StillJudged(b) THEN "removing" ELSE "unguarding")
    /\ mistaken' = (mistaken \/ (StillJudged(b) /\ lock.text = Torn /\ proc[lock.owner] = "alive"))
    /\ UNCHANGED <<lock, guard, judged, reuse, proc>>

RemoveStale(b) ==
    /\ Goes(b, "removing", "unguarding")
    /\ lock' = NoFile
    /\ UNCHANGED <<guard, judged, reuse, proc, mistaken>>

DropGuard(b) ==
    /\ Goes(b, "unguarding", "trying")
    /\ guard' = NoFile
    /\ Forgets(b)
    /\ UNCHANGED <<lock, reuse, proc, mistaken>>

-----------------------------------------------------------------------------
BuildEnds(b) ==
    /\ Goes(b, "building", "releasing")
    /\ reuse' = [reuse EXCEPT ![b] = [o \in Builders |-> "unasked"]]
    /\ UNCHANGED <<lock, guard, judged, proc, mistaken>>

ReadToken(b) ==
    /\ Goes(b, "releasing", IF Held /\ lock.text = b THEN "dropping" ELSE "done")
    /\ UNCHANGED <<lock, guard, judged, reuse, proc, mistaken>>

DropLock(b) ==
    /\ Goes(b, "dropping", "done")
    /\ lock' = NoFile
    /\ UNCHANGED <<guard, judged, reuse, proc, mistaken>>

\* Killed, and its memory with it: dev kills the render service in the middle
\* of its build.
Die(b) ==
    /\ proc[b] = "alive"
    /\ proc' = [proc EXCEPT ![b] = "corpse"]
    /\ at' = [at EXCEPT ![b] = "done"]
    /\ reuse' = [reuse EXCEPT ![b] = [o \in Builders |-> "unasked"]]
    /\ Forgets(b)
    /\ UNCHANGED <<lock, guard, mistaken>>

Reaped(b) ==
    /\ proc[b] = "corpse"
    /\ proc' = [proc EXCEPT ![b] = "gone"]
    /\ UNCHANGED <<lock, guard, at, judged, reuse, mistaken>>

PidReused(b) ==
    /\ proc[b] = "gone"
    /\ proc' = [proc EXCEPT ![b] = "reused"]
    /\ UNCHANGED <<lock, guard, at, judged, reuse, mistaken>>

Waits(b) ==
    \/ Create(b) \/ Write(b) \/ Refused(b) \/ Unreadable(b) \/ HolderLives(b)
    \/ HolderIsGone(b) \/ HolderWasReplaced(b)

TakesOver(b) ==
    \/ TakeGuard(b) \/ GuardIsTaken(b) \/ ClearGuard(b)
    \/ ReadUnderGuard(b) \/ RemoveStale(b) \/ DropGuard(b)

Releases(b) == ReadToken(b) \/ DropLock(b)

LockNext ==
    \E b \in Builders :
        \/ Waits(b) \/ TakesOver(b) \/ Releases(b)
        \/ GiveUp(b) \/ BuildEnds(b) \/ Die(b) \/ Reaped(b) \/ PidReused(b)

\* A process that is not waiting for anyone goes on; a build may hang for ever.
LockFairness == \A b \in Builders : WF_lockVars(Waits(b) \/ TakesOver(b) \/ Releases(b))

LockSpec == LockInit /\ [][LockNext]_lockVars

-----------------------------------------------------------------------------
Builds(b) == proc[b] = "alive" /\ at[b] \in {"building", "releasing", "dropping"}

\* Two builds never write one directory at once (build.ts 1408: "the expensive
\* mistake is two builds in one directory").
OneBuildAtATime == \A b, c \in Builders : Builds(b) /\ Builds(c) => b = c

\* Who waits on the lock of a process that is gone does not wait on it for
\* ever: somebody gets in, or the last waiter gives up (build.ts 1404: "the
\* next one must not wait on a corpse").
Waiting(b) == proc[b] = "alive" /\ at[b] \notin {"building", "releasing", "dropping", "done", "gaveUp"}
Buried(o) == Held /\ lock.text = o /\ proc[o] \in {"corpse", "gone"}
CorpsesAreTakenOver ==
    LockFairness => \A o \in Builders :
        Buried(o) ~> (\/ ~Held
                      \/ lock.text # o
                      \/ proc[o] = "reused"
                      \/ \A b \in Builders : ~Waiting(b))

\* A lock has one holder, and only its holder builds, whoever died, was replaced
\* or judged the same lock at the same time. Two looks are too old when they are
\* acted on, and nothing else is: at the age of a guard that another one has
\* taken since, and at a lock without a text where another one without a text is
\* by now (build.ts 1434: "only of the text that was judged").
BuildsTakeTurns == LockTypeOK /\ (mistaken \/ OneBuildAtATime)
==============================================================================
