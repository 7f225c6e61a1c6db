--------------------------- MODULE ToolchainProofs ---------------------------
(***************************************************************************)
(* What is proved of the commands of a developer and of what they leave:   *)
(* the lock of a build, for any processes; the directory of an app, for    *)
(* any terminals, pages and crashes; the answers over an asset and its     *)
(* siblings, for any contents and lengths; and the dev session, for any    *)
(* sources, saves and processes that die.                                  *)
(***************************************************************************)
EXTENDS BuildLock, Workspace, DevSession, AssetServing, SequenceTheorems, TLAPS

-----------------------------------------------------------------------------
(* The lock of a build.  A lock belongs to the process that created it     *)
(* until that process drops it or is dead; who holds the takeover guard    *)
(* is alone behind it; and what was judged stale has a dead owner, which   *)
(* no later life of its pid undoes.                                        *)

\* the lock is this process's to write, to build under and to drop
Owning == {"writing", "building", "releasing", "dropping"}

\* the takeover guard is this process's
BehindGuard == {"reading", "removing", "unguarding"}

\* who is dead does nothing
DeadAreDone == \A b \in Builders : proc[b] # "alive" => at[b] = "done"

\* a lock says who created it, or nothing yet while its creator writes
LockTellsOwner ==
    Held => /\ lock.text \in {lock.owner, Torn}
            /\ lock.text = Torn => at[lock.owner] = "writing" \/ proc[lock.owner] # "alive"

\* nobody takes a lock from a process that owns it
OwnersHold ==
    \A b \in Builders : at[b] \in Owning => Held /\ lock.owner = b

\* one process at a time is behind the guard
GuardIsOwned == \A b \in Builders : at[b] \in BehindGuard => guard = b

\* a pid found reused is
ReuseIsTrue ==
    \A b, o \in Builders : reuse[b][o] = "reused" => proc[o] = "reused"

\* what was judged was the lock of a dead process, or one without a text, and
\* what is removed is a dead one's
JudgedAreDead ==
    \A b \in Builders :
        /\ judged[b] \notin {NoFile, Torn} => judged[b] \in Builders /\ proc[judged[b]] # "alive"
        /\ at[b] \in {"taking", "reading", "removing"} => judged[b] # NoFile
        /\ at[b] = "removing" => Held /\ proc[lock.owner] # "alive"

LockInv ==
    /\ LockTypeOK
    /\ DeadAreDone
    /\ LockTellsOwner
    /\ OwnersHold
    /\ GuardIsOwned
    /\ ReuseIsTrue
    /\ JudgedAreDead

LEMMA LockInvInit == LockInit => LockInv
<1> SUFFICES ASSUME LockInit PROVE LockInv
  OBVIOUS
<1>1. LockTypeOK
  BY LockAssumption DEF LockInit, LockTypeOK, Lives, Steps
<1>2. DeadAreDone /\ LockTellsOwner /\ OwnersHold /\ GuardIsOwned /\ ReuseIsTrue
  BY DEF LockInit, DeadAreDone, LockTellsOwner, OwnersHold, GuardIsOwned, ReuseIsTrue, Held, Owning, BehindGuard
<1>3. JudgedAreDead
  BY DEF LockInit, JudgedAreDead
<1> QED BY <1>1, <1>2, <1>3 DEF LockInv

\* Every step keeps the types: what is written to a lock, a guard or a memory is
\* a process, or the mark of none.
LEMMA LockTypeStep ==
  ASSUME LockTypeOK, [LockNext]_lockVars PROVE LockTypeOK' /\ (mistaken => mistaken')
<1> USE LockAssumption DEF LockTypeOK, Lives, Steps, Goes
<1>1. CASE UNCHANGED lockVars
  BY <1>1 DEF lockVars
<1>2. ASSUME NEW b \in Builders, Waits(b) PROVE LockTypeOK' /\ (mistaken => mistaken')
  <2>1. CASE Create(b)
    <3>1. lock' \in [owner : Builders, text : Builders \cup {Torn}]
      BY <2>1 DEF Create
    <3>. QED BY <2>1, <3>1 DEF Create
  <2>7. CASE Write(b)
    <3>1. lock' = lock \/ (Held /\ lock' = [lock EXCEPT !.text = b])
      BY <2>7 DEF Write
    <3>2. Held => lock \in [owner : Builders, text : Builders \cup {Torn}]
      BY DEF Held
    <3>3. lock' \in [owner : Builders, text : Builders \cup {Torn}] \cup {NoFile}
      BY <3>1, <3>2
    <3>. QED BY <2>7, <3>3 DEF Write
  <2>2. CASE Refused(b) \/ Unreadable(b)
    BY <2>2 DEF Refused, Unreadable
  <2>3. ASSUME Held, lock.text # Torn PROVE lock.text \in Builders
    BY <2>3 DEF Held
  <2>4. CASE HolderLives(b)
    <3>1. lock.text \in Builders
      BY <2>3, <2>4 DEF HolderLives
    <3>3. reuse[b][lock.text] \in {"unasked", "reused", "unknown"}
      BY <3>1
    <3>4. MayHear(b, lock.text) \subseteq {"unasked", "reused", "unknown"}
      BY <3>3 DEF MayHear
    <3>2. PICK answer \in {"reused", "unknown", "unasked"} :
            reuse' = [reuse EXCEPT ![b][lock.text] = answer]
      BY <2>4, <3>4 DEF HolderLives
    <3>. QED BY <2>4, <3>1, <3>2 DEF HolderLives
  <2>5. CASE HolderIsGone(b)
    BY <2>5 DEF HolderIsGone, Judged, Held
  <2>6. CASE HolderWasReplaced(b)
    <3>1. lock.text \in Builders
      BY <2>3, <2>6 DEF HolderWasReplaced
    <3>. QED BY <2>6, <3>1 DEF HolderWasReplaced, Judged
  <2>. QED BY <1>2, <2>1, <2>2, <2>4, <2>5, <2>6, <2>7 DEF Waits
<1>3. ASSUME NEW b \in Builders, TakesOver(b) PROVE LockTypeOK' /\ (mistaken => mistaken')
  BY <1>3 DEF TakesOver, TakeGuard, GuardIsTaken, ClearGuard, ReadUnderGuard, RemoveStale,
     DropGuard, Forgets
<1>4. ASSUME NEW b \in Builders, Releases(b) PROVE LockTypeOK' /\ (mistaken => mistaken')
  BY <1>4 DEF Releases, ReadToken, DropLock
<1>5. ASSUME NEW b \in Builders, GiveUp(b) \/ BuildEnds(b) PROVE LockTypeOK' /\ (mistaken => mistaken')
  <2>1. [o \in Builders |-> "unasked"] \in [Builders -> {"unasked", "reused", "unknown"}]
    OBVIOUS
  <2>2. reuse' \in [Builders -> [Builders -> {"unasked", "reused", "unknown"}]]
    BY <1>5, <2>1 DEF GiveUp, BuildEnds
  <2>. QED BY <1>5, <2>2 DEF GiveUp, BuildEnds
<1>6. ASSUME NEW b \in Builders, Die(b) PROVE LockTypeOK' /\ (mistaken => mistaken')
  <2>1. [o \in Builders |-> "unasked"] \in [Builders -> {"unasked", "reused", "unknown"}]
    OBVIOUS
  <2>2. reuse' \in [Builders -> [Builders -> {"unasked", "reused", "unknown"}]]
    BY <1>6, <2>1 DEF Die
  <2>. QED BY <1>6, <2>2 DEF Die, Forgets
<1>7. ASSUME NEW b \in Builders, Reaped(b) \/ PidReused(b) PROVE LockTypeOK' /\ (mistaken => mistaken')
  BY <1>7 DEF Reaped, PidReused
<1>. QED BY <1>1, <1>2, <1>3, <1>4, <1>5, <1>6, <1>7 DEF LockNext

\* Who writes, builds or drops owns the lock; who waits never takes it from them.
LEMMA WaitsStep ==
  ASSUME LockInv, NEW b \in Builders, Waits(b) PROVE LockInv'
<1> USE LockAssumption DEF LockInv, LockTypeOK, Goes
<1>0. LockTypeOK'
  BY LockTypeStep DEF LockNext
<1>1. CASE Create(b)
  <2>1. DeadAreDone' /\ GuardIsOwned' /\ ReuseIsTrue'
    BY <1>1 DEF Create, DeadAreDone, GuardIsOwned, ReuseIsTrue, BehindGuard
  <2>4. at[b] = "trying" /\ at' = [at EXCEPT ![b] = "writing"] /\ ~Held
    BY <1>1 DEF Create
  <2>8. lock' = [owner |-> b, text |-> Torn]
    BY <1>1 DEF Create
  <2>5. lock'.owner = b /\ lock'.text = Torn /\ Held'
    BY <2>8 DEF Held
  <2>6. LockTellsOwner'
    BY <2>4, <2>5 DEF LockTellsOwner
  <2>7. \A c \in Builders : at'[c] \in Owning => c = b
    BY <2>4 DEF OwnersHold, Owning
  <2>2. OwnersHold'
    BY <2>5, <2>7 DEF OwnersHold
  <2>3. JudgedAreDead'
    BY <1>1 DEF Create, JudgedAreDead, Held
  <2>. QED BY <1>0, <2>1, <2>2, <2>3, <2>6
<1>2. CASE Write(b)
  <2>1. DeadAreDone' /\ GuardIsOwned' /\ ReuseIsTrue'
    BY <1>2 DEF Write, DeadAreDone, GuardIsOwned, ReuseIsTrue, BehindGuard
  <2>2. lock' = [lock EXCEPT !.text = b] /\ lock.owner = b /\ Held
    BY <1>2 DEF Write, OwnersHold, Owning
  <2>5. at' = [at EXCEPT ![b] = "building"]
    BY <1>2 DEF Write
  <2>6. lock \in [owner : Builders, text : Builders \cup {Torn}]
    BY <2>2 DEF Held
  <2>10. lock' = [owner |-> b, text |-> b]
    BY <2>2, <2>6
  <2>7. lock' # NoFile /\ lock'.owner = b /\ lock'.text = b
    BY <2>10
  <2>8. LockTellsOwner'
    BY <2>7 DEF LockTellsOwner
  <2>9. \A c \in Builders : at'[c] \in Owning => c = b
    BY <2>2, <2>5 DEF OwnersHold, Owning
  <2>3. LockTellsOwner' /\ OwnersHold'
    BY <2>7, <2>8, <2>9 DEF OwnersHold, Held
  <2>4. JudgedAreDead'
    BY <1>2, <2>2 DEF Write, JudgedAreDead, Held
  <2>. QED BY <1>0, <2>1, <2>3, <2>4
<1>3. CASE Refused(b) \/ Unreadable(b)
  BY <1>0, <1>3 DEF Refused, Unreadable, DeadAreDone, GuardIsOwned, ReuseIsTrue, BehindGuard,
     LockTellsOwner, OwnersHold, Held, Owning, JudgedAreDead
<1>4. CASE HolderLives(b)
  BY <1>0, <1>4 DEF HolderLives, DeadAreDone, GuardIsOwned, ReuseIsTrue, BehindGuard,
     LockTellsOwner, OwnersHold, Held, Owning, JudgedAreDead
<1>5. CASE HolderIsGone(b)
  <2>1. lock.text # Torn => lock.text \in Builders /\ proc[lock.text] # "alive"
    <3>1. Held /\ lock \in [owner : Builders, text : Builders \cup {Torn}]
      BY <1>5 DEF HolderIsGone, Held
    <3>2. lock.text # Torn => ParentGone(lock.text)
      BY <1>5 DEF HolderIsGone, Stale
    <3>. QED BY <3>1, <3>2 DEF ParentGone, IsCorpse
  <2>. QED BY <1>0, <1>5, <2>1 DEF HolderIsGone, Judged, DeadAreDone, GuardIsOwned, ReuseIsTrue,
     BehindGuard, LockTellsOwner, OwnersHold, Held, Owning, JudgedAreDead
<1>6. CASE HolderWasReplaced(b)
  <2>1. lock.text \in Builders
    BY <1>6 DEF HolderWasReplaced, LockTellsOwner, Held
  <2>2. proc[lock.text] = "reused"
    BY <1>6, <2>1 DEF HolderWasReplaced, MayHear, ReuseIsTrue
  <2>3. ReuseIsTrue'
    BY <1>6, <2>1, <2>2 DEF HolderWasReplaced, Judged, ReuseIsTrue
  <2>. QED BY <1>0, <1>6, <2>1, <2>2, <2>3 DEF HolderWasReplaced, Judged, DeadAreDone,
     GuardIsOwned, BehindGuard, LockTellsOwner, OwnersHold, Held, Owning, JudgedAreDead
<1>. QED BY <1>1, <1>2, <1>3, <1>4, <1>5, <1>6 DEF Waits

\* Behind the guard one process removes what it judged, unless the guard was
\* taken from it or the lock has no text.
LEMMA TakesOverStep ==
  ASSUME LockInv, ~mistaken', NEW b \in Builders, TakesOver(b) PROVE LockInv'
<1> USE LockAssumption DEF LockInv, LockTypeOK, Goes
<1>0. LockTypeOK'
  BY LockTypeStep DEF LockNext
<1> USE DEF DeadAreDone, ReuseIsTrue, LockTellsOwner, OwnersHold, Held, Owning, GuardIsOwned,
     BehindGuard, JudgedAreDead
<1>1. CASE TakeGuard(b)
  BY <1>0, <1>1 DEF TakeGuard
<1>2. CASE GuardIsTaken(b)
  BY <1>0, <1>2 DEF GuardIsTaken, Forgets, Old
<1>3. CASE ClearGuard(b)
  BY <1>0, <1>3 DEF ClearGuard
<1>4. CASE ReadUnderGuard(b)
  <2>1. StillJudged(b) => proc[lock.owner] # "alive"
    BY <1>4 DEF ReadUnderGuard, StillJudged
  <2>. QED BY <1>0, <1>4, <2>1 DEF ReadUnderGuard, StillJudged
<1>5. CASE RemoveStale(b)
  BY <1>0, <1>5 DEF RemoveStale
<1>6. CASE DropGuard(b)
  BY <1>0, <1>6 DEF DropGuard, Forgets
<1>. QED BY <1>1, <1>2, <1>3, <1>4, <1>5, <1>6 DEF TakesOver

\* A build ends and drops its own lock, or does not get one.
LEMMA ReleasesStep ==
  ASSUME LockInv, NEW b \in Builders, Releases(b) \/ GiveUp(b) \/ BuildEnds(b) PROVE LockInv'
<1> USE LockAssumption DEF LockInv, LockTypeOK, Goes
<1>0. LockTypeOK'
  BY LockTypeStep DEF LockNext
<1> USE DEF DeadAreDone, ReuseIsTrue, LockTellsOwner, OwnersHold, Held, Owning, GuardIsOwned,
     BehindGuard, JudgedAreDead
<1>1. CASE ReadToken(b)
  BY <1>0, <1>1 DEF ReadToken
<1>2. CASE DropLock(b)
  BY <1>0, <1>2 DEF DropLock
<1>3. CASE GiveUp(b)
  BY <1>0, <1>3 DEF GiveUp
<1>4. CASE BuildEnds(b)
  BY <1>0, <1>4 DEF BuildEnds
<1>. QED BY <1>1, <1>2, <1>3, <1>4 DEF Releases

\* A death leaves a lock and a guard whose owner is dead.
LEMMA DeathsStep ==
  ASSUME LockInv, NEW b \in Builders, Die(b) \/ Reaped(b) \/ PidReused(b)
  PROVE  LockInv'
<1> USE LockAssumption DEF LockInv, LockTypeOK, Goes
<1>0. LockTypeOK'
  BY LockTypeStep DEF LockNext
<1> USE DEF DeadAreDone, ReuseIsTrue, LockTellsOwner, OwnersHold, Held, Owning, GuardIsOwned,
     BehindGuard, JudgedAreDead
<1>1. CASE Die(b)
  BY <1>0, <1>1 DEF Die, Forgets
<1>2. CASE Reaped(b)
  BY <1>0, <1>2 DEF Reaped
<1>3. CASE PidReused(b)
  BY <1>0, <1>3 DEF PidReused
<1>. QED BY <1>1, <1>2, <1>3

LEMMA LockInvStep ==
  ASSUME LockInv, ~mistaken', [LockNext]_lockVars PROVE LockInv'
<1>1. CASE UNCHANGED lockVars
  BY <1>1 DEF lockVars, LockInv, LockTypeOK, DeadAreDone, ReuseIsTrue, LockTellsOwner, OwnersHold,
     Held, GuardIsOwned, JudgedAreDead
<1>2. CASE LockNext
  BY <1>2, WaitsStep, TakesOverStep, ReleasesStep, DeathsStep DEF LockNext
<1>. QED BY <1>1, <1>2

\* Whatever dies at whatever step, is replaced or judges a lock at once, one build
\* writes the directory at a time (build.ts withBuildLock, takeOverStale), for any
\* number of builds, until a guard or a lock without a text is mistaken for the
\* older one that was looked at.
THEOREM BuildsAreApart == LockSpec => []BuildsTakeTurns
<1> DEFINE Inv == LockTypeOK /\ (mistaken \/ LockInv)
<1>1. LockInit => Inv
  BY LockInvInit DEF LockInv
<1>2. Inv /\ [LockNext]_lockVars => Inv'
  <2> SUFFICES ASSUME Inv, [LockNext]_lockVars PROVE Inv'
    OBVIOUS
  <2>1. LockTypeOK' /\ (mistaken => mistaken')
    BY LockTypeStep
  <2>2. ~mistaken' => LockInv'
    BY <2>1, LockInvStep
  <2>. QED BY <2>1, <2>2
<1>3. Inv => BuildsTakeTurns
  BY DEF LockInv, BuildsTakeTurns, OneBuildAtATime, Builds, OwnersHold, Owning
<1>. QED BY <1>1, <1>2, <1>3, PTL DEF LockSpec

-----------------------------------------------------------------------------
(* The directory of an app.  One command works at a time, and the servers  *)
(* it finds have what they serve, or are told that it is gone.  A tree     *)
(* without the mark is the whole output of its last build; with the mark   *)
(* it vouches for nothing, and what a build has made is told by where the  *)
(* build stands.                                                           *)

Building == {"wants", "manifest", "css", "bundle", "sweep", "record", "stamps", "checks"}
Exporting == {"renders", "copies", "unpublishes", "publishes"}

Stages == [pages : SUBSET Pages, names : SUBSET Files, assets : SUBSET Files]

ShellStates ==
    [cmd : {"none", "build", "dev", "start", "export"},
     at : {"idle", "stamp", "spawn", "boots", "serving"} \cup Building \cup Exporting,
     mode : Modes, tailwind : BOOLEAN, then : {"idle", "serving", "boots", "spawn", "renders"},
     wrote : BOOLEAN, owned : SUBSET Files, names : SUBSET Files,
     indexed : (SUBSET Files) \cup {None}, staged : Stages \cup {None}, disturbed : BOOLEAN]

DirTyped ==
    /\ DirTypeOK
    /\ shell \in [Shells -> ShellStates]
    /\ source \in [v : Versions, sheet : {"scss", "css", "none"}, broken : BOOLEAN]
    /\ site \in Stages \cup {None}

Rests(s) == shell[s].at \in {"idle", "serving"}

OneWorks == \A s, t \in Shells : Rests(s) \/ Rests(t) \/ s = t

\* the entry of a build is among its names
HasEntry(names, mode) == \E v \in Versions : Script(v, mode) \in names

\* a tree that is not marked is the output of a build that ended
UnmarkedIsBuilt ==
    manifest /\ ~mark => inventory # None /\ HasEntry(inventory, stamp)

\* each command goes its own way, in a mode of its own
Course(s) ==
    LET me == shell[s]
    IN  \/ me.at = "idle"
        \/ me.cmd \in {"build", "dev"} /\ me.at \in Building /\ me.then = "idle"
        \/ /\ me.cmd = "start" /\ me.mode = "production" /\ me.then \in {"spawn", "serving"}
           /\ me.at \in {"stamp", "spawn", "boots", "serving"} \cup Building
        \/ /\ me.cmd = "export" /\ me.mode = "export" /\ me.then \in {"boots", "renders"}
           /\ me.at \in {"boots"} \cup Building \cup Exporting

OthersAreDisturbed(s) == \A t \in Shells \ {s} : shell[t].at = "serving" => shell[t].disturbed

\* how far a build has got
Built(s) ==
    LET me == shell[s]
    IN  /\ me.at \in {"css", "bundle", "sweep", "record", "stamps", "checks"} => mark
        /\ me.at \in {"sweep", "record", "stamps", "checks"} =>
             me.names \subseteq there /\ HasEntry(me.names, me.mode) /\ OthersAreDisturbed(s)
        /\ me.at \in {"stamps", "checks"} => inventory = me.names
        /\ me.at = "checks" => stamp = me.mode

\* how far a start or an export has got
Started(s) ==
    LET me == shell[s]
    IN  /\ me.at \in {"spawn", "boots"} /\ me.cmd = "start" => stamp = "production"
        /\ me.at = "renders" => me.names # {} /\ me.names \subseteq there
        /\ me.at \in {"copies", "unpublishes", "publishes"} =>
             me.staged \in Stages /\ me.staged.names # {} /\ me.staged.pages = Exported
        /\ me.at = "copies" => me.staged.names \subseteq there
        /\ me.at \in {"unpublishes", "publishes"} => me.staged.names \subseteq me.staged.assets

\* what a server that nobody disturbed serves
Serves(s) ==
    Undisturbed(s) =>
        /\ shell[s].names \subseteq there
        /\ HasEntry(shell[s].names, "production")
        /\ stamp = "production"

DirInv ==
    /\ DirTyped /\ OneWorks /\ UnmarkedIsBuilt /\ PublishedSiteIsWhole
    /\ \A s \in Shells : Course(s) /\ Built(s) /\ Started(s) /\ Serves(s)

\* How a terminal gets on: what it had, and what it has now.
LEMMA ShellFields ==
    ASSUME NEW r \in ShellStates
    PROVE  /\ r.at \in {"idle", "stamp", "spawn", "boots", "serving"} \cup Building \cup Exporting
           /\ r.mode \in Modes /\ r.owned \in SUBSET Files /\ r.names \in SUBSET Files
           /\ r.staged \in Stages \cup {None}
           /\ r.then \in {"idle", "serving", "boots", "spawn", "renders"}
  BY DEF ShellStates

LEMMA IdleIsTyped == Idle \in ShellStates /\ Idle.at = "idle"
  <1>1. "dev" \in Modes /\ {} \in SUBSET Files
    BY DEF Modes
  <1>2. FALSE \in BOOLEAN /\ None \in (SUBSET Files) \cup {None} /\ None \in Stages \cup {None}
    OBVIOUS
  <1>. QED BY <1>1, <1>2 DEF Idle, ShellStates

LEMMA SourceTyped ==
    ASSUME DirTyped
    PROVE  source.v \in Versions /\ source.sheet \in {"scss", "css", "none"}
  BY DEF DirTyped

\* The files a build makes.
LEMMA BuildsFiles ==
    ASSUME DirTyped, NEW s \in Shells
    PROVE  /\ Written(s) \in SUBSET Files /\ HasEntry(Written(s), shell[s].mode)
           /\ Script(source.v, shell[s].mode) \in Written(s)
           /\ PlainStyle \in Files /\ StyleOf(Owned) \subseteq Files
  <1>1. shell[s] \in ShellStates /\ there \subseteq Files
    BY DEF DirTyped, DirTypeOK
  <1>2. shell[s].mode \in Modes /\ shell[s].owned \in SUBSET Files
    BY <1>1, ShellFields
  <1>3. source.v \in Versions
    BY SourceTyped
  <1>4. /\ \A v \in Versions, m \in Modes : Script(v, m) \in Files
        /\ \A v \in Versions : HashedStyle(v) \in Files
        /\ PlainStyle \in Files
    BY DEF Files
  <1>5. Emitted(s) \in SUBSET Files
    BY <1>1, <1>2, <1>3, <1>4 DEF Emitted, StyleOf
  <1>6. Script(source.v, shell[s].mode) \in Written(s)
    BY DEF Written
  <1>7. Written(s) \in SUBSET Files
    BY <1>2, <1>3, <1>4, <1>5 DEF Written
  <1>8. StyleOf(Owned) \subseteq Files
    <2>1. Owned \subseteq Files
      <3>1. inventory \in (SUBSET Files) \cup {None}
        BY DEF DirTyped, DirTypeOK
      <3>2. CASE inventory = None
        BY <3>2 DEF Owned
      <3>3. CASE inventory # None
        BY <3>1, <3>3 DEF Owned
      <3>. QED BY <3>2, <3>3
    <2>. QED BY <2>1 DEF StyleOf
  <1>. QED BY <1>3, <1>4, <1>6, <1>7, <1>8 DEF HasEntry

\* What a step of one command is to the others.
OthersStay(s) ==
    \A t \in Shells \ {s} :
        /\ shell'[t].at = shell[t].at /\ shell'[t].cmd = shell[t].cmd
        /\ shell'[t].mode = shell[t].mode /\ shell'[t].then = shell[t].then
        /\ shell'[t].names = shell[t].names
        /\ shell[t].disturbed => shell'[t].disturbed

\* they still have what they serve, or were told
OthersAreLeft(s) ==
    \/ \A t \in Shells \ {s} : shell'[t].at = "serving" => shell'[t].disturbed
    \/ there \subseteq there' /\ stamp' = stamp

LEMMA StepKeeps ==
    ASSUME DirInv, NEW s \in Shells, \A t \in Shells \ {s} : Rests(t),
           DirTyped', OthersStay(s), OthersAreLeft(s), UnmarkedIsBuilt', PublishedSiteIsWhole',
           Course(s)', Built(s)', Started(s)', Serves(s)'
    PROVE  DirInv'
  <1>1. OneWorks'
    BY DEF OneWorks, OthersStay, Rests
  <1>2. ASSUME NEW t \in Shells \ {s} PROVE Course(t)' /\ Built(t)' /\ Started(t)' /\ Serves(t)'
    <2>1. /\ shell'[t].at \in {"idle", "serving"}
          /\ shell'[t].at = shell[t].at /\ shell'[t].cmd = shell[t].cmd
          /\ shell'[t].mode = shell[t].mode /\ shell'[t].then = shell[t].then
          /\ shell'[t].names = shell[t].names
          /\ shell[t].disturbed => shell'[t].disturbed
      BY DEF OthersStay, Rests
    <2>2. Course(t)'
      <3>1. Course(t)
        BY DEF DirInv
      <3>. QED BY <2>1, <3>1 DEF Course
    <2>3. Built(t)'
      BY <2>1 DEF Built
    <2>4. Started(t)'
      BY <2>1 DEF Started
    <2>5. Serves(t)'
      <3>1. Serves(t)
        BY DEF DirInv
      <3>2. CASE there \subseteq there' /\ stamp' = stamp
        BY <2>1, <3>1, <3>2 DEF Serves, Undisturbed, HasEntry
      <3>3. CASE shell'[t].at = "serving" => shell'[t].disturbed
        BY <3>3 DEF Serves, Undisturbed
      <3>. QED BY <3>2, <3>3 DEF OthersAreLeft
    <2>. QED BY <2>2, <2>3, <2>4, <2>5
  <1>. QED BY <1>1, <1>2 DEF DirInv

\* A command that ends, or is killed, takes nothing away.
LEMMA EndingKeeps ==
    ASSUME DirInv, NEW s \in Shells, shell' = [shell EXCEPT ![s] = Idle],
           UNCHANGED <<disk, source>>, builder' \in Shells \cup {None},
           site' \in Stages \cup {None}, PublishedSiteIsWhole'
    PROVE  DirInv'
  <1>0. DirTyped
    BY DEF DirInv
  <1>1. /\ shell' \in [Shells -> ShellStates] /\ shell'[s] = Idle
        /\ \A t \in Shells \ {s} : shell'[t] = shell[t]
    BY <1>0, IdleIsTyped DEF DirTyped
  <1>2. UNCHANGED <<there, torn, inventory, stamp, mark, manifest, source>>
    BY DEF disk
  <1>3. DirTyped'
    BY <1>0, <1>1, <1>2 DEF DirTyped, DirTypeOK
  <1>4. OneWorks'
    BY <1>1, IdleIsTyped DEF DirInv, OneWorks, Rests
  <1>5. UnmarkedIsBuilt'
    BY <1>2 DEF DirInv, UnmarkedIsBuilt, HasEntry
  <1>6. Course(s)' /\ Built(s)' /\ Started(s)' /\ Serves(s)'
    BY <1>1, IdleIsTyped DEF Course, Built, Started, Serves, Undisturbed
  <1>7. ASSUME NEW t \in Shells \ {s} PROVE Course(t)' /\ Built(t)' /\ Started(t)' /\ Serves(t)'
    <2>1. Course(t) /\ Built(t) /\ Started(t) /\ Serves(t) /\ shell'[t] = shell[t]
      BY <1>1 DEF DirInv
    <2>2. OthersAreDisturbed(t) => OthersAreDisturbed(t)'
      BY <1>1, IdleIsTyped DEF OthersAreDisturbed
    <2>3. Course(t)'
      BY <2>1 DEF Course
    <2>4. Built(t)'
      BY <1>2, <2>1, <2>2 DEF Built, HasEntry
    <2>5. Started(t)'
      BY <1>2, <2>1 DEF Started
    <2>6. Serves(t)'
      BY <1>2, <2>1 DEF Serves, Undisturbed, HasEntry
    <2>. QED BY <2>3, <2>4, <2>5, <2>6
  <1>. QED BY <1>3, <1>4, <1>5, <1>6, <1>7 DEF DirInv

\* A step of a command while the others rest.
LEMMA AloneAtWork ==
    ASSUME DirInv, NEW s \in Shells, ~Rests(s) PROVE \A t \in Shells \ {s} : Rests(t)
  BY DEF DirInv, OneWorks

\* A terminal moves, and the others stay.
LEMMA MoveFacts ==
    ASSUME DirTyped, NEW s \in Shells,
           NEW to \in {"idle", "stamp", "spawn", "boots", "serving"} \cup Building \cup Exporting,
           shell' = [shell EXCEPT ![s].at = to]
    PROVE  /\ shell' \in [Shells -> ShellStates] /\ OthersStay(s)
           /\ shell'[s].at = to /\ shell'[s].cmd = shell[s].cmd /\ shell'[s].mode = shell[s].mode
           /\ shell'[s].then = shell[s].then /\ shell'[s].names = shell[s].names
           /\ shell'[s].staged = shell[s].staged /\ shell'[s].disturbed = shell[s].disturbed
           /\ \A t \in Shells \ {s} : shell'[t] = shell[t]
  <1>1. shell \in [Shells -> ShellStates]
    BY DEF DirTyped
  <1>2. shell' \in [Shells -> ShellStates]
    BY <1>1 DEF ShellStates
  <1>3. \A t \in Shells \ {s} : shell'[t] = shell[t]
    BY <1>1
  <1>4. OthersStay(s)
    BY <1>3 DEF OthersStay
  <1>. QED BY <1>1, <1>2, <1>3, <1>4 DEF ShellStates

\* who is where, and what that says of it
LEMMA AtWork ==
    ASSUME DirInv, NEW s \in Shells
    PROVE  /\ DirTyped /\ shell[s] \in ShellStates
           /\ Course(s) /\ Built(s) /\ Started(s) /\ Serves(s)
           /\ UnmarkedIsBuilt /\ PublishedSiteIsWhole
           /\ inventory \in (SUBSET Files) \cup {None}
  <1>1. DirTyped
    BY DEF DirInv
  <1>2. shell[s] \in ShellStates /\ inventory \in (SUBSET Files) \cup {None}
    BY <1>1 DEF DirTyped, DirTypeOK
  <1>. QED BY <1>1, <1>2 DEF DirInv

\* A command begins where all the others rest.
LEMMA CommandsKeep ==
    ASSUME Alone, DirInv, NEW s \in Shells, Commands(s) PROVE DirInv'
  <1>0. DirTyped
    BY DEF DirInv
  <1>1. MayBegin(s)
    BY DEF Commands, RunBuild, RunDev, RunStart, RunExport
  <1>2. PICK cmd \in {"build", "dev", "start", "export"}, to \in {"wants", "stamp"},
             mode \in Modes, next \in {"idle", "serving", "boots"} :
          /\ Begins(s, cmd, to, mode, next)
          /\ \/ cmd \in {"build", "dev"} /\ to = "wants" /\ next = "idle"
             \/ cmd = "start" /\ mode = "production" /\ to = "stamp" /\ next = "serving"
             \/ cmd = "export" /\ mode = "export" /\ to = "wants" /\ next = "boots"
    <2>1. ASSUME RunBuild(s)
          PROVE  \E m \in Modes : Begins(s, "build", "wants", m, "idle")
      BY <2>1 DEF RunBuild, Modes
    <2>2. "dev" \in Modes /\ "production" \in Modes /\ "export" \in Modes
      BY DEF Modes
    <2>. QED BY <2>1, <2>2 DEF Commands, RunDev, RunStart, RunExport
  <1>3. PICK flag \in BOOLEAN :
          shell' = [shell EXCEPT ![s] =
            [Idle EXCEPT !.cmd = cmd, !.at = to, !.mode = mode, !.tailwind = flag, !.then = next]]
    BY <1>2 DEF Begins
  <1> DEFINE r == [Idle EXCEPT !.cmd = cmd, !.at = to, !.mode = mode, !.tailwind = flag, !.then = next]
  <1>4. to \in {"idle", "stamp", "spawn", "boots", "serving"} \cup Building \cup Exporting
    BY DEF Building
  <1>5. r \in ShellStates
    BY <1>4, IdleIsTyped, ZenonT(40) DEF ShellStates
  <1>6. r.at = to /\ r.cmd = cmd /\ r.mode = mode /\ r.then = next
    BY IdleIsTyped DEF ShellStates
  <1>7. shell' = [shell EXCEPT ![s] = r]
    BY <1>3
  <1>. HIDE DEF r
  <1>8. /\ shell' \in [Shells -> ShellStates] /\ shell'[s] = r
        /\ \A t \in Shells \ {s} : shell'[t] = shell[t]
    BY <1>0, <1>5, <1>7 DEF DirTyped
  <1>9. UNCHANGED <<there, torn, inventory, stamp, mark, manifest, source, site, builder>>
    BY <1>1 DEF MayBegin, disk
  <1>10. DirTyped' /\ OthersStay(s) /\ OthersAreLeft(s)
    BY <1>0, <1>8, <1>9 DEF DirTyped, DirTypeOK, OthersStay, OthersAreLeft
  <1>11. UnmarkedIsBuilt' /\ PublishedSiteIsWhole'
    BY <1>9 DEF DirInv, UnmarkedIsBuilt, HasEntry, PublishedSiteIsWhole
  <1>12. Course(s)' /\ Built(s)' /\ Started(s)' /\ Serves(s)'
    BY <1>2, <1>6, <1>8 DEF Course, Built, Started, Serves, Undisturbed, Building
  <1>13. \A t \in Shells \ {s} : Rests(t)
    BY <1>1 DEF MayBegin, Rests
  <1>. QED BY <1>10, <1>11, <1>12, <1>13, StepKeeps

\* What the rest of the directory does not notice.
LEMMA ReadsKeep ==
    ASSUME DirInv, NEW s \in Shells, ~Rests(s), shell' \in [Shells -> ShellStates], OthersStay(s),
           UNCHANGED <<there, torn, inventory, stamp, mark, manifest, source, site>>,
           builder' \in Shells \cup {None},
           Course(s)', Built(s)', Started(s)', Serves(s)'
    PROVE  DirInv'
  <1>1. DirTyped' /\ OthersAreLeft(s)
    BY DEF DirInv, DirTyped, DirTypeOK, OthersAreLeft
  <1>2. UnmarkedIsBuilt' /\ PublishedSiteIsWhole'
    BY DEF DirInv, UnmarkedIsBuilt, HasEntry, PublishedSiteIsWhole
  <1>. QED BY <1>1, <1>2, AloneAtWork, StepKeeps

LEMMA StartsKeep == ASSUME DirInv, NEW s \in Shells, Starts(s) PROVE DirInv'
  <1>0. /\ DirTyped /\ shell \in [Shells -> ShellStates] /\ shell[s] \in ShellStates
        /\ Course(s) /\ Started(s) /\ UnmarkedIsBuilt
        /\ inventory \in (SUBSET Files) \cup {None} /\ builder \in Shells \cup {None}
    BY AtWork DEF DirTyped, DirTypeOK
  <1>1. /\ UNCHANGED <<there, torn, inventory, stamp, mark, manifest, source, site, builder>>
        /\ shell[s].at \in {"stamp", "spawn", "boots"}
    BY DEF Starts, ReadStamp, SpawnFront, Boots, disk
  <1>2. ~Rests(s)
    BY <1>1 DEF Rests
  <1>3. CASE ReadStamp(s)
    <2>1. PICK to \in {"spawn", "wants"} :
            /\ shell' = [shell EXCEPT ![s].at = to, ![s].then = "spawn"]
            /\ to = "spawn" => stamp = "production"
      BY <1>3 DEF ReadStamp
    <2>2. /\ shell' \in [Shells -> ShellStates] /\ shell'[s].at = to /\ shell'[s].then = "spawn"
          /\ shell'[s].cmd = shell[s].cmd /\ shell'[s].mode = shell[s].mode
          /\ \A t \in Shells \ {s} : shell'[t] = shell[t]
      BY <1>0, <2>1 DEF ShellStates, Building
    <2>3. shell[s].cmd = "start" /\ shell[s].mode = "production"
      BY <1>0, <1>3 DEF ReadStamp, Course, Building, Exporting
    <2>4. OthersStay(s)
      BY <2>2 DEF OthersStay
    <2>5. Course(s)' /\ Built(s)' /\ Started(s)' /\ Serves(s)'
      BY <1>1, <2>1, <2>2, <2>3 DEF Course, Built, Started, Serves, Undisturbed, Building
    <2>. QED BY <1>0, <1>1, <1>2, <2>2, <2>4, <2>5, ReadsKeep
  <1>4. CASE SpawnFront(s)
    <2>1. shell' = [shell EXCEPT ![s].at = "boots", ![s].indexed = inventory] /\ shell[s].at = "spawn"
      BY <1>4 DEF SpawnFront
    <2>2. /\ shell' \in [Shells -> ShellStates] /\ shell'[s].at = "boots" /\ shell'[s].then = shell[s].then
          /\ shell'[s].cmd = shell[s].cmd /\ shell'[s].mode = shell[s].mode
          /\ \A t \in Shells \ {s} : shell'[t] = shell[t]
      BY <1>0, <2>1 DEF ShellStates
    <2>3. shell[s].cmd = "start" /\ shell[s].mode = "production" /\ shell[s].then \in {"spawn", "serving"}
      BY <1>0, <2>1 DEF Course, Building, Exporting
    <2>4. OthersStay(s)
      BY <2>2 DEF OthersStay
    <2>5. Course(s)' /\ Built(s)' /\ Started(s)' /\ Serves(s)'
      BY <1>0, <1>1, <2>1, <2>2, <2>3 DEF Course, Built, Started, Serves, Undisturbed, Building
    <2>. QED BY <1>0, <1>1, <1>2, <2>2, <2>4, <2>5, ReadsKeep
  <1>5. CASE Boots(s)
    <2>0. shell[s].at = "boots"
      BY <1>5 DEF Boots
    <2>1. \/ /\ shell[s].cmd = "start" /\ shell[s].mode = "production" /\ AfterBoot(s) = "serving"
          \/ /\ shell[s].cmd = "export" /\ shell[s].mode = "export" /\ AfterBoot(s) = "renders"
      BY <1>0, <2>0 DEF Course, Building, Exporting, AfterBoot
    <2>2. AfterBoot(s) \in {"serving", "renders"}
      BY <2>1
    <2>3. CASE BuildReasons
      <3>1. shell' = [shell EXCEPT ![s].at = "wants", ![s].then = AfterBoot(s)]
        BY <1>5, <2>3 DEF Boots
      <3>2. /\ shell' \in [Shells -> ShellStates] /\ shell'[s].at = "wants" /\ shell'[s].then = AfterBoot(s)
            /\ shell'[s].cmd = shell[s].cmd /\ shell'[s].mode = shell[s].mode
            /\ \A t \in Shells \ {s} : shell'[t] = shell[t]
        BY <1>0, <2>2, <3>1 DEF ShellStates, Building
      <3>3. OthersStay(s)
        BY <3>2 DEF OthersStay
      <3>4. Course(s)' /\ Built(s)' /\ Started(s)' /\ Serves(s)'
        BY <2>1, <3>2 DEF Course, Built, Started, Serves, Undisturbed, Building
      <3>. QED BY <1>0, <1>1, <1>2, <3>2, <3>3, <3>4, ReadsKeep
    <2>4. CASE ~BuildReasons
      <3>1. /\ inventory # None /\ HasEntry(inventory, stamp) /\ inventory \subseteq there
            /\ inventory \in SUBSET Files
        <4>1. manifest /\ ~mark /\ Wanted \subseteq there
          BY <2>4 DEF BuildReasons
        <4>2. inventory # None /\ HasEntry(inventory, stamp)
          BY <1>0, <4>1 DEF UnmarkedIsBuilt
        <4>3. Wanted = inventory
          BY <4>2 DEF Wanted
        <4>. QED BY <1>0, <4>1, <4>2, <4>3
      <3>2. shell' = [shell EXCEPT ![s].at = AfterBoot(s), ![s].names = inventory]
        BY <1>5, <2>4 DEF Boots
      <3>3. /\ shell' \in [Shells -> ShellStates]
            /\ shell'[s].at = AfterBoot(s) /\ shell'[s].names = inventory
            /\ shell'[s].cmd = shell[s].cmd /\ shell'[s].mode = shell[s].mode
            /\ shell'[s].then = shell[s].then
            /\ \A t \in Shells \ {s} : shell'[t] = shell[t]
        BY <1>0, <2>2, <3>1, <3>2 DEF ShellStates, Exporting
      <3>4. OthersStay(s)
        BY <3>3 DEF OthersStay
      <3>5. Course(s)' /\ Built(s)'
        BY <1>0, <2>0, <2>1, <3>3 DEF Course, Built, Building, Exporting
      <3>6. inventory # {}
        BY <3>1 DEF HasEntry
      <3>7. Started(s)'
        BY <1>1, <2>2, <3>1, <3>3, <3>6 DEF Started
      <3>8. Serves(s)'
        <4>1. AfterBoot(s) = "serving" => stamp = "production"
          BY <1>0, <2>0, <2>1 DEF Started
        <4>2. HasEntry(inventory, stamp)'
          BY <1>1, <3>1 DEF HasEntry
        <4>. QED BY <1>1, <3>1, <3>3, <4>1, <4>2 DEF Serves, Undisturbed, HasEntry
      <3>. QED BY <1>0, <1>1, <1>2, <3>3, <3>4, <3>5, <3>7, <3>8, ReadsKeep
    <2>. QED BY <2>3, <2>4
  <1>. QED BY <1>3, <1>4, <1>5 DEF Starts

\* Whoever does anything is told, or has gone.
LEMMA DisturbingFacts ==
    ASSUME NEW f \in [Shells -> ShellStates], NEW s \in Shells
    PROVE  /\ Disturbing(s, f) \in [Shells -> ShellStates] /\ Disturbing(s, f)[s] = f[s]
           /\ \A t \in Shells \ {s} :
                /\ Disturbing(s, f)[t].at = f[t].at /\ Disturbing(s, f)[t].cmd = f[t].cmd
                /\ Disturbing(s, f)[t].mode = f[t].mode /\ Disturbing(s, f)[t].then = f[t].then
                /\ Disturbing(s, f)[t].names = f[t].names
                /\ f[t].disturbed => Disturbing(s, f)[t].disturbed
                /\ f[t].at = "serving" => Disturbing(s, f)[t].disturbed
  <1>1. ASSUME NEW t \in Shells PROVE [f[t] EXCEPT !.disturbed = TRUE] \in ShellStates
    BY ZenonT(40) DEF ShellStates
  <1>2. Disturbing(s, f) \in [Shells -> ShellStates]
    BY <1>1 DEF Disturbing
  <1>3. Disturbing(s, f)[s] = f[s]
    BY DEF Disturbing
  <1>4. ASSUME NEW t \in Shells \ {s}
        PROVE  /\ Disturbing(s, f)[t].at = f[t].at /\ Disturbing(s, f)[t].cmd = f[t].cmd
               /\ Disturbing(s, f)[t].mode = f[t].mode /\ Disturbing(s, f)[t].then = f[t].then
               /\ Disturbing(s, f)[t].names = f[t].names
               /\ f[t].disturbed => Disturbing(s, f)[t].disturbed
               /\ f[t].at = "serving" => Disturbing(s, f)[t].disturbed
    <2>1. f[t] \in ShellStates
      OBVIOUS
    <2>2. CASE f[t].at = "idle"
      BY <2>2 DEF Disturbing
    <2>3. CASE f[t].at # "idle"
      <3>1. Disturbing(s, f)[t] = [f[t] EXCEPT !.disturbed = TRUE]
        BY <2>3 DEF Disturbing
      <3>. QED BY <2>1, <3>1 DEF ShellStates
    <2>. QED BY <2>2, <2>3
  <1>. QED BY <1>2, <1>3, <1>4

LEMMA LockKeeps == ASSUME DirInv, NEW s \in Shells, Lock(s) PROVE DirInv'
  <1>0. DirTyped /\ Course(s)
    BY AtWork
  <1>1. shell' = [shell EXCEPT ![s].at = "manifest"] /\ shell[s].at = "wants"
    BY DEF Lock, Moves
  <1>2. "manifest" \in {"idle", "stamp", "spawn", "boots", "serving"} \cup Building \cup Exporting
    BY DEF Building
  <1>3. /\ shell' \in [Shells -> ShellStates] /\ OthersStay(s)
        /\ shell'[s].at = "manifest" /\ shell'[s].cmd = shell[s].cmd /\ shell'[s].mode = shell[s].mode
        /\ shell'[s].then = shell[s].then
    BY <1>0, <1>1, <1>2, MoveFacts
  <1>4. /\ UNCHANGED <<there, torn, inventory, stamp, mark, manifest, source, site>>
        /\ builder' \in Shells \cup {None} /\ ~Rests(s)
    BY <1>1 DEF Lock, disk, Rests
  <1>5. Course(s)' /\ Built(s)' /\ Started(s)' /\ Serves(s)'
    BY <1>0, <1>1, <1>3 DEF Course, Built, Started, Serves, Undisturbed, Building, Exporting
  <1>. QED BY <1>3, <1>4, <1>5, ReadsKeep

LEMMA GenerateManifestKeeps == ASSUME DirInv, NEW s \in Shells, GenerateManifest(s) PROVE DirInv'
  <1>0. DirTyped /\ Course(s) /\ PublishedSiteIsWhole
    BY AtWork
  <1>1. shell' = [shell EXCEPT ![s].at = "css"] /\ shell[s].at = "manifest"
    BY DEF GenerateManifest, Moves
  <1>2. "css" \in {"idle", "stamp", "spawn", "boots", "serving"} \cup Building \cup Exporting
    BY DEF Building
  <1>3. /\ shell' \in [Shells -> ShellStates] /\ OthersStay(s)
        /\ shell'[s].at = "css" /\ shell'[s].cmd = shell[s].cmd /\ shell'[s].mode = shell[s].mode
        /\ shell'[s].then = shell[s].then
    BY <1>0, <1>1, <1>2, MoveFacts
  <1>4. UNCHANGED <<there, torn, inventory, stamp, source, site, builder>> /\ mark'
    BY DEF GenerateManifest
  <1>5. Course(s)' /\ Built(s)' /\ Started(s)' /\ Serves(s)'
    BY <1>0, <1>1, <1>3, <1>4 DEF Course, Built, Started, Serves, Undisturbed, Building, Exporting
  <1>6. DirTyped' /\ OthersAreLeft(s)
    BY <1>0, <1>3, <1>4 DEF DirTyped, DirTypeOK, OthersAreLeft
  <1>7. UnmarkedIsBuilt' /\ PublishedSiteIsWhole'
    BY <1>0, <1>4 DEF UnmarkedIsBuilt, PublishedSiteIsWhole
  <1>8. ~Rests(s)
    BY <1>1 DEF Rests
  <1>. QED BY <1>3, <1>5, <1>6, <1>7, <1>8, AloneAtWork, StepKeeps

LEMMA CompileCssKeeps == ASSUME DirInv, NEW s \in Shells, CompileCss(s) PROVE DirInv'
  <1>0. DirTyped /\ Course(s) /\ Built(s) /\ PublishedSiteIsWhole /\ shell \in [Shells -> ShellStates]
    BY AtWork DEF DirTyped
  <1>1. shell[s].at = "css"
    BY DEF CompileCss
  <1>2. PICK wrote \in BOOLEAN :
          \/ /\ there' = there
             /\ shell' = [shell EXCEPT ![s].at = "bundle", ![s].wrote = wrote, ![s].owned = Owned]
          \/ shell' = Disturbing(s, [shell EXCEPT ![s].at = "bundle", ![s].wrote = wrote, ![s].owned = Owned])
    <2>1. Compiles(s) \in BOOLEAN
      BY Zenon DEF Compiles
    <2>. QED BY <2>1 DEF CompileCss
  <1>13. PICK moved : moved = [shell EXCEPT ![s].at = "bundle", ![s].wrote = wrote, ![s].owned = Owned]
    OBVIOUS
  <1>3. Owned \in SUBSET Files
    <2>1. inventory \in (SUBSET Files) \cup {None}
      BY <1>0 DEF DirTyped, DirTypeOK
    <2>. QED BY <2>1 DEF Owned
  <1>4. /\ moved \in [Shells -> ShellStates]
        /\ moved[s].at = "bundle" /\ moved[s].cmd = shell[s].cmd /\ moved[s].mode = shell[s].mode
        /\ moved[s].then = shell[s].then
        /\ \A t \in Shells \ {s} : moved[t] = shell[t]
    <2>1. "bundle" \in {"idle", "stamp", "spawn", "boots", "serving"} \cup Building \cup Exporting
      BY DEF Building
    <2>2. moved \in [Shells -> ShellStates]
      <3>1. PICK r : r = [shell[s] EXCEPT !.at = "bundle", !.wrote = wrote, !.owned = Owned]
        OBVIOUS
      <3>2. r \in ShellStates
        BY <1>0, <1>3, <2>1, <3>1, ZenonT(40) DEF ShellStates
      <3>3. moved = [shell EXCEPT ![s] = r]
        BY <1>13, <3>1
      <3>. QED BY <1>0, <3>2, <3>3
    <2>3. \A t \in Shells \ {s} : moved[t] = shell[t]
      BY <1>0, <1>13
    <2>4. moved[s] = [shell[s] EXCEPT !.at = "bundle", !.wrote = wrote, !.owned = Owned]
      BY <1>0, <1>13
    <2>. QED BY <1>0, <2>2, <2>3, <2>4 DEF ShellStates
  <1>5. (there' = there /\ shell' = moved) \/ shell' = Disturbing(s, moved)
    BY <1>2, <1>13
  <1>6. /\ shell' \in [Shells -> ShellStates] /\ OthersStay(s)
        /\ shell'[s].at = "bundle" /\ shell'[s].cmd = shell[s].cmd /\ shell'[s].mode = shell[s].mode
        /\ shell'[s].then = shell[s].then
        /\ there' = there \/ \A t \in Shells \ {s} : shell'[t].at = "serving" => shell'[t].disturbed
    <2>1. CASE there' = there /\ shell' = moved
      BY <1>4, <2>1 DEF OthersStay
    <2>2. CASE shell' = Disturbing(s, moved)
      BY <1>4, <2>2, DisturbingFacts DEF OthersStay
    <2>. QED BY <1>5, <2>1, <2>2
  <1>7. UNCHANGED <<torn, inventory, stamp, mark, manifest, source, site, builder>>
    BY DEF CompileCss
  <1>8. there' \subseteq Files
    <2>1. PlainStyle \in Files /\ there \subseteq Files
      BY <1>0, BuildsFiles DEF DirTyped, DirTypeOK
    <2>. QED BY <2>1 DEF CompileCss
  <1>9. DirTyped' /\ OthersAreLeft(s)
    BY <1>0, <1>6, <1>7, <1>8 DEF DirTyped, DirTypeOK, OthersAreLeft
  <1>10. Course(s)' /\ Built(s)' /\ Started(s)' /\ Serves(s)'
    BY <1>0, <1>1, <1>6, <1>7 DEF Course, Built, Started, Serves, Undisturbed, Building, Exporting
  <1>11. UnmarkedIsBuilt' /\ PublishedSiteIsWhole'
    BY <1>0, <1>1, <1>7 DEF Built, UnmarkedIsBuilt, PublishedSiteIsWhole
  <1>12. ~Rests(s)
    BY <1>1 DEF Rests
  <1>. QED BY <1>6, <1>9, <1>10, <1>11, <1>12, AloneAtWork, StepKeeps

LEMMA BundleKeeps == ASSUME DirInv, NEW s \in Shells, Bundle(s) PROVE DirInv'
  <1>0. DirTyped /\ Course(s) /\ Built(s) /\ PublishedSiteIsWhole /\ shell \in [Shells -> ShellStates]
    BY AtWork DEF DirTyped
  <1>1. shell[s].at = "bundle"
    BY DEF Bundle
  <1>2. Written(s) \in SUBSET Files /\ HasEntry(Written(s), shell[s].mode)
    BY <1>0, BuildsFiles
  <1>14. PICK moved : moved = [shell EXCEPT ![s].at = "sweep", ![s].names = Written(s)]
    OBVIOUS
  <1>3. shell' = Disturbing(s, moved)
    BY <1>14 DEF Bundle
  <1>4. /\ moved \in [Shells -> ShellStates]
        /\ moved[s].at = "sweep" /\ moved[s].cmd = shell[s].cmd /\ moved[s].mode = shell[s].mode
        /\ moved[s].then = shell[s].then /\ moved[s].names = Written(s)
        /\ \A t \in Shells \ {s} : moved[t] = shell[t]
    <2>1. "sweep" \in {"idle", "stamp", "spawn", "boots", "serving"} \cup Building \cup Exporting
      BY DEF Building
    <2>2. moved \in [Shells -> ShellStates]
      <3>1. PICK r : r = [shell[s] EXCEPT !.at = "sweep", !.names = Written(s)]
        OBVIOUS
      <3>2. r \in ShellStates
        BY <1>0, <1>2, <2>1, <3>1, ZenonT(40) DEF ShellStates
      <3>3. moved = [shell EXCEPT ![s] = r]
        BY <1>14, <3>1
      <3>. QED BY <1>0, <3>2, <3>3
    <2>3. \A t \in Shells \ {s} : moved[t] = shell[t]
      BY <1>0, <1>14
    <2>4. moved[s] = [shell[s] EXCEPT !.at = "sweep", !.names = Written(s)]
      BY <1>0, <1>14
    <2>. QED BY <1>0, <2>2, <2>3, <2>4 DEF ShellStates
  <1>5. /\ shell' \in [Shells -> ShellStates] /\ OthersStay(s)
        /\ shell'[s].at = "sweep" /\ shell'[s].cmd = shell[s].cmd /\ shell'[s].mode = shell[s].mode
        /\ shell'[s].then = shell[s].then /\ shell'[s].names = Written(s)
        /\ \A t \in Shells \ {s} : shell'[t].at = "serving" => shell'[t].disturbed
    BY <1>3, <1>4, DisturbingFacts DEF OthersStay
  <1>6. UNCHANGED <<inventory, stamp, mark, manifest, source, site, builder>>
    BY DEF Bundle
  <1>7. there' \subseteq Files /\ torn' \subseteq Files /\ Written(s) \subseteq there'
    <2>1. there \subseteq Files /\ torn \subseteq Files
      BY <1>0 DEF DirTyped, DirTypeOK
    <2>. QED BY <1>2, <2>1 DEF Bundle
  <1>8. DirTyped' /\ OthersAreLeft(s)
    BY <1>0, <1>5, <1>6, <1>7 DEF DirTyped, DirTypeOK, OthersAreLeft
  <1>9. HasEntry(shell'[s].names, shell'[s].mode)
    BY <1>2, <1>5
  <1>10. Built(s)'
    BY <1>0, <1>1, <1>5, <1>6, <1>7, <1>9 DEF Built, OthersAreDisturbed, HasEntry
  <1>11. Course(s)' /\ Started(s)' /\ Serves(s)'
    BY <1>0, <1>1, <1>5 DEF Course, Started, Serves, Undisturbed, Building, Exporting
  <1>12. UnmarkedIsBuilt' /\ PublishedSiteIsWhole'
    BY <1>0, <1>1, <1>6 DEF Built, UnmarkedIsBuilt, PublishedSiteIsWhole
  <1>13. ~Rests(s)
    BY <1>1 DEF Rests
  <1>. QED BY <1>5, <1>8, <1>10, <1>11, <1>12, <1>13, AloneAtWork, StepKeeps

\* What is left of a build: sweep, inventory and stamp.
LEMMA RecordsKeep ==
    ASSUME DirInv, NEW s \in Shells, Sweep(s) \/ WriteInventory(s) \/ WriteStamp(s) PROVE DirInv'
  <1>0. DirTyped /\ Course(s) /\ Built(s) /\ PublishedSiteIsWhole /\ shell[s] \in ShellStates
    BY AtWork
  <1>1. /\ shell[s].at \in {"sweep", "record", "stamps"} /\ ~Rests(s)
        /\ mark /\ shell[s].names \subseteq there /\ HasEntry(shell[s].names, shell[s].mode)
        /\ OthersAreDisturbed(s)
        /\ shell[s].names \in SUBSET Files /\ shell[s].mode \in Modes
    BY <1>0, ShellFields DEF Sweep, WriteInventory, WriteStamp, Moves, Rests, Built
  <1>2. PICK to \in {"record", "stamps", "checks"} :
          /\ shell' = [shell EXCEPT ![s].at = to]
          /\ to \in {"stamps", "checks"} => inventory' = shell[s].names
          /\ to = "checks" => stamp' = shell[s].mode
    <2>1. CASE Sweep(s)
      BY <2>1 DEF Sweep, Moves
    <2>2. CASE WriteInventory(s)
      BY <2>2 DEF WriteInventory, Moves
    <2>3. CASE WriteStamp(s)
      BY <1>0, <2>3 DEF WriteStamp, Moves, Built
    <2>. QED BY <2>1, <2>2, <2>3
  <1>3. to \in {"idle", "stamp", "spawn", "boots", "serving"} \cup Building \cup Exporting
    BY DEF Building
  <1>4. /\ shell' \in [Shells -> ShellStates] /\ OthersStay(s)
        /\ shell'[s].at = to /\ shell'[s].cmd = shell[s].cmd /\ shell'[s].mode = shell[s].mode
        /\ shell'[s].then = shell[s].then /\ shell'[s].names = shell[s].names
        /\ \A t \in Shells \ {s} : shell'[t] = shell[t]
    BY <1>0, <1>2, <1>3, MoveFacts
  <1>5. UNCHANGED <<mark, manifest, source, site, builder>>
    BY DEF Sweep, WriteInventory, WriteStamp
  <1>6. /\ there' \subseteq Files /\ torn' \subseteq Files /\ shell[s].names \subseteq there'
        /\ inventory' \in (SUBSET Files) \cup {None} /\ stamp' \in Modes \cup {"none"}
    <2>1. /\ there \subseteq Files /\ torn \subseteq Files
          /\ inventory \in (SUBSET Files) \cup {None} /\ stamp \in Modes \cup {"none"}
      BY <1>0 DEF DirTyped, DirTypeOK
    <2>2. CASE Sweep(s)
      BY <1>1, <2>1, <2>2 DEF Sweep, Sweepable
    <2>3. CASE WriteInventory(s)
      BY <1>1, <2>1, <2>3 DEF WriteInventory
    <2>4. CASE WriteStamp(s)
      BY <1>1, <2>1, <2>4 DEF WriteStamp
    <2>. QED BY <2>2, <2>3, <2>4
  <1>7. DirTyped'
    BY <1>0, <1>4, <1>5, <1>6 DEF DirTyped, DirTypeOK
  <1>8. OthersAreDisturbed(s)'
    BY <1>1, <1>4 DEF OthersAreDisturbed
  <1>9. OthersAreLeft(s)
    BY <1>8 DEF OthersAreLeft, OthersAreDisturbed
  <1>10. HasEntry(shell'[s].names, shell'[s].mode)
    BY <1>1, <1>4
  <1>11. Built(s)'
    BY <1>1, <1>2, <1>4, <1>5, <1>6, <1>8, <1>10 DEF Built, HasEntry
  <1>12. Course(s)' /\ Started(s)' /\ Serves(s)'
    BY <1>0, <1>1, <1>4 DEF Course, Started, Serves, Undisturbed, Building, Exporting
  <1>13. UnmarkedIsBuilt' /\ PublishedSiteIsWhole'
    BY <1>0, <1>1, <1>5 DEF UnmarkedIsBuilt, PublishedSiteIsWhole
  <1>. QED BY <1>1, <1>4, <1>7, <1>9, <1>11, <1>12, <1>13, AloneAtWork, StepKeeps

\* The mark goes last, off a tree that is whole.
LEMMA DoneKeeps == ASSUME DirInv, NEW s \in Shells, Done(s) PROVE DirInv'
  <1>0. DirTyped /\ Course(s) /\ Built(s) /\ PublishedSiteIsWhole /\ shell[s] \in ShellStates
    BY AtWork
  <1>1. /\ shell[s].at = "checks" /\ ~Rests(s)
        /\ shell[s].names \subseteq there /\ HasEntry(shell[s].names, shell[s].mode)
        /\ inventory = shell[s].names /\ stamp = shell[s].mode
        /\ shell[s].names \in SUBSET Files /\ inventory # None
    BY <1>0, ShellFields, NoneAssumption DEF Done, Rests, Built
  <1>2. UNCHANGED <<there, torn, inventory, stamp, manifest, source, site>> /\ builder' = None
    BY DEF Done
  <1>3. UnmarkedIsBuilt'
    <2>1. HasEntry(inventory, stamp)
      BY <1>1
    <2>. QED BY <1>1, <1>2, <2>1 DEF UnmarkedIsBuilt, HasEntry
  <1>4. PublishedSiteIsWhole'
    BY <1>0, <1>2 DEF PublishedSiteIsWhole
  <1>5. CASE shell[s].then = "idle"
    <2>1. shell' = [shell EXCEPT ![s] = Idle]
      BY <1>5 DEF Done
    <2>2. /\ shell' \in [Shells -> ShellStates] /\ shell'[s] = Idle
          /\ \A t \in Shells \ {s} : shell'[t] = shell[t]
      BY <1>0, <2>1, IdleIsTyped DEF DirTyped
    <2>3. DirTyped' /\ OthersStay(s) /\ OthersAreLeft(s)
      BY <1>0, <1>2, <2>2 DEF DirTyped, DirTypeOK, OthersStay, OthersAreLeft
    <2>4. Course(s)' /\ Built(s)' /\ Started(s)' /\ Serves(s)'
      BY <2>2, IdleIsTyped DEF Course, Built, Started, Serves, Undisturbed
    <2>. QED BY <1>1, <1>3, <1>4, <2>3, <2>4, AloneAtWork, StepKeeps
  <1>6. CASE shell[s].then # "idle"
    <2> DEFINE to == shell[s].then
    <2>0. /\ \/ shell[s].cmd = "start" /\ shell[s].mode = "production" /\ to \in {"spawn", "serving"}
             \/ shell[s].cmd = "export" /\ shell[s].mode = "export" /\ to \in {"boots", "renders"}
      BY <1>0, <1>1, <1>6 DEF Course
    <2>1. shell' = [shell EXCEPT ![s].at = to]
      BY <1>6 DEF Done
    <2>2. to \in {"idle", "stamp", "spawn", "boots", "serving"} \cup Building \cup Exporting
      BY <2>0 DEF Exporting
    <2>3. /\ shell' \in [Shells -> ShellStates] /\ OthersStay(s)
          /\ shell'[s].at = to /\ shell'[s].cmd = shell[s].cmd /\ shell'[s].mode = shell[s].mode
          /\ shell'[s].then = shell[s].then /\ shell'[s].names = shell[s].names
      BY <1>0, <2>1, <2>2, MoveFacts
    <2>. HIDE DEF to
    <2>4. DirTyped' /\ OthersAreLeft(s)
      BY <1>0, <1>2, <2>3 DEF DirTyped, DirTypeOK, OthersAreLeft
    <2>5. Course(s)'
      BY <2>0, <2>3 DEF Course, Exporting, to
    <2>6. Built(s)'
      BY <2>0, <2>3 DEF Built
    <2>7. Started(s)'
      BY <1>1, <1>2, <2>0, <2>3 DEF Started, HasEntry
    <2>8. Serves(s)'
      BY <1>1, <1>2, <2>0, <2>3 DEF Serves, Undisturbed, HasEntry
    <2>. QED BY <1>1, <1>3, <1>4, <2>3, <2>4, <2>5, <2>6, <2>7, <2>8, AloneAtWork, StepKeeps
  <1>. QED BY <1>5, <1>6

LEMMA BuildsKeep == ASSUME DirInv, NEW s \in Shells, BuildsAssets(s) PROVE DirInv'
  <1>1. CASE CssFails(s) \/ BundleFails(s) \/ ChannelRefused(s)
    <2>1. /\ shell' = [shell EXCEPT ![s] = Idle] /\ UNCHANGED <<disk, source>>
          /\ builder' \in Shells \cup {None} /\ site' = site
      BY <1>1 DEF CssFails, BundleFails, ChannelRefused, Fails
    <2>2. site' \in Stages \cup {None} /\ PublishedSiteIsWhole'
      BY <2>1 DEF DirInv, DirTyped, PublishedSiteIsWhole
    <2>. QED BY <2>1, <2>2, EndingKeeps
  <1>. QED BY <1>1, LockKeeps, GenerateManifestKeeps, CompileCssKeeps, BundleKeeps, RecordsKeep, DoneKeeps
           DEF BuildsAssets

\* What export publishes is for everyone, and for good.
LEMMA ExportedFacts == \A p \in Exported : p \in Pages /\ ~Guarded(p) /\ ~PageKind[p].revalidate
  <1> SUFFICES ASSUME NEW p \in Exported PROVE p \in Pages /\ ~Guarded(p) /\ ~PageKind[p].revalidate
    OBVIOUS
  <1>1. p \in Pages /\ Planned(p) /\ PageKind[p].guard # "middleware.go"
    BY DEF Exported
  <1>2. PageKind[p] \in PageKinds
    BY <1>1, WorkspaceAssumption
  <1>3. PageKind[p].guard \in {"none", "middleware.ts", "middleware.go"}
    BY <1>2 DEF PageKinds
  <1>4. PageKind[p].guard # "middleware.ts" /\ ~PageKind[p].revalidate
    BY <1>1 DEF Planned
  <1>. QED BY <1>1, <1>3, <1>4 DEF Guarded

\* An export stages what it rendered, copies what it names, and only then
\* takes the old site away.
LEMMA ExportsKeep == ASSUME DirInv, NEW s \in Shells, Exports(s) PROVE DirInv'
  <1>0. /\ DirTyped /\ shell \in [Shells -> ShellStates] /\ shell[s] \in ShellStates
        /\ Course(s) /\ Started(s) /\ UnmarkedIsBuilt /\ PublishedSiteIsWhole
        /\ there \subseteq Files /\ builder \in Shells \cup {None} /\ site \in Stages \cup {None}
        /\ shell[s].names \in SUBSET Files /\ shell[s].staged \in Stages \cup {None}
    BY AtWork, ShellFields DEF DirTyped, DirTypeOK
  <1>1. /\ UNCHANGED <<there, torn, inventory, stamp, mark, manifest, source, builder>>
        /\ shell[s].at \in Exporting
    BY DEF Exports, Render, RenderFails, CopyPublic, Unpublish, Publish, Moves, disk, Exporting
  <1>2. ~Rests(s)
    BY <1>1 DEF Rests, Exporting
  <1>3. CASE Render(s)
    <2>1. PICK tree : tree = [pages |-> Exported, names |-> shell[s].names, assets |-> {}]
      OBVIOUS
    <2>2. /\ shell' = [shell EXCEPT ![s].at = "copies", ![s].staged = tree]
          /\ shell[s].at = "renders" /\ site' = site
      BY <1>3, <2>1 DEF Render
    <2>3. tree \in Stages /\ tree.names = shell[s].names /\ tree.pages = Exported
      BY <1>0, <2>1 DEF Stages, Exported
    <2>4. PICK r : r = [shell[s] EXCEPT !.at = "copies", !.staged = tree]
      OBVIOUS
    <2>5. /\ r \in ShellStates /\ r.at = "copies" /\ r.staged = tree /\ r.cmd = shell[s].cmd
          /\ r.mode = shell[s].mode /\ r.then = shell[s].then
      BY <1>0, <2>3, <2>4 DEF ShellStates, Exporting
    <2>6. shell' = [shell EXCEPT ![s] = r]
      BY <2>2, <2>4
    <2>7. /\ shell' \in [Shells -> ShellStates] /\ shell'[s] = r
          /\ \A t \in Shells \ {s} : shell'[t] = shell[t]
      BY <1>0, <2>5, <2>6
    <2>8. OthersStay(s)
      BY <2>7 DEF OthersStay
    <2>9. shell[s].names # {} /\ shell[s].names \subseteq there
      BY <1>0, <2>2 DEF Started
    <2>10. Course(s)' /\ Built(s)' /\ Serves(s)'
      BY <1>0, <2>2, <2>5, <2>7 DEF Course, Built, Serves, Undisturbed, Building, Exporting
    <2>11. Started(s)'
      <3>1. (tree.names \subseteq there)' /\ Exported' = Exported
        BY <1>1, <2>3, <2>9 DEF Exported, Planned
      <3>. QED BY <2>3, <2>5, <2>7, <2>9, <3>1 DEF Started
    <2>. QED BY <1>0, <1>1, <1>2, <2>2, <2>7, <2>8, <2>10, <2>11, ReadsKeep
  <1>4. CASE RenderFails(s)
    <2>1. shell' = [shell EXCEPT ![s] = Idle] /\ site' = site
      BY <1>4 DEF RenderFails
    <2>2. PublishedSiteIsWhole'
      BY <1>0, <2>1 DEF PublishedSiteIsWhole
    <2>. QED BY <1>0, <1>1, <2>1, <2>2, EndingKeeps DEF disk
  <1>5. CASE CopyPublic(s)
    <2>1. /\ shell' = [shell EXCEPT ![s].at = "unpublishes", ![s].staged.assets = there]
          /\ shell[s].at = "copies" /\ site' = site
      BY <1>5 DEF CopyPublic
    <2>2. PICK old : old = shell[s].staged
      OBVIOUS
    <2>3. /\ old \in Stages /\ old.names # {} /\ old.pages = Exported /\ old.names \subseteq there
      BY <1>0, <2>1, <2>2 DEF Started
    <2>4. PICK tree : tree = [old EXCEPT !.assets = there]
      OBVIOUS
    <2>5. tree \in Stages /\ tree.names = old.names /\ tree.pages = old.pages /\ tree.assets = there
      BY <1>0, <2>3, <2>4 DEF Stages
    <2>6. PICK r : r = [shell[s] EXCEPT !.at = "unpublishes", !.staged = tree]
      OBVIOUS
    <2>7. /\ r \in ShellStates /\ r.at = "unpublishes" /\ r.staged = tree /\ r.cmd = shell[s].cmd
          /\ r.mode = shell[s].mode /\ r.then = shell[s].then
      BY <1>0, <2>5, <2>6 DEF ShellStates, Exporting
    <2>8. shell' = [shell EXCEPT ![s] = r]
      BY <1>0, <2>1, <2>2, <2>4, <2>6 DEF ShellStates
    <2>9. /\ shell' \in [Shells -> ShellStates] /\ shell'[s] = r
          /\ \A t \in Shells \ {s} : shell'[t] = shell[t]
      BY <1>0, <2>7, <2>8
    <2>10. OthersStay(s)
      BY <2>9 DEF OthersStay
    <2>11. Course(s)' /\ Built(s)' /\ Serves(s)'
      BY <1>0, <2>1, <2>7, <2>9 DEF Course, Built, Serves, Undisturbed, Building, Exporting
    <2>12. Started(s)'
      <3>1. Exported' = Exported
        BY DEF Exported, Planned
      <3>. QED BY <2>3, <2>5, <2>7, <2>9, <3>1 DEF Started
    <2>. QED BY <1>0, <1>1, <1>2, <2>1, <2>9, <2>10, <2>11, <2>12, ReadsKeep
  <1>6. CASE Unpublish(s)
    <2>1. shell' = [shell EXCEPT ![s].at = "publishes"] /\ shell[s].at = "unpublishes" /\ site' = None
      BY <1>6 DEF Unpublish, Moves
    <2>2. "publishes" \in {"idle", "stamp", "spawn", "boots", "serving"} \cup Building \cup Exporting
      BY DEF Exporting
    <2>3. /\ shell' \in [Shells -> ShellStates] /\ OthersStay(s)
          /\ shell'[s].at = "publishes" /\ shell'[s].cmd = shell[s].cmd /\ shell'[s].mode = shell[s].mode
          /\ shell'[s].then = shell[s].then /\ shell'[s].staged = shell[s].staged
      BY <1>0, <2>1, <2>2, MoveFacts
    <2>4. Course(s)' /\ Built(s)' /\ Serves(s)'
      BY <1>0, <2>1, <2>3 DEF Course, Built, Serves, Undisturbed, Building, Exporting
    <2>5. Started(s)'
      <3>1. Exported' = Exported
        BY DEF Exported, Planned
      <3>. QED BY <1>0, <2>1, <2>3, <3>1 DEF Started
    <2>6. DirTyped' /\ OthersAreLeft(s)
      BY <1>0, <1>1, <2>1, <2>3 DEF DirTyped, DirTypeOK, OthersAreLeft
    <2>7. UnmarkedIsBuilt' /\ PublishedSiteIsWhole'
      BY <1>0, <1>1, <2>1 DEF UnmarkedIsBuilt, HasEntry, PublishedSiteIsWhole
    <2>. QED BY <1>2, <2>3, <2>4, <2>5, <2>6, <2>7, AloneAtWork, StepKeeps
  <1>7. CASE Publish(s)
    <2>1. /\ shell' = [shell EXCEPT ![s] = Idle] /\ shell[s].at = "publishes"
          /\ site' = shell[s].staged \/ site' = site
      BY <1>7 DEF Publish
    <2>2. /\ shell[s].staged \in Stages /\ shell[s].staged.names # {}
          /\ shell[s].staged.pages = Exported
          /\ shell[s].staged.names \subseteq shell[s].staged.assets
      BY <1>0, <2>1 DEF Started
    <2>3. PublishedSiteIsWhole'
      <3>1. CASE site' = site
        BY <1>0, <3>1 DEF PublishedSiteIsWhole
      <3>2. CASE site' = shell[s].staged
        BY <2>2, <3>2, ExportedFacts DEF PublishedSiteIsWhole, Guarded
      <3>. QED BY <2>1, <3>1, <3>2
    <2>4. site' \in Stages \cup {None}
      BY <1>0, <2>1, <2>2
    <2>. QED BY <1>0, <1>1, <2>1, <2>3, <2>4, EndingKeeps DEF disk
  <1>. QED BY <1>3, <1>4, <1>5, <1>6, <1>7 DEF Exports

\* A bundler that is killed leaves half a file, under the mark.
LEMMA CrashKeeps == ASSUME DirInv, NEW s \in Shells, Crash(s) PROVE DirInv'
  <1>0. /\ DirTyped /\ shell \in [Shells -> ShellStates] /\ Built(s) /\ PublishedSiteIsWhole
        /\ there \subseteq Files /\ torn \subseteq Files /\ builder \in Shells \cup {None}
        /\ site \in Stages \cup {None} /\ shell[s] \in ShellStates
    BY AtWork DEF DirTyped, DirTypeOK
  <1>1. /\ UNCHANGED <<inventory, stamp, mark, manifest, source, site>>
        /\ builder' \in Shells \cup {None} /\ PublishedSiteIsWhole'
    BY <1>0 DEF Crash, PublishedSiteIsWhole
  <1>2. PICK js, dead :
          /\ js = Script(source.v, shell[s].mode) /\ dead = [shell EXCEPT ![s] = Idle]
          /\ \/ UNCHANGED <<there, torn>> /\ shell' = dead
             \/ /\ shell[s].at = "bundle"
                /\ there' = there \ {js} /\ torn' = torn \cup {js}
                /\ shell' = Disturbing(s, dead)
    BY DEF Crash
  <1>3. CASE UNCHANGED <<there, torn>> /\ shell' = dead
    BY <1>0, <1>1, <1>2, <1>3, EndingKeeps DEF disk
  <1>4. CASE /\ shell[s].at = "bundle"
             /\ there' = there \ {js} /\ torn' = torn \cup {js}
             /\ shell' = Disturbing(s, dead)
    <2>1. js \in Files
      <3>1. Script(source.v, shell[s].mode) \in Written(s) /\ Written(s) \in SUBSET Files
        BY <1>0, BuildsFiles
      <3>. QED BY <1>2, <3>1
    <2>2. dead \in [Shells -> ShellStates] /\ dead[s] = Idle /\ \A t \in Shells \ {s} : dead[t] = shell[t]
      BY <1>0, <1>2, IdleIsTyped
    <2>3. /\ shell' \in [Shells -> ShellStates] /\ shell'[s] = Idle /\ OthersStay(s)
          /\ \A t \in Shells \ {s} : shell'[t].at = "serving" => shell'[t].disturbed
      <3>1. shell' = Disturbing(s, dead)
        BY <1>4
      <3>2. /\ shell' \in [Shells -> ShellStates] /\ shell'[s] = dead[s]
            /\ \A t \in Shells \ {s} :
                 /\ shell'[t].at = dead[t].at /\ shell'[t].cmd = dead[t].cmd
                 /\ shell'[t].mode = dead[t].mode /\ shell'[t].then = dead[t].then
                 /\ shell'[t].names = dead[t].names
                 /\ dead[t].disturbed => shell'[t].disturbed
                 /\ dead[t].at = "serving" => shell'[t].disturbed
        BY <2>2, <3>1, DisturbingFacts
      <3>. QED BY <2>2, <3>2 DEF OthersStay
    <2>4. DirTyped' /\ OthersAreLeft(s)
      BY <1>0, <1>1, <1>4, <2>1, <2>3 DEF DirTyped, DirTypeOK, OthersAreLeft
    <2>5. Course(s)' /\ Built(s)' /\ Started(s)' /\ Serves(s)'
      BY <2>3, IdleIsTyped DEF Course, Built, Started, Serves, Undisturbed
    <2>6. UnmarkedIsBuilt' /\ ~Rests(s)
      BY <1>0, <1>1, <1>4 DEF Built, UnmarkedIsBuilt, Rests
    <2>. QED BY <1>1, <2>3, <2>4, <2>5, <2>6, AloneAtWork, StepKeeps
  <1>. QED BY <1>2, <1>3, <1>4

\* The app changes between builds, or nothing does.
LEMMA EditKeeps ==
    ASSUME DirInv, UNCHANGED <<there, torn, inventory, stamp, mark, manifest, site, shell, builder>>,
           source' \in [v : Versions, sheet : {"scss", "css", "none"}, broken : BOOLEAN]
    PROVE  DirInv'
  <1>1. DirTyped' /\ OneWorks' /\ UnmarkedIsBuilt' /\ PublishedSiteIsWhole'
    BY DEF DirInv, DirTyped, DirTypeOK, OneWorks, Rests, UnmarkedIsBuilt, HasEntry, PublishedSiteIsWhole
  <1>2. ASSUME NEW s \in Shells PROVE Course(s)' /\ Built(s)' /\ Started(s)' /\ Serves(s)'
    <2>1. Course(s) /\ Built(s) /\ Started(s) /\ Serves(s)
      BY DEF DirInv
    <2>2. Course(s)'
      BY <2>1 DEF Course
    <2>3. Built(s)'
      BY <2>1 DEF Built, OthersAreDisturbed, HasEntry
    <2>4. Started(s)'
      BY <2>1 DEF Started
    <2>5. Serves(s)'
      BY <2>1 DEF Serves, Undisturbed, HasEntry
    <2>. QED BY <2>2, <2>3, <2>4, <2>5
  <1>. QED BY <1>1, <1>2 DEF DirInv

LEMMA DirInitHolds == DirInit => DirInv
  <1> SUFFICES ASSUME DirInit PROVE DirInv
    OBVIOUS
  <1>1. /\ source = Init0 /\ there = {} /\ torn = {} /\ inventory = None /\ stamp = "none"
        /\ ~manifest /\ site = None /\ builder = None /\ \A s \in Shells : shell[s] = Idle
        /\ shell \in [Shells -> ShellStates]
    BY IdleIsTyped DEF DirInit
  <1>2. source \in [v : Versions, sheet : {"scss", "css", "none"}, broken : BOOLEAN]
    <2>1. 0 \in Versions
      BY WorkspaceAssumption DEF Versions
    <2>. QED BY <1>1, <2>1 DEF Init0
  <1>3. DirTyped
    BY <1>1, <1>2 DEF DirTyped, DirTypeOK
  <1>4. OneWorks /\ UnmarkedIsBuilt /\ PublishedSiteIsWhole
    BY <1>1, IdleIsTyped DEF OneWorks, Rests, UnmarkedIsBuilt, PublishedSiteIsWhole
  <1>5. ASSUME NEW s \in Shells PROVE Course(s) /\ Built(s) /\ Started(s) /\ Serves(s)
    BY <1>1, IdleIsTyped DEF Course, Built, Started, Serves, Undisturbed
  <1>. QED BY <1>3, <1>4, <1>5 DEF DirInv

LEMMA DirStepHolds == ASSUME Alone, DirInv, [DirNext]_dirVars PROVE DirInv'
  <1>1. ASSUME NEW s \in Shells, Commands(s) \/ Starts(s) \/ BuildsAssets(s) \/ Exports(s) \/ Crash(s)
        PROVE  DirInv'
    BY <1>1, CommandsKeep, StartsKeep, BuildsKeep, ExportsKeep, CrashKeeps
  <1>2. CASE Edit
    <2>1. PICK sheet \in {"scss", "css", "none"}, broken \in BOOLEAN :
            source' = [v |-> source.v + 1, sheet |-> sheet, broken |-> broken]
      BY <1>2 DEF Edit
    <2>2. source.v + 1 \in Versions
      <3>1. source.v \in Versions /\ source.v < MaxEdits
        BY <1>2, SourceTyped DEF DirInv, Edit
      <3>. QED BY <3>1, WorkspaceAssumption DEF Versions
    <2>3. source' \in [v : Versions, sheet : {"scss", "css", "none"}, broken : BOOLEAN]
      BY <2>1, <2>2
    <2>. QED BY <1>2, <2>3, EditKeeps DEF Edit, disk
  <1>3. CASE UNCHANGED dirVars
    <2>1. source' \in [v : Versions, sheet : {"scss", "css", "none"}, broken : BOOLEAN]
      BY <1>3 DEF DirInv, DirTyped, dirVars
    <2>. QED BY <1>3, <2>1, EditKeeps DEF dirVars
  <1>. QED BY <1>1, <1>2, <1>3 DEF DirNext

\* Whatever is killed, and between whichever writes, a server that nobody has
\* disturbed serves the whole output of one production build, and dist/site is
\* absent or one export that rendered and copied to the end, of pages that no
\* guard and no clock keeps from being files.  Where no command begins while
\* another works: a build beside an export takes what its pages name.
THEOREM OutputsStayWhole == ASSUME Alone PROVE DirSpec => []OutputsAreWhole
  <1>1. DirInv => OutputsAreWhole
    <2> SUFFICES ASSUME DirInv PROVE OutputsAreWhole
      OBVIOUS
    <2>1. ServedTreeIsWhole
      BY DEF DirInv, Serves, HasEntry, ServedTreeIsWhole
    <2>. QED BY <2>1 DEF DirInv, DirTyped, OutputsAreWhole
  <1>2. DirInv /\ [DirNext]_dirVars => DirInv'
    BY DirStepHolds
  <1>. QED BY <1>1, <1>2, DirInitHolds, PTL DEF DirSpec

-----------------------------------------------------------------------------
(* One asset and its siblings.  A client keeps a file with the etag it came *)
(* with, and a length in the record of a build is the length of what the   *)
(* name says, wherever compressing it pays.                                *)

OnDisk == [content : Contents, size : Nat \ {0}, at : Nat]

\* what is on disk is a file of some content, of its length
FilesAreTyped ==
    /\ DOMAIN files = Parts
    /\ \A part \in Parts : files[part] # Gone =>
           files[part] \in OnDisk /\ files[part].size = SizeOf[files[part].content][part]

\* the lengths a build records are of what the name says
OfTheName(lengths) ==
    /\ lengths \in [Parts -> Nat]
    /\ \A part \in Parts :
           lengths[part] # 0 /\ hashed # Gone /\ part \in Writes(hashed) =>
               lengths[part] = SizeOf[hashed][part]

\* a process that boots under a name nothing vouches for has no lengths
ServedIsTheName ==
    /\ OfTheName(served.recorded)
    /\ hashed = Gone => served.recorded = Nothing

\* what a client keeps is the file of its etag
HeldIsItsEtag ==
    held # Gone => held.etag.size = held.file.size /\ held.etag.at = held.file.at

AssetInv ==
    /\ hashed \in Contents \cup {Gone}
    /\ now \in 0 .. MaxWrites
    /\ FilesAreTyped
    /\ OfTheName(recorded)
    /\ served.index \subseteq Parts
    /\ ServedIsTheName
    /\ HeldIsItsEtag

LEMMA FileIsTyped ==
    ASSUME NEW c \in Contents, NEW part \in Parts, NEW n \in Nat
    PROVE  /\ File(c, part, n) \in OnDisk
           /\ File(c, part, n).content = c
           /\ File(c, part, n).size = SizeOf[c][part]
  <1>1. SizeOf[c][part] \in Nat \ {0}
    BY AssetAssumption
  <1> QED
    BY <1>1 DEF File, OnDisk

LEMMA NothingIsOfTheName == OfTheName(Nothing)
  BY DEF OfTheName, Nothing

LEMMA AssetInvInit == AssetInit => AssetInv
  <1> SUFFICES ASSUME AssetInit PROVE AssetInv
    OBVIOUS
  <1>1. PICK c \in Contents :
           files = [part \in Parts |-> IF part = "plain" THEN File(c, part, 0) ELSE Gone]
    BY DEF AssetInit
  <1>2. FilesAreTyped
    BY <1>1, FileIsTyped DEF FilesAreTyped, Parts
  <1>3. /\ OfTheName(recorded) /\ OfTheName(served.recorded)
        /\ served.recorded = Nothing /\ served.index = {}
    BY NothingIsOfTheName DEF AssetInit
  <1> QED
    BY <1>2, <1>3, AssetAssumption DEF AssetInit, AssetInv, ServedIsTheName, HeldIsItsEtag

\* A build writes what the name says wherever that pays, and records it.
LEMMA BuildKeepsAssets == AssetInv /\ Build => AssetInv'
  <1> SUFFICES ASSUME AssetInv, Build PROVE AssetInv'
    OBVIOUS
  <1> USE DEF AssetInv
  <1> DEFINE c == IF hashed = Gone THEN files["plain"].content ELSE hashed
  <1>1. c \in Contents
    <2>1. hashed = Gone => files["plain"] \in OnDisk
      BY DEF Build, FilesAreTyped, Parts
    <2> QED
      BY <2>1 DEF OnDisk
  <1>2. files' = [part \in Parts |-> Precompressed(c, part)]
    BY DEF Build
  <1>3. now \in Nat /\ now' = now + 1 /\ now' \in 0 .. MaxWrites
        /\ UNCHANGED <<hashed, served, held>>
    BY AssetAssumption DEF Build
  <1> HIDE DEF c
  <1>4. \A part \in Parts : files'[part] = files[part] \/ files'[part] = File(c, part, now + 1)
    BY <1>2 DEF Precompressed
  <1>5. FilesAreTyped'
    BY <1>1, <1>2, <1>3, <1>4, FileIsTyped DEF FilesAreTyped
  <1>6. OfTheName(recorded)'
    <2>1. recorded' = [part \in Parts |-> IF files'[part] = Gone THEN 0 ELSE files'[part].size]
      BY DEF Build, Lengths
    <2>2. recorded' \in [Parts -> Nat]
      BY <1>5, <2>1 DEF FilesAreTyped, OnDisk
    <2>3. ASSUME NEW part \in Parts, recorded'[part] # 0, hashed # Gone, part \in Writes(hashed)
          PROVE  recorded'[part] = SizeOf[hashed][part]
      <3>1. c = hashed
        BY <2>3 DEF c
      <3>2. part = "plain" \/ Shrinks(c, part)
        BY <2>3, <3>1 DEF Writes
      <3>3. files'[part] = File(c, part, now + 1)
        BY <1>2, <2>3, <3>2 DEF Precompressed
      <3> QED
        BY <1>1, <1>3, <2>1, <2>3, <3>1, <3>3, FileIsTyped
    <2> QED
      BY <1>3, <2>2, <2>3 DEF OfTheName, Writes, Shrinks
  <1>7. (ServedIsTheName /\ HeldIsItsEtag)'
    BY <1>3 DEF ServedIsTheName, OfTheName, HeldIsItsEtag, Writes, Shrinks
  <1> QED
    BY <1>3, <1>5, <1>6, <1>7

LEMMA WritesKeepAssets ==
    ASSUME AssetInv, NEW part \in Parts, Replace(part) \/ Remove(part)
    PROVE  AssetInv'
  <1> USE DEF AssetInv
  <1>1. UNCHANGED <<hashed, recorded, served, held>> /\ now \in Nat /\ now' \in 0 .. MaxWrites
    BY AssetAssumption DEF Replace, Remove
  <1>2. FilesAreTyped'
    <2>1. CASE Remove(part)
      BY <2>1 DEF Remove, FilesAreTyped
    <2>2. CASE Replace(part)
      <3>1. PICK c \in Contents, n \in {now, now + 1} :
              files' = [files EXCEPT ![part] = File(c, part, n)]
        BY <2>2 DEF Replace
      <3>2. n \in Nat
        BY <1>1
      <3> QED
        BY <3>1, <3>2, FileIsTyped DEF FilesAreTyped
    <2> QED
      BY <2>1, <2>2
  <1>3. (OfTheName(recorded) /\ ServedIsTheName /\ HeldIsItsEtag)'
    BY <1>1 DEF ServedIsTheName, OfTheName, HeldIsItsEtag, Writes, Shrinks
  <1> QED
    BY <1>1, <1>2, <1>3

LEMMA BootKeepsAssets == AssetInv /\ Boot => AssetInv'
  <1> SUFFICES ASSUME AssetInv, Boot PROVE AssetInv'
    OBVIOUS
  <1> USE DEF AssetInv
  <1>1. UNCHANGED <<hashed, files, recorded, touched, now, held>>
    BY DEF Boot, deployed
  <1>2. PICK dev \in BOOLEAN :
           served' = Process(dev, IF dev \/ files["plain"] = Gone THEN {} ELSE {p \in Parts : files[p] # Gone})
    BY DEF Boot
  <1>3. /\ served'.index \subseteq Parts
        /\ served'.recorded = IF hashed = Gone THEN Nothing ELSE recorded
    BY <1>2 DEF Process
  <1>4. OfTheName(Nothing) /\ OfTheName(recorded)
    BY NothingIsOfTheName
  <1>5. ServedIsTheName'
    BY <1>1, <1>3, <1>4 DEF ServedIsTheName, OfTheName, Writes, Shrinks
  <1>6. (OfTheName(recorded) /\ FilesAreTyped /\ HeldIsItsEtag)'
    BY <1>1 DEF OfTheName, FilesAreTyped, HeldIsItsEtag, Writes, Shrinks
  <1> QED
    BY <1>1, <1>3, <1>5, <1>6

LEMMA AskKeepsAssets == AssetInv /\ Ask => AssetInv'
  <1> SUFFICES ASSUME AssetInv, Ask PROVE AssetInv'
    OBVIOUS
  <1> USE DEF AssetInv
  <1>1. UNCHANGED <<hashed, files, recorded, touched, now, served>>
    BY DEF Ask, deployed
  <1>2. \/ held' = held
        \/ \E accepts \in SUBSET Siblings : \E etag :
             /\ Answer(accepts, etag).status = 200
             /\ held' = Kept(Answer(accepts, etag))
    BY DEF Ask
  <1>3. ASSUME NEW accepts \in SUBSET Siblings, NEW etag, Answer(accepts, etag).status = 200,
               held' = Kept(Answer(accepts, etag))
        PROVE  held'.etag.size = held'.file.size /\ held'.etag.at = held'.file.at
    <2>1. /\ Answer(accepts, etag).etag = Etag(Sent(accepts))
          /\ Answer(accepts, etag).file = files[Sent(accepts)]
      BY <1>3 DEF Answer
    <2>2. held'.etag = Etag(Sent(accepts)) /\ held'.file = files[Sent(accepts)]
      BY <1>3, <2>1 DEF Kept
    <2> QED
      BY <2>2 DEF Etag
  <1>4. HeldIsItsEtag'
    BY <1>2, <1>3 DEF HeldIsItsEtag
  <1>5. (OfTheName(recorded) /\ FilesAreTyped /\ ServedIsTheName)'
    BY <1>1 DEF OfTheName, FilesAreTyped, ServedIsTheName, Writes, Shrinks
  <1> QED
    BY <1>1, <1>4, <1>5

LEMMA AssetInvStep == AssetInv /\ [AssetNext]_assetVars => AssetInv'
  <1> SUFFICES ASSUME AssetInv, [AssetNext]_assetVars PROVE AssetInv'
    OBVIOUS
  <1>1. CASE UNCHANGED assetVars
    BY <1>1 DEF assetVars, deployed, AssetInv, FilesAreTyped, OfTheName, ServedIsTheName,
                HeldIsItsEtag, Writes, Shrinks
  <1> QED
    BY <1>1, BuildKeepsAssets, WritesKeepAssets, BootKeepsAssets, AskKeepsAssets DEF AssetNext

\* The lengths of a year are recorded ones, and so those of the name.
LEMMA PinnedLengths == AssetInv => PinnedIsTheName
  <1> SUFFICES ASSUME AssetInv, NEW accepts \in SUBSET Siblings,
                      Answer(accepts, Gone).status # 404, Answer(accepts, Gone).pinned,
                      NEW part \in {Answer(accepts, Gone).part, "plain"}
               PROVE  hashed # Gone /\ (part \in Writes(hashed) =>
                            files[part] # Gone /\ files[part].size = SizeOf[hashed][part])
    BY DEF PinnedIsTheName
  <1> USE DEF AssetInv
  <1>1. Answer(accepts, Gone).part = Sent(accepts) /\ Pinned(Sent(accepts))
    BY DEF Answer
  <1>2. part \in Parts
    BY <1>1 DEF Sent, Negotiated, Preferred, Parts
  <1>3. Vouched(part)
    BY <1>1 DEF Pinned
  <1>4. /\ files[part] # Gone
        /\ served.recorded[part] = files[part].size
    BY <1>3 DEF Vouched
  <1>5. files[part].size \in Nat \ {0}
    BY <1>2, <1>4 DEF FilesAreTyped, OnDisk
  <1>6. served.recorded # Nothing
    BY <1>2, <1>4, <1>5 DEF Nothing
  <1> QED
    BY <1>2, <1>4, <1>5, <1>6 DEF ServedIsTheName, OfTheName

\* A 304 is given for a file of the length and the date of the one that is
\* kept, and a url is there or not for every coding, whatever was built,
\* replaced, removed or booted in between (compress.ts serveIndexed, serveAsset,
\* assetEtag).
THEOREM AssetsAgree == AssetSpec => [](AnswersAgree /\ OneStatusPerUrl)
  <1>1. AssetInv => AnswersAgree /\ OneStatusPerUrl
    <2> SUFFICES ASSUME AssetInv PROVE AnswersAgree /\ OneStatusPerUrl
      OBVIOUS
    <2>1. AssetTypeOK
      BY DEF AssetInv, AssetTypeOK, FilesAreTyped, OfTheName
    <2>2. NothingStaleIsConfirmed
      <3> SUFFICES ASSUME held # Gone, NEW accepts \in SUBSET Siblings,
                          Answer(accepts, held.etag).status = 304
                   PROVE  /\ Answer(accepts, held.etag).file.size = held.file.size
                          /\ Answer(accepts, held.etag).file.at = held.file.at
        BY DEF NothingStaleIsConfirmed
      <3>1. /\ Answer(accepts, held.etag).file = files[Sent(accepts)]
            /\ Etag(Sent(accepts)) = held.etag
        BY DEF Answer, NotModified
      <3> QED
        BY <3>1 DEF AssetInv, HeldIsItsEtag, Etag
    <2>3. OneStatusPerUrl
      <3> SUFFICES ASSUME NEW accepts \in SUBSET Siblings
                   PROVE  (Answer(accepts, Gone).status = 404) <=> files["plain"] = Gone
        BY DEF OneStatusPerUrl
      <3>1. files["plain"] # Gone => files[Sent(accepts)] # Gone
        BY DEF Sent
      <3>2. Found(accepts) <=> files["plain"] # Gone
        BY <3>1 DEF Found
      <3> QED
        BY <3>2 DEF Answer
    <2> QED
      BY <2>1, <2>2, <2>3 DEF AnswersAgree
  <1> QED
    BY AssetInvInit, AssetInvStep, <1>1, PTL DEF AssetSpec

\* A year is given under a hashed name only, to a file of the length the name's
\* content has, that stands for one of that length (compress.ts pinPolicy;
\* build.ts recordedOutputSizes).
THEOREM YearsAreForTheName == AssetSpec => []PinnedIsTheName
  BY AssetInvInit, AssetInvStep, PinnedLengths, PTL DEF AssetSpec

-----------------------------------------------------------------------------
(* The dev session.  A file is heard with the content it has, or its save  *)
(* is on its way: in the watcher, in the batch of a side, in the chain, or *)
(* in the rebuild that runs.  What runs is what was heard, but for what is *)
(* on its way; the tabs follow it; and what the terminal said of a process *)
(* that is down is true of the saves that come after.                      *)

\* what the watcher makes of a file: the content it heard, or forgot and will hear
LastHeard(f) == IF seen[f] = Absent THEN content[f] ELSE seen[f]
Modules == FrontSources \ Styles

ChainStages == {"idle", "go build", "go swap", "go rename", "go ready", "front stops", "front starts",
                "front ready", "css poke", "css tell"}

\* the rebuilds that wait, by the files they were asked for, and the one that runs
Later(side) == {jobs[i].changed : i \in {k \in DOMAIN jobs : jobs[k].side = side /\ (k > 1 \/ stage = "idle")}}
Now == Head(jobs)

\* a save the watcher will not take for an echo
Fresh(f) == f \in events /\ seen[f] = Absent
Unheard(fs) == \E f \in fs : Fresh(f)

Due(side) == pending[side] # {} \/ Later(side) # {}
Asked(side, f) == f \in pending[side] \/ \E c \in Later(side) : f \in c
Restarting == stage \in {"front stops", "front starts"}
GoIsDue == Due("api") \/ stage = "go build" \/ Unheard(GoSources)
FrontIsDue == Due("app") \/ Restarting \/ Unheard(Modules)
StyleIsDue == Due("css") \/ stage = "css poke" \/ Unheard(Styles)
Listed(f) == Asked("app", f) \/ (Restarting /\ f \in Now.changed) \/ Fresh(f)

\* the watcher
HearsAll ==
    \A f \in Sources :
        /\ f \in Styles => seen[f] = Absent
        /\ f \notin events => seen[f] \in {content[f], Absent}

ChainIsInStep ==
    /\ pending["css"] \subseteq Styles
    /\ \A c \in Later("css") : c \cap Styles # {}
    /\ stage = "css poke" => Now.changed \cap Styles # {}

Sound(fs) == \A f \in fs : LastHeard(f) # "bad"
Ahead(half) == ahead[half] # {}

\* the go half
GoIsOfWhatWasHeard ==
    /\ ~GoIsDue /\ Sound(GoFiles) /\ ~Ahead("api") =>
          \A f \in GoSources : built[f] = LastHeard(f) \/ LastHeard(f) = "bad"
    /\ stage # "go swap" /\ goProc # Absent => goProc.of = built
    /\ goProc # Absent => goProc.of = liveHash
    /\ stage = "go rename" => goProc = Absent /\ liveHash = built
    /\ said["api"] # "nothing" => goProc = Absent

\* the front
FrontIsInStep ==
    /\ stage = "front starts" => frontProc = Absent
    /\ stage = "css tell" /\ Up(frontProc) => Serving
\* the front is as its sources were heard, but for the files a rebuild is due for
FrontIsOf(f) == frontProc.of[f] = LastHeard(f) \/ Listed(f) \/ f \in ahead["app"]
FrontIsOfWhatWasHeard ==
    /\ Serving => \A f \in Modules : FrontIsOf(f)
    /\ Serving /\ Sound(Styles) /\ ~StyleIsDue => \A f \in Styles : frontProc.of[f] = LastHeard(f)
    /\ Up(frontProc) /\ frontProc.is = "fallback" /\ ~FrontIsDue /\ ~StyleIsDue =>
          ~Sound(FrontSources) \/ Ahead("app")

\* the words of the terminal
GoIsComing == GoIsDue \/ stage \in {"go swap", "go rename"}
GoCannot == ~Sound(GoFiles) \/ Ahead("api")
WordsAreKept ==
    /\ said["api"] # "nothing" => GoIsComing \/ GoCannot \/ \A f \in GoSources : seen[f] = Absent
    /\ said["api"] = "saved" => GoIsComing \/ GoCannot
    /\ said["app"] # "nothing" => FrontIsDue \/ \A f \in Modules : seen[f] = Absent
    /\ said["app"] = "saved" => FrontIsDue

\* the tabs
Tab(p) == FrontSources \ (PageFiles \ {p})
Told == Up(goProc) /\ stage # "go ready"
TabsAreTyped ==
    \A p \in PageFiles :
        /\ screen[p].is \in {"page", "overlay", "503"}
        /\ screen[p].is = "overlay" <=> screen[p] = Overlay
        /\ screen[p].is = "503" <=> screen[p] = Unavailable
        /\ screen[p].is = "page" =>
              screen[p] = [is |-> "page", of |-> screen[p].of] /\ DOMAIN screen[p].of = Tab(p)
NoOverlayOfGood == Told /\ Serving => \A p \in PageFiles : screen[p].is # "overlay"
TabsFollowModules ==
    Told => \A p \in PageFiles : screen[p].is = "page" =>
        \A f \in Tab(p) \ Styles :
            \/ screen[p].of[f] = LastHeard(f) \/ Listed(f) \/ f \in untold
            \/ Booting /\ f \in frontProc.changed
\* what a service is of that nobody heard yet, the tabs may not show
AheadIsUntold == ahead["app"] \ Styles \subseteq untold
TabsFollowStyles ==
    Told /\ Sound(Styles) /\ ~StyleIsDue /\ stage # "css tell" =>
        \/ Restarting /\ Now.changed \cap Styles # {}
        \/ Booting /\ frontProc.changed \cap Styles # {}
        \/ \A p \in PageFiles : screen[p].is = "page" => \A f \in Styles :
              screen[p].of[f] = LastHeard(f) \/ f \in untold

DevInv ==
    /\ HearsAll /\ ChainIsInStep /\ GoIsOfWhatWasHeard /\ FrontIsInStep /\ FrontIsOfWhatWasHeard
    /\ WordsAreKept /\ TabsAreTyped /\ NoOverlayOfGood /\ AheadIsUntold /\ TabsFollowModules
    /\ TabsFollowStyles

-----------------------------------------------------------------------------
GoProcs == [up : BOOLEAN, of : [GoSources -> Texts]]
FrontProcs == [up : BOOLEAN, is : {"booting", "serving", "fallback"}, of : [FrontSources -> Texts],
               changed : SUBSET Sources]
Rebuild == [side : Sides, changed : SUBSET Sources]
DevTypes ==
    /\ content \in [Sources -> Texts]
    /\ seen \in [Sources -> Texts \cup {Absent}]
    /\ events \subseteq Sources
    /\ pending \in [Sides -> SUBSET Sources]
    /\ jobs \in Seq(Rebuild)
    /\ stage \in ChainStages
    /\ jobs = <<>> => stage = "idle"
    /\ built \in [GoSources -> Texts]
    /\ liveHash \in [GoSources -> Texts] \cup {Absent}
    /\ goProc \in GoProcs \cup {Absent}
    /\ frontProc \in FrontProcs \cup {Absent}
    /\ said \in [{"api", "app"} -> {"nothing", "down", "saved", "styled"}]
    /\ generated \in [EnvFiles -> Texts]
    /\ ahead \in [{"api", "app"} -> SUBSET Sources] /\ untold \subseteq Sources
AbsentIsNothing ==
    /\ Absent \notin Texts /\ Absent \notin [GoSources -> Texts]
    /\ Absent \notin GoProcs /\ Absent \notin FrontProcs

\* What DevSession assumes of Absent, in the words of this module.
LEMMA AbsentIsApart == AbsentIsNothing
BY DevAbsentAssumption DEF AbsentIsNothing, GoProcs, FrontProcs

\* Every variable keeps its type.
LEMMA DevTypesHold == ASSUME DevTypes, [DevNext]_devVars PROVE DevTypes'
<1> USE DevAssumption DEF DevTypes, GoText, FrontText, GoSources, FrontSources, words
<1>1. ASSUME NEW f \in Sources, Save(f) PROVE DevTypes'
  BY <1>1 DEF Save, Answered, Texts, procs
<1>2. ASSUME NEW f \in Sources, Straggler(f) PROVE DevTypes'
  BY <1>2 DEF Straggler, Trouble, procs
<1>3. ASSUME NEW f \in Sources, Hear(f) PROVE DevTypes'
  BY <1>3 DEF Hear, InWindow, counters, procs
<1>4. ASSUME NEW s \in Sides, Flush(s) PROVE DevTypes'
  <2>1. [side |-> s, changed |-> pending[s]] \in Rebuild
    BY DEF Rebuild
  <2>2. jobs' \in Seq(Rebuild) /\ jobs' # <<>>
    BY <1>4, <2>1 DEF Flush
  <2> QED BY <1>4, <2>2 DEF Flush, counters, procs
<1>5. ASSUME Take PROVE DevTypes'
  BY <1>5 DEF Take, First, counters, procs, edited, ChainStages
<1>6. ASSUME JobEnds, jobs # <<>> PROVE jobs' \in Seq(Rebuild) /\ stage' \in ChainStages /\ stage' = "idle"
  BY <1>6, HeadTailProperties DEF JobEnds, ChainStages
<1> DEFINE Pairs(P) == /\ jobs' \in Seq(Rebuild) /\ stage' \in ChainStages /\ (jobs' = <<>> => stage' = "idle")
<1>18. ASSUME NEW half \in {"api", "app"}, NEW fs \in SUBSET Sources, Reads(half, fs)
      PROVE ahead' \in [{"api", "app"} -> SUBSET Sources]
  BY <1>18 DEF Reads, Early
<1>19. ASSUME Generates PROVE generated' \in [EnvFiles -> Texts]
  BY <1>19 DEF Generates, EnvFiles
<1>20. GoSources \in SUBSET Sources /\ FrontSources \in SUBSET Sources /\ Styles \subseteq Sources
       /\ \A c \in SUBSET Sources : Word(c) \subseteq Sources
  BY DEF Styles, Word
<1>21. WordIsLost => untold' \subseteq Sources
  BY <1>20 DEF WordIsLost, Booting, FrontProcs
<1>7. ASSUME GoUnchanged \/ GoStops \/ GoReady PROVE DevTypes'
  BY <1>7, <1>6 DEF GoUnchanged, GoStops, GoReady, Step, JobEnds, ChainStages,
     counters, procs, edited
<1>22. ASSUME GoBuilds PROVE DevTypes'
  <2>1. generated' \in [EnvFiles -> Texts] /\ ahead' \in [{"api", "app"} -> SUBSET Sources]
    BY <1>22, <1>18, <1>19, <1>20 DEF GoBuilds
  <2>2. built' \in [GoSources -> Texts]
    BY <1>22, <2>1 DEF GoBuilds
  <2> QED BY <1>22, <2>1, <2>2 DEF GoBuilds, Step, ChainStages, counters, procs, edited
<1>23. ASSUME GoBuildFails PROVE DevTypes'
  <2>1. generated' \in [EnvFiles -> Texts] /\ ahead' \in [{"api", "app"} -> SUBSET Sources]
    BY <1>23, <1>18, <1>19, <1>20 DEF GoBuildFails
  <2> QED BY <1>23, <1>6, <2>1 DEF GoBuildFails, JobEnds, counters, procs, edited
<1>8. ASSUME GoRenameFails PROVE DevTypes'
  BY <1>8, <1>6 DEF GoRenameFails, Says, Forget, JobEnds, counters, procs, edited
<1>9. ASSUME GoSpawns PROVE DevTypes'
  BY <1>9 DEF GoSpawns, Step, GoProcs, counters, procs, edited, ChainStages
<1>10. ASSUME FrontAnswers \/ CssUnanswered \/ CssFallsBack \/ StylesFail \/ CssTold
       PROVE DevTypes'
  BY <1>10, <1>6, <1>20 DEF FrontAnswers, CssUnanswered, CssFallsBack, StylesFail, CssTold, Step,
     JobEnds, ChainStages, counters, procs, edited
<1>24. ASSUME FrontStops PROVE DevTypes'
  BY <1>24, <1>21 DEF FrontStops, Step, ChainStages, procs, edited
<1>11. ASSUME FrontSpawns PROVE DevTypes'
  <2>1. Head(jobs) \in Rebuild
    BY <1>11, HeadTailProperties DEF FrontSpawns, Step
  <2>2. frontProc' \in FrontProcs
    BY <2>1, <1>11 DEF FrontSpawns, FrontOf, FrontProcs, Rebuild
  <2> QED BY <1>11, <2>2 DEF FrontSpawns, Step, counters, procs, edited, ChainStages
<1>12. ASSUME FrontBoots PROVE DevTypes'
  <2>2. frontProc' \in FrontProcs
    BY <1>12 DEF FrontBoots, FrontOf, FrontProcs, Up
  <2>3. ahead' \in [{"api", "app"} -> SUBSET Sources] /\ Early(FrontSources) \subseteq Sources
    BY <1>12, <1>18, <1>20 DEF FrontBoots, Early
  <2>4. untold' \subseteq Sources
    BY <1>12, <2>3 DEF FrontBoots
  <2> QED BY <1>12, <2>2, <2>3, <2>4 DEF FrontBoots, counters, procs, edited, ChainStages
<1>13. ASSUME CssCompiles PROVE DevTypes'
  <2>2. frontProc' \in FrontProcs
    BY <1>13 DEF CssCompiles, Restyled, FrontProcs, Serving, Up
  <2> QED BY <1>13, <2>2 DEF CssCompiles, Step, counters, procs, edited, ChainStages
<1>14. ASSUME GoDies PROVE DevTypes'
  <2>2. goProc' \in GoProcs
    BY <1>14 DEF GoDies, GoProcs, Up
  <2> QED BY <1>14, <2>2 DEF GoDies, edited
<1>15. ASSUME FrontDies PROVE DevTypes'
  <2>2. frontProc' \in FrontProcs
    BY <1>15 DEF FrontDies, FrontProcs, Up
  <2> QED BY <1>15, <2>2 DEF FrontDies, edited
<1>16. ASSUME Exits PROVE DevTypes'
  BY <1>16, <1>21 DEF Exits, GoExitHeard, FrontExitHeard, Says, Forget, counters
<1>17. ASSUME UNCHANGED devVars PROVE DevTypes'
  BY <1>17 DEF devVars, procs, counters
<1> QED
  BY <1>1, <1>2, <1>3, <1>4, <1>5, <1>7, <1>8, <1>9, <1>10, <1>11, <1>12, <1>13, <1>14, <1>15, <1>16, <1>17,
     <1>22, <1>23, <1>24
  DEF DevNext, Watches, Rebuilds

\* What the chain holds after each of its moves, by the side asked for.
LEMMA FlushAddsLast ==
    ASSUME DevTypes, NEW s \in Sides, Flush(s)
    PROVE /\ \A t \in Sides : Later(t)' = Later(t) \cup (IF t = s THEN {pending[s]} ELSE {})
          /\ stage # "idle" => Now' = Now
<1> DEFINE job == [side |-> s, changed |-> pending[s]]
           n == Len(jobs)
<1>1. /\ jobs \in Seq(Rebuild) /\ job \in Rebuild /\ jobs' = Append(jobs, job) /\ stage' = stage
      /\ (jobs = <<>> => stage = "idle")
  BY DEF DevTypes, Flush, Rebuild
<1>2. /\ n \in Nat /\ DOMAIN jobs = 1..n /\ DOMAIN jobs' = 1..(n + 1)
      /\ jobs'[n + 1] = job /\ \A k \in 1..n : jobs'[k] = jobs[k]
  BY <1>1, AppendProperties
<1>3. jobs # <<>> => n > 0
  BY <1>1, EmptySeq
<1>4. stage # "idle" => Now' = Now
  BY <1>1, <1>2, <1>3 DEF Now
<1>5. n = 0 => stage = "idle"
  BY <1>1, EmptySeq
<1> HIDE DEF n
<1>6. ASSUME NEW t \in Sides PROVE Later(t)' = Later(t) \cup (IF t = s THEN {pending[s]} ELSE {})
  <2>1. \A c : c \in Later(t)' <=> \E k \in 1..(n + 1) : c = jobs'[k].changed /\ jobs'[k].side = t /\ (k > 1 \/ stage = "idle")
    BY <1>1, <1>2 DEF Later
  <2>2. \A c : c \in Later(t) <=> \E k \in 1..n : c = jobs[k].changed /\ jobs[k].side = t /\ (k > 1 \/ stage = "idle")
    BY <1>1, <1>2 DEF Later
  <2>3. ASSUME NEW c \in Later(t)' PROVE c \in Later(t) \/ (t = s /\ c = pending[s])
    <3>1. PICK k \in 1..(n + 1) : c = jobs'[k].changed /\ jobs'[k].side = t /\ (k > 1 \/ stage = "idle")
      BY <2>1, <2>3
    <3>2. CASE k = n + 1
      BY <3>1, <3>2, <1>2
    <3>3. CASE k # n + 1
      BY <3>1, <3>3, <1>2, <2>2
    <3> QED BY <3>2, <3>3
  <2>4. ASSUME NEW c \in Later(t) PROVE c \in Later(t)'
    BY <2>1, <2>2, <2>4, <1>2
  <2>5. t = s => pending[s] \in Later(t)'
    <3>1. n + 1 \in 1..(n + 1) /\ (n + 1 > 1 \/ stage = "idle")
      BY <1>2, <1>5
    <3> QED BY <3>1, <2>1, <1>2
  <2> QED BY <2>3, <2>4, <2>5
<1> QED BY <1>4, <1>6

\* A rebuild that is taken leaves what waits and becomes the one that runs.
LEMMA TakeBegins ==
    ASSUME DevTypes, Take
    PROVE /\ Now \in Rebuild /\ Now' = Now /\ stage' = First(Now.side) /\ stage = "idle"
          /\ \A t \in Sides : Later(t) = Later(t)' \cup (IF t = Now.side THEN {Now.changed} ELSE {})
<1> DEFINE n == Len(jobs)
<1>1. jobs \in Seq(Rebuild) /\ jobs # <<>> /\ jobs' = jobs /\ stage = "idle" /\ stage' = First(Now.side)
  BY DEF DevTypes, Take, Now
<1>2. n \in Nat /\ n > 0 /\ DOMAIN jobs = 1..n /\ Now = jobs[1] /\ Now \in Rebuild
  BY <1>1, HeadTailProperties, EmptySeq DEF Now
<1>3. stage' # "idle"
  BY <1>1, <1>2 DEF First
<1> HIDE DEF n
<1>4. ASSUME NEW t \in Sides PROVE Later(t) = Later(t)' \cup (IF t = Now.side THEN {Now.changed} ELSE {})
  <2>1. \A c : c \in Later(t)' <=> \E k \in 1..n : c = jobs[k].changed /\ jobs[k].side = t /\ k > 1
    BY <1>1, <1>2, <1>3 DEF Later
  <2>2. \A c : c \in Later(t) <=> \E k \in 1..n : c = jobs[k].changed /\ jobs[k].side = t
    BY <1>1, <1>2 DEF Later
  <2>3. ASSUME NEW c \in Later(t) PROVE c \in Later(t)' \/ (t = Now.side /\ c = Now.changed)
    <3>1. PICK k \in 1..n : c = jobs[k].changed /\ jobs[k].side = t
      BY <2>2, <2>3
    <3>2. k = 1 \/ k > 1
      BY <1>2
    <3> QED BY <3>1, <3>2, <2>1, <1>2
  <2>4. ASSUME NEW c \in Later(t)' PROVE c \in Later(t)
    BY <2>1, <2>2, <2>4
  <2>5. t = Now.side => Now.changed \in Later(t)
    <3>1. 1 \in 1..n
      BY <1>2
    <3> QED BY <3>1, <2>2, <1>2
  <2> QED BY <2>3, <2>4, <2>5
<1> QED BY <1>1, <1>2, <1>4 DEF Now

\* A rebuild that ends takes nothing else with it.
LEMMA EndsKeepTheRest ==
    ASSUME DevTypes, JobEnds, stage # "idle"
    PROVE \A t \in Sides : Later(t)' = Later(t)
<1> DEFINE n == Len(jobs)
<1>1. jobs \in Seq(Rebuild) /\ jobs # <<>> /\ jobs' = Tail(jobs) /\ stage' = "idle"
  BY DEF DevTypes, JobEnds
<1>2. /\ n \in Nat /\ n > 0 /\ DOMAIN jobs = 1..n /\ DOMAIN jobs' = 1..(n - 1)
      /\ \A k \in 1..(n - 1) : jobs'[k] = jobs[k + 1]
  BY <1>1, HeadTailProperties, EmptySeq
<1> HIDE DEF n
<1>4. ASSUME NEW t \in Sides PROVE Later(t)' = Later(t)
  <2>1. \A c : c \in Later(t)' <=> \E k \in 1..(n - 1) : c = jobs'[k].changed /\ jobs'[k].side = t
    BY <1>1, <1>2 DEF Later
  <2>2. \A c : c \in Later(t) <=> \E k \in 1..n : c = jobs[k].changed /\ jobs[k].side = t /\ k > 1
    BY <1>1, <1>2 DEF Later
  <2>3. ASSUME NEW c \in Later(t) PROVE c \in Later(t)'
    <3>1. PICK k \in 1..n : c = jobs[k].changed /\ jobs[k].side = t /\ k > 1
      BY <2>2, <2>3
    <3>2. k - 1 \in 1..(n - 1) /\ jobs'[k - 1] = jobs[k]
      BY <1>2, <3>1
    <3> QED BY <3>1, <3>2, <2>1
  <2>4. ASSUME NEW c \in Later(t)' PROVE c \in Later(t)
    <3>1. PICK k \in 1..(n - 1) : c = jobs'[k].changed /\ jobs'[k].side = t
      BY <2>1, <2>4
    <3>2. k + 1 \in 1..n /\ k + 1 > 1 /\ jobs'[k] = jobs[k + 1]
      BY <1>2
    <3> QED BY <3>1, <3>2, <2>2
  <2> QED BY <2>3, <2>4
<1> QED BY <1>4

\* Nor does one that goes on.
LEMMA StepsKeepTheRest ==
    ASSUME jobs' = jobs, stage = stage' \/ (stage # "idle" /\ stage' # "idle")
    PROVE (\A t \in Sides : Later(t)' = Later(t)) /\ Now' = Now
BY DEF Later, Now

\* The sides a file is for, by the half that is built from it.
LEMMA SidesAreRight ==
    ASSUME NEW f \in Sources
    PROVE /\ "api" \in RebuildSides(f) <=> f \in GoSources
          /\ "app" \in RebuildSides(f) <=> f \in Modules
          /\ "css" \in RebuildSides(f) <=> f \in Styles
          /\ RebuildSides(f) \subseteq Sides
<1>1. Kind[f] \in {"go", "page", "env", "style"}
  BY DevAssumption
<1> QED
  BY <1>1 DEF RebuildSides, WatchedSide, GoSources, Modules, FrontSources, Styles, Sides

\* The kinds part the sources.
LEMMA KindsAreApart ==
    /\ GoSources \subseteq Sources /\ GoFiles \subseteq GoSources /\ EnvFiles \subseteq GoSources
    /\ GoFiles \cap EnvFiles = {} /\ \A f \in GoSources : f \in GoFiles \/ f \in EnvFiles
    /\ Modules \subseteq Sources /\ Styles \subseteq Sources
    /\ FrontSources \subseteq Sources /\ FrontSources = Modules \cup Styles /\ Modules \cap Styles = {}
    /\ GoSources \cap Styles = {} /\ PageFiles \subseteq Modules
    /\ \A f \in Sources : f \in GoSources \cup FrontSources
BY DevAssumption DEF GoSources, GoFiles, EnvFiles, Modules, FrontSources, Styles, PageFiles

\* What was asked of a side stays asked until the chain takes it.
LEMMA WhatIsAskedStays ==
    ASSUME DevTypes, [DevNext]_devVars, NEW s \in Sides
    PROVE /\ Due(s) => Due(s)' \/ (Take /\ Now.side = s)
          /\ \A f : Asked(s, f) => Asked(s, f)' \/ (Take /\ Now.side = s /\ f \in Now.changed)
<1> DEFINE Goal == /\ Due(s) => Due(s)' \/ (Take /\ Now.side = s)
                   /\ \A f : Asked(s, f) => Asked(s, f)' \/ (Take /\ Now.side = s /\ f \in Now.changed)
<1>1. ASSUME pending[s] \subseteq pending'[s], Later(s) \subseteq Later(s)' PROVE Goal
  BY <1>1 DEF Due, Asked
<1>2. ASSUME NEW t \in Sides, Flush(t) PROVE Goal
  <2>1. pending' = [pending EXCEPT ![t] = {}] /\ pending[t] # {} /\ pending \in [Sides -> SUBSET Sources]
    BY <1>2 DEF Flush, DevTypes
  <2>2. Later(s)' = Later(s) \cup (IF s = t THEN {pending[t]} ELSE {})
    BY <1>2, FlushAddsLast
  <2> QED BY <2>1, <2>2 DEF Due, Asked
<1>3. ASSUME Take PROVE Goal
  <2>1. pending' = pending
    BY <1>3 DEF Take, edited
  <2>2. Later(s) = Later(s)' \cup (IF s = Now.side THEN {Now.changed} ELSE {})
    BY <1>3, TakeBegins
  <2> QED BY <1>3, <2>1, <2>2 DEF Due, Asked
<1>4. ASSUME NEW f \in Sources, Hear(f) PROVE Goal
  <2>1. pending[s] \subseteq pending'[s]
    BY <1>4 DEF Hear, InWindow, DevTypes
  <2>2. Later(s) \subseteq Later(s)'
    BY <1>4, StepsKeepTheRest DEF Hear
  <2> QED BY <2>1, <2>2, <1>1
<1>5. ASSUME JobEnds, stage # "idle", pending' = pending PROVE Goal
  BY <1>5, <1>1, EndsKeepTheRest
<1>6. ASSUME jobs' = jobs, stage' = stage \/ (stage # "idle" /\ stage' # "idle"), pending' = pending
      PROVE Goal
  BY <1>6, <1>1, StepsKeepTheRest
<1> HIDE DEF Goal
<1>7. ASSUME NEW f \in Sources, Save(f) \/ Straggler(f) PROVE Goal
  BY <1>7, <1>6 DEF Save, Straggler
<1>8. ASSUME GoBuildFails \/ GoUnchanged \/ GoRenameFails \/ GoReady \/ FrontAnswers \/ CssUnanswered \/ StylesFail \/ CssTold
      PROVE Goal
  BY <1>8, <1>5 DEF GoBuildFails, GoUnchanged, GoRenameFails, GoReady, FrontAnswers, CssUnanswered,
     StylesFail, CssTold, edited
<1>9. ASSUME GoBuilds \/ GoStops \/ GoSpawns \/ FrontStops \/ FrontSpawns \/ CssFallsBack \/ CssCompiles
      PROVE Goal
  BY <1>9, <1>6 DEF GoBuilds, GoStops, GoSpawns, FrontStops, FrontSpawns, CssFallsBack, CssCompiles,
     edited, Step
<1>10. ASSUME FrontBoots \/ GoDies \/ FrontDies \/ Exits \/ UNCHANGED devVars PROVE Goal
  BY <1>10, <1>6 DEF FrontBoots, GoDies, FrontDies, Exits, GoExitHeard, FrontExitHeard, edited, devVars
<1> QED
  BY <1>2, <1>3, <1>4, <1>7, <1>8, <1>9, <1>10 DEF DevNext, Watches, Rebuilds, Goal

\* A file is heard as it was, or its save waits for the watcher, or it is asked for.
LEMMA WhatIsSavedIsHeard ==
    ASSUME DevTypes, AbsentIsNothing, HearsAll, [DevNext]_devVars
    PROVE /\ HearsAll'
          /\ \A f \in Sources :
               \/ (LastHeard(f)' = LastHeard(f) /\ ~Fresh(f) /\ (seen[f] = Absent => seen'[f] = Absent))
               \/ Fresh(f)'
               \/ \A s \in RebuildSides(f) : Asked(s, f)'
<1> DEFINE Same(f) == LastHeard(f)' = LastHeard(f) /\ ~Fresh(f) /\ (seen[f] = Absent => seen'[f] = Absent)
           Goal == /\ HearsAll'
                   /\ \A f \in Sources : \/ Same(f) \/ Fresh(f)' \/ \A s \in RebuildSides(f) : Asked(s, f)'
<1> USE DEF DevTypes
<1>1. ASSUME NEW f \in Sources, Save(f) PROVE Goal
  <2>1. /\ events' = events \cup {f} /\ seen' = seen /\ content' \in [Sources -> Texts]
        /\ \A g \in Sources : g # f => content'[g] = content[g]
    BY <1>1 DEF Save
  <2> QED BY <2>1 DEF Fresh, LastHeard, HearsAll
<1>2. ASSUME NEW f \in Sources, Straggler(f) PROVE Goal
  <2>1. events' = events \cup {f} /\ seen' = seen /\ content' = content
    BY <1>2 DEF Straggler
  <2> QED BY <2>1 DEF Fresh, LastHeard, HearsAll
<1>3. ASSUME NEW f \in Sources, Hear(f) PROVE Goal
  <2>1. events' = events \ {f} /\ content' = content
    BY <1>3 DEF Hear
  <2>2. \A g \in Sources : g # f => seen'[g] = seen[g]
    BY <1>3 DEF Hear
  <2>3. CASE IsUnchanged(f)
    <3>1. seen' = seen /\ seen[f] = content[f] /\ seen[f] # Absent
      BY <1>3, <2>3 DEF Hear, IsUnchanged, AbsentIsNothing
    <3> QED BY <2>1, <3>1 DEF Fresh, LastHeard, HearsAll
  <2>4. CASE ~IsUnchanged(f)
    <3>1. \A s \in RebuildSides(f) : Asked(s, f)'
      BY <1>3, <2>4, SidesAreRight DEF Hear, InWindow, Asked
    <3>2. HearsAll'
      BY <1>3, <2>1, <2>2, <2>4 DEF Hear, HearsAll, Deduplicated, Styles
    <3>3. \A g \in Sources : g # f => Same(g) \/ Fresh(g)'
      BY <2>1, <2>2 DEF Fresh, LastHeard
    <3> QED BY <3>1, <3>2, <3>3
  <2> QED BY <2>3, <2>4
<1>4. ASSUME content' = content, events' = events, seen' = Forget(Sources) PROVE Goal
  <2>1. \A f \in Sources : seen'[f] = Absent
    BY <1>4 DEF Forget
  <2> QED BY <1>4, <2>1 DEF Fresh, LastHeard, HearsAll
<1>5. ASSUME content' = content, events' = events, seen' = seen PROVE Goal
  BY <1>5 DEF Fresh, LastHeard, HearsAll
<1> HIDE DEF Goal, DevTypes
<1>6. ASSUME GoRenameFails \/ Exits PROVE Goal
  BY <1>6, <1>4 DEF GoRenameFails, Exits, GoExitHeard, FrontExitHeard, Says
<1>7. ASSUME NEW s \in Sides, Flush(s) PROVE Goal
  BY <1>7, <1>5 DEF Flush
<1>8. ASSUME GoBuildFails \/ GoUnchanged \/ GoReady \/ FrontAnswers \/ CssUnanswered \/ StylesFail \/ CssTold
      PROVE Goal
  BY <1>8, <1>5 DEF GoBuildFails, GoUnchanged, GoReady, FrontAnswers, CssUnanswered, StylesFail,
     CssTold, edited
<1>9. ASSUME Take \/ GoBuilds \/ GoStops \/ GoSpawns \/ FrontStops \/ FrontSpawns \/ CssFallsBack \/ CssCompiles
      PROVE Goal
  BY <1>9, <1>5 DEF Take, GoBuilds, GoStops, GoSpawns, FrontStops, FrontSpawns, CssFallsBack,
     CssCompiles, edited
<1>10. ASSUME FrontBoots \/ GoDies \/ FrontDies \/ UNCHANGED devVars PROVE Goal
  BY <1>10, <1>5 DEF FrontBoots, GoDies, FrontDies, edited, devVars
<1> QED
  BY <1>1, <1>2, <1>3, <1>6, <1>7, <1>8, <1>9, <1>10 DEF DevNext, Watches, Rebuilds, Goal

\* With no event left, what was heard is what the files hold.
LEMMA HeardIsHeld ==
    ASSUME DevTypes, HearsAll, events = {}
    PROVE \A f \in Sources : LastHeard(f) = content[f] /\ ~Fresh(f)
BY DEF HearsAll, LastHeard, Fresh

\* What a build did not read early is what was heard.
LEMMA WhatIsReadIsHeard ==
    ASSUME NEW fs, NEW f \in fs, f \notin Early(fs)
    PROVE LastHeard(f) = content[f]
BY DEF Early, LastHeard

\* A half reads its sources when it is built, and the tabs hear of nothing but
\* by a boot, a reload or a stylesheet.
LEMMA ReadsStay ==
    ASSUME DevTypes, [DevNext]_devVars
    PROVE /\ ~GoBuilds /\ ~GoBuildFails => ahead'["api"] = ahead["api"]
          /\ ~FrontBoots => ahead'["app"] = ahead["app"]
          /\ ~FrontBoots /\ ~GoReady => untold \ Styles \subseteq untold'
          /\ ~FrontBoots /\ ~GoReady /\ ~CssTold => untold \subseteq untold'
<1> DEFINE Goal == /\ ~GoBuilds /\ ~GoBuildFails => ahead'["api"] = ahead["api"]
                   /\ ~FrontBoots => ahead'["app"] = ahead["app"]
                   /\ ~FrontBoots /\ ~GoReady => untold \ Styles \subseteq untold'
                   /\ ~FrontBoots /\ ~GoReady /\ ~CssTold => untold \subseteq untold'
<1>0. ahead \in [{"api", "app"} -> SUBSET Sources]
  BY DEF DevTypes
<1>1. ASSUME UNCHANGED words PROVE Goal
  BY <1>1 DEF words
<1>2. ASSUME GoBuilds \/ GoBuildFails PROVE Goal
  BY <1>0, <1>2 DEF GoBuilds, GoBuildFails, Reads
<1>3. ASSUME FrontBoots PROVE Goal
  BY <1>0, <1>3 DEF FrontBoots, Reads
<1>4. ASSUME GoReady \/ FrontStops \/ CssUnanswered \/ CssTold \/ FrontExitHeard PROVE Goal
  BY <1>4 DEF GoReady, FrontStops, CssUnanswered, CssTold, FrontExitHeard, WordIsLost
<1> HIDE DEF Goal
<1>5. ASSUME NEW f \in Sources, Save(f) \/ Straggler(f) \/ Hear(f) PROVE Goal
  BY <1>1, <1>5 DEF Save, Straggler, Hear
<1>6. ASSUME NEW s \in Sides, Flush(s) PROVE Goal
  BY <1>1, <1>6 DEF Flush
<1>7. ASSUME \/ Take \/ GoUnchanged \/ GoStops \/ GoRenameFails \/ GoSpawns \/ FrontSpawns \/ FrontAnswers
             \/ CssFallsBack \/ StylesFail \/ CssCompiles \/ GoDies \/ FrontDies \/ GoExitHeard
             \/ UNCHANGED devVars
      PROVE Goal
  BY <1>1, <1>7 DEF Take, GoUnchanged, GoStops, GoRenameFails, GoSpawns, FrontSpawns, FrontAnswers, CssFallsBack,
     StylesFail, CssCompiles, GoDies, FrontDies, GoExitHeard, devVars, words
<1>8. Goal
  BY <1>2, <1>3, <1>4, <1>5, <1>6, <1>7 DEF DevNext, Watches, Rebuilds, Exits
<1> QED BY <1>8 DEF Goal

\* What is asked of the css side is about a style.
LEMMA ChainStaysInStep ==
    ASSUME DevTypes, ChainIsInStep, [DevNext]_devVars
    PROVE ChainIsInStep'
<1> USE DEF ChainIsInStep
<1>0. "css" \in Sides
  BY DEF Sides
<1>1. ASSUME pending' = pending, Later("css")' = Later("css"), stage' # "css poke" PROVE ChainIsInStep'
  BY <1>1
<1>2. ASSUME NEW f \in Sources, Hear(f) PROVE ChainIsInStep'
  <2>1. pending'["css"] \subseteq pending["css"] \cup (IF "css" \in RebuildSides(f) THEN {f} ELSE {})
    BY <1>2, <1>0 DEF Hear, InWindow
  <2>2. pending'["css"] \subseteq Styles
    BY <2>1, SidesAreRight
  <2>3. jobs' = jobs /\ stage' = stage
    BY <1>2 DEF Hear
  <2>4. Later("css")' = Later("css") /\ Now' = Now
    BY <2>3, <1>0, StepsKeepTheRest
  <2> QED BY <2>2, <2>3, <2>4
<1>3. ASSUME NEW s \in Sides, Flush(s) PROVE ChainIsInStep'
  <2>1. /\ Later("css")' = Later("css") \cup (IF "css" = s THEN {pending[s]} ELSE {})
        /\ stage # "idle" => Now' = Now
    BY <1>3, <1>0, FlushAddsLast
  <2>2. pending' = [pending EXCEPT ![s] = {}] /\ stage' = stage /\ pending[s] # {} /\ pending \in [Sides -> SUBSET Sources]
    BY <1>3 DEF Flush, DevTypes
  <2>3. pending'["css"] \subseteq pending["css"] /\ (s = "css" => pending[s] \cap Styles # {})
    BY <2>2, <1>0
  <2> QED BY <2>1, <2>2, <2>3
<1>4. ASSUME Take PROVE ChainIsInStep'
  <2>1. /\ Later("css") = Later("css")' \cup (IF "css" = Now.side THEN {Now.changed} ELSE {})
        /\ Now \in Rebuild /\ Now' = Now /\ stage' = First(Now.side)
    BY <1>4, <1>0, TakeBegins
  <2>2. pending' = pending
    BY <1>4 DEF Take, edited
  <2>3. stage' = "css poke" => Now.side = "css"
    BY <2>1 DEF First, Rebuild, Sides
  <2> QED BY <2>1, <2>2, <2>3
<1>5. ASSUME jobs' = jobs, stage' = stage, pending' = pending PROVE ChainIsInStep'
  BY <1>5, <1>0, StepsKeepTheRest
<1>6. ASSUME JobEnds, stage # "idle", pending' = pending PROVE ChainIsInStep'
  <2>1. stage' = "idle"
    BY <1>6 DEF JobEnds
  <2> QED BY <1>6, <2>1, <1>1, <1>0, EndsKeepTheRest
<1>7. ASSUME jobs' = jobs, stage # "idle", stage' # "idle", stage' # "css poke", pending' = pending
      PROVE ChainIsInStep'
  BY <1>7, <1>1, <1>0, StepsKeepTheRest
<1> HIDE DEF ChainIsInStep
<1>8. ASSUME NEW f \in Sources, Save(f) \/ Straggler(f) PROVE ChainIsInStep'
  BY <1>8, <1>5 DEF Save, Straggler
<1>9. ASSUME GoBuildFails \/ GoUnchanged \/ GoRenameFails \/ GoReady \/ FrontAnswers \/ CssUnanswered \/ StylesFail \/ CssTold
      PROVE ChainIsInStep'
  BY <1>9, <1>6 DEF GoBuildFails, GoUnchanged, GoRenameFails, GoReady, FrontAnswers, CssUnanswered,
     StylesFail, CssTold, edited
<1>10. ASSUME GoBuilds \/ GoStops \/ GoSpawns \/ FrontStops \/ FrontSpawns \/ CssFallsBack \/ CssCompiles
       PROVE ChainIsInStep'
  BY <1>10, <1>7 DEF GoBuilds, GoStops, GoSpawns, FrontStops, FrontSpawns, CssFallsBack, CssCompiles,
     edited, Step
<1>11. ASSUME FrontBoots \/ GoDies \/ FrontDies \/ Exits \/ UNCHANGED devVars PROVE ChainIsInStep'
  BY <1>11, <1>5 DEF FrontBoots, GoDies, FrontDies, Exits, GoExitHeard, FrontExitHeard, edited, devVars
<1> QED
  BY <1>2, <1>3, <1>4, <1>8, <1>9, <1>10, <1>11 DEF DevNext, Watches, Rebuilds

\* Where the chain is tells what the render service may be doing.
LEMMA FrontStaysInStep ==
    ASSUME DevTypes, AbsentIsNothing, FrontIsInStep, [DevNext]_devVars
    PROVE FrontIsInStep'
<1>0. frontProc \in FrontProcs \cup {Absent}
  BY DEF DevTypes
<1> USE DEF FrontIsInStep, Booting, Up, Serving
<1>1. ASSUME UNCHANGED <<stage, frontProc>> PROVE FrontIsInStep'
  BY <1>1
<1>2. ASSUME Take PROVE FrontIsInStep'
  BY <1>2 DEF Take, First, procs, counters
<1>3. ASSUME GoBuildFails \/ GoUnchanged \/ GoRenameFails \/ GoReady \/ FrontAnswers \/ CssUnanswered \/ StylesFail \/ CssTold
      PROVE FrontIsInStep'
  BY <1>3 DEF GoBuildFails, GoUnchanged, GoRenameFails, GoReady, FrontAnswers, CssUnanswered,
     StylesFail, CssTold, JobEnds, procs, counters
<1>4. ASSUME GoBuilds \/ GoStops \/ GoSpawns \/ CssFallsBack PROVE FrontIsInStep'
  BY <1>4 DEF GoBuilds, GoStops, GoSpawns, CssFallsBack, Step, procs, counters
<1>5. ASSUME FrontStops PROVE FrontIsInStep'
  BY <1>5 DEF FrontStops, Step, counters
<1>6. ASSUME FrontSpawns PROVE FrontIsInStep'
  <2>1. Head(jobs) \in Rebuild
    BY <1>6, HeadTailProperties DEF FrontSpawns, Step, DevTypes
  <2>2. frontProc' \in FrontProcs /\ frontProc'.up /\ frontProc'.is = "booting"
    BY <1>6, <2>1 DEF FrontSpawns, FrontOf, FrontProcs, DevTypes, FrontText, FrontSources, Rebuild
  <2> QED BY <1>6, <2>2 DEF FrontSpawns, Step, counters, AbsentIsNothing
<1>7. ASSUME FrontBoots PROVE FrontIsInStep'
  <2>1. frontProc' # Absent /\ frontProc'.up /\ frontProc'.is # "booting"
    <3>1. frontProc' \in FrontProcs
      BY <1>7, <1>0 DEF FrontBoots, FrontOf, FrontProcs, DevTypes, FrontText, FrontSources
    <3> QED BY <1>7, <3>1 DEF FrontBoots, FrontOf, AbsentIsNothing
  <2> QED BY <1>7, <2>1 DEF FrontBoots, counters
<1>8. ASSUME CssCompiles PROVE FrontIsInStep'
  <2>1. frontProc' \in FrontProcs /\ frontProc'.up /\ frontProc'.is = "serving"
    BY <1>8, <1>0 DEF CssCompiles, FrontProcs, Restyled, DevTypes, FrontSources
  <2> QED BY <1>8, <2>1 DEF CssCompiles, Step, counters, AbsentIsNothing
<1>9. ASSUME FrontDies PROVE FrontIsInStep'
  <2>1. frontProc # Absent /\ ~frontProc'.up /\ stage' = stage
    BY <1>9, <1>0 DEF FrontDies, FrontProcs
  <2> QED BY <2>1
<1>10. ASSUME FrontExitHeard PROVE FrontIsInStep'
  BY <1>10 DEF FrontExitHeard, Fallen
<1>11. ASSUME GoDies \/ GoExitHeard PROVE FrontIsInStep'
  BY <1>11, <1>1 DEF GoDies, GoExitHeard
<1>12. ASSUME NEW f \in Sources, Save(f) \/ Straggler(f) \/ Hear(f) PROVE FrontIsInStep'
  BY <1>12, <1>1 DEF Save, Straggler, Hear, procs, counters
<1>13. ASSUME NEW s \in Sides, Flush(s) PROVE FrontIsInStep'
  BY <1>13, <1>1 DEF Flush, procs, counters
<1>14. ASSUME UNCHANGED devVars PROVE FrontIsInStep'
  BY <1>14, <1>1 DEF devVars, procs, counters
<1> QED
  BY <1>2, <1>3, <1>4, <1>5, <1>6, <1>7, <1>8, <1>9, <1>10, <1>11, <1>12, <1>13, <1>14
  DEF DevNext, Watches, Rebuilds, Exits

\* The binary is of what was heard, unless a build of it is due.
LEMMA GoStaysOfWhatWasHeard ==
    ASSUME DevTypes, AbsentIsNothing, HearsAll, GoIsOfWhatWasHeard, [DevNext]_devVars
    PROVE GoIsOfWhatWasHeard'
<1> DEFINE Compiled == ~GoIsDue /\ Sound(GoFiles) /\ ~Ahead("api") =>
                          \A f \in GoSources : built[f] = LastHeard(f) \/ LastHeard(f) = "bad"
           Runs == /\ stage # "go swap" /\ goProc # Absent => goProc.of = built
                   /\ goProc # Absent => goProc.of = liveHash
                   /\ stage = "go rename" => goProc = Absent /\ liveHash = built
                   /\ said["api"] # "nothing" => goProc = Absent
<1>0. "api" \in Sides
  BY DEF Sides
<1>1. /\ Due("api") => Due("api")' \/ (Take /\ Now.side = "api")
      /\ \A f : Asked("api", f)' => Due("api")'
  BY <1>0, WhatIsAskedStays DEF Asked, Due
<1>2. \A f \in GoSources :
         \/ LastHeard(f)' = LastHeard(f) /\ ~Fresh(f)
         \/ Fresh(f)'
         \/ Asked("api", f)'
  BY WhatIsSavedIsHeard, SidesAreRight, KindsAreApart
<1>3. (Take /\ Now.side = "api") => stage' = "go build"
  BY TakeBegins DEF First
<1>4. Runs /\ Compiled
  BY DEF GoIsOfWhatWasHeard
<1>5. ~GoIsDue' => (\A f \in GoSources : LastHeard(f)' = LastHeard(f)) /\ ~Due("api") /\ ~Unheard(GoSources)
  BY <1>1, <1>2, <1>3 DEF GoIsDue, Unheard
<1>6. built' = built /\ (stage # "go build" \/ stage' = "go build") /\ ~GoBuilds /\ ~GoBuildFails => Compiled'
  BY <1>4, <1>5, ReadsStay, KindsAreApart DEF GoIsDue, Sound, Ahead
<1>7. ASSUME GoBuildFails PROVE Compiled'
  <2>1. content' = content /\ seen' = seen /\ ~Good(GoFiles) /\ Reads("api", GoSources)
    BY <1>7 DEF GoBuildFails, edited
  <2>2. ~Ahead("api")' => \A f \in GoSources : LastHeard(f)' = content[f]
    BY <2>1, WhatIsReadIsHeard DEF Reads, Ahead, LastHeard, DevTypes
  <2> QED BY <2>1, <2>2, KindsAreApart DEF Sound, Good
<1>8. ASSUME GoBuilds PROVE Compiled'
  <2>1. /\ content' = content /\ seen' = seen /\ Reads("api", GoSources) /\ Generates
        /\ built' = [f \in GoSources |-> IF f \in EnvFiles THEN generated'[f] ELSE content[f]]
    BY <1>8 DEF GoBuilds, edited
  <2>2. ~Ahead("api")' => \A f \in GoSources : LastHeard(f)' = content[f]
    BY <2>1, WhatIsReadIsHeard DEF Reads, Ahead, LastHeard, DevTypes
  <2>3. \A f \in GoSources : built'[f] = content[f] \/ content[f] = "bad"
    BY <2>1, KindsAreApart DEF Generates
  <2> QED BY <2>2, <2>3
<1> HIDE DEF Compiled
<1>9. Compiled'
  <2>0. CASE GoBuilds \/ GoBuildFails
    BY <2>0, <1>7, <1>8
  <2>. SUFFICES ASSUME ~GoBuilds, ~GoBuildFails PROVE Compiled'
    BY <2>0
  <2>1. built' = built
    BY DEF DevNext, Watches, Rebuilds, Exits, Save, Straggler, Hear, Flush, Take, GoUnchanged, GoStops,
           GoRenameFails, GoSpawns, GoReady, FrontStops, FrontSpawns, FrontBoots, FrontAnswers, CssUnanswered,
           CssFallsBack, StylesFail, CssCompiles, CssTold, GoDies, FrontDies, GoExitHeard, FrontExitHeard, devVars
  <2>2. stage # "go build" \/ stage' = "go build"
    BY DEF DevNext, Watches, Rebuilds, Exits, Save, Straggler, Hear, Flush, Take, GoUnchanged, GoStops,
           GoRenameFails, GoSpawns, GoReady, FrontStops, FrontSpawns, FrontBoots, FrontAnswers, CssUnanswered,
           CssFallsBack, StylesFail, CssCompiles, CssTold, GoDies, FrontDies, GoExitHeard, FrontExitHeard, devVars,
           Step
  <2> QED BY <2>1, <2>2, <1>6
<1>10. goProc \in GoProcs \cup {Absent} /\ said \in [{"api", "app"} -> {"nothing", "down", "saved", "styled"}]
  BY DEF DevTypes
<1>11. ASSUME UNCHANGED <<goProc, built, liveHash>>, (said["api"] = "nothing" => said'["api"] = "nothing"),
              stage' \notin {"go swap", "go rename"} \/ stage' = stage,
              stage = "go swap" => stage' = stage \/ SameBinary
       PROVE Runs'
  BY <1>11, <1>4 DEF SameBinary
<1>12. ASSUME NEW f \in Sources, Save(f) PROVE Runs'
  <2>1. said["api"] = "nothing" => said'["api"] = "nothing"
    BY <1>12 DEF Save, Answered
  <2> QED BY <2>1, <1>12, <1>11 DEF Save, procs
<1>13. ASSUME NEW f \in Sources, Straggler(f) \/ Hear(f) PROVE Runs'
  BY <1>13, <1>11 DEF Straggler, Hear, procs
<1>14. ASSUME NEW s \in Sides, Flush(s) PROVE Runs'
  BY <1>14, <1>11 DEF Flush, procs
<1>15. ASSUME Take PROVE Runs'
  BY <1>15, <1>11 DEF Take, First, procs
<1>16. ASSUME GoBuilds PROVE Runs'
  BY <1>16, <1>4 DEF GoBuilds, Step, procs
<1>17. ASSUME GoBuildFails \/ GoUnchanged \/ GoReady \/ FrontAnswers \/ CssUnanswered \/ StylesFail \/ CssTold
       PROVE Runs'
  BY <1>17, <1>11 DEF GoBuildFails, GoUnchanged, GoReady, FrontAnswers, CssUnanswered, StylesFail,
     CssTold, JobEnds, procs
<1>18. ASSUME GoStops PROVE Runs'
  BY <1>18 DEF GoStops, Step
<1>19. ASSUME GoRenameFails PROVE Runs'
  BY <1>19, <1>4 DEF GoRenameFails, JobEnds, procs
<1>20. ASSUME GoSpawns PROVE Runs'
  BY <1>20, <1>4, <1>10 DEF GoSpawns, Step
<1>21. ASSUME FrontStops \/ CssFallsBack \/ CssCompiles PROVE Runs'
  BY <1>21, <1>11 DEF FrontStops, CssFallsBack, CssCompiles, Step, procs
<1>22. ASSUME FrontSpawns PROVE Runs'
  <2>1. said'["api"] = said["api"]
    BY <1>22, <1>10 DEF FrontSpawns
  <2> QED BY <1>22, <2>1, <1>11 DEF FrontSpawns, Step
<1>23. ASSUME FrontBoots \/ FrontDies \/ UNCHANGED devVars PROVE Runs'
  BY <1>23, <1>11 DEF FrontBoots, FrontDies, devVars, procs
<1>24. ASSUME FrontExitHeard PROVE Runs'
  <2>1. said'["api"] = said["api"]
    BY <1>24, <1>10 DEF FrontExitHeard, Says
  <2> QED BY <1>24, <2>1, <1>11 DEF FrontExitHeard
<1>25. ASSUME GoDies PROVE Runs'
  <2>1. goProc # Absent /\ goProc'.of = goProc.of
    BY <1>25, <1>10 DEF GoDies, Up, GoProcs
  <2> QED BY <1>25, <2>1, <1>4 DEF GoDies
<1>26. ASSUME GoExitHeard PROVE Runs'
  BY <1>26, <1>4 DEF GoExitHeard, Fallen
<1> QED
  <2> HIDE DEF Runs
  <2>1. Runs'
    BY <1>12, <1>13, <1>14, <1>15, <1>16, <1>17, <1>18, <1>19, <1>20, <1>21, <1>22, <1>23, <1>24,
       <1>25, <1>26
    DEF DevNext, Watches, Rebuilds, Exits
  <2> QED BY <1>9, <2>1 DEF GoIsOfWhatWasHeard, Runs, Compiled

\* A restart goes on until the service is started again.
LEMMA RestartsGoOn ==
    ASSUME DevTypes, [DevNext]_devVars
    PROVE /\ Restarting => FrontSpawns \/ (Restarting' /\ Now' = Now)
          /\ (Take /\ Now.side = "app") => Restarting' /\ Now' = Now
<1>1. ASSUME Restarting PROVE FrontSpawns \/ (Restarting' /\ Now' = Now)
  <2> USE <1>1 DEF Restarting
  <2>1. ASSUME NEW f \in Sources, Save(f) \/ Straggler(f) \/ Hear(f) PROVE Restarting' /\ Now' = Now
    BY <2>1 DEF Save, Straggler, Hear, Now
  <2>2. ASSUME NEW s \in Sides, Flush(s) PROVE Restarting' /\ Now' = Now
    <3>1. stage' = stage
      BY <2>2 DEF Flush
    <3> QED BY <2>2, <3>1, FlushAddsLast
  <2>3. ASSUME FrontStops PROVE Restarting' /\ Now' = Now
    BY <2>3 DEF FrontStops, Step, Now
  <2>4. ASSUME FrontBoots \/ GoDies \/ FrontDies \/ Exits \/ UNCHANGED devVars
        PROVE Restarting' /\ Now' = Now
    BY <2>4 DEF FrontBoots, GoDies, FrontDies, Exits, GoExitHeard, FrontExitHeard, devVars, Now
  <2>5. ~Take /\ ~GoBuilds /\ ~GoBuildFails /\ ~GoUnchanged /\ ~GoStops /\ ~GoRenameFails /\ ~GoSpawns /\ ~GoReady
        /\ ~FrontAnswers /\ ~CssUnanswered /\ ~CssFallsBack /\ ~StylesFail /\ ~CssCompiles /\ ~CssTold
    BY DEF Take, GoBuilds, GoBuildFails, GoUnchanged, GoStops, GoRenameFails, GoSpawns, GoReady,
           FrontAnswers, CssUnanswered, CssFallsBack, StylesFail, CssCompiles, CssTold, Step
  <2> QED BY <2>1, <2>2, <2>3, <2>4, <2>5 DEF DevNext, Watches, Rebuilds
<1>2. (Take /\ Now.side = "app") => Restarting' /\ Now' = Now
  BY TakeBegins DEF First, Restarting
<1> QED BY <1>1, <1>2

\* A module the front has yet to build stays listed until a start takes it.
LEMMA ModulesStayListed ==
    ASSUME DevTypes, AbsentIsNothing, HearsAll, [DevNext]_devVars, NEW f \in Modules
    PROVE \/ Listed(f)'
          \/ LastHeard(f)' = LastHeard(f) /\ ~Listed(f)
          \/ LastHeard(f)' = LastHeard(f) /\ FrontSpawns /\ f \in Now.changed
<1>1. "app" \in Sides /\ f \in Sources /\ "app" \in RebuildSides(f)
  BY SidesAreRight, KindsAreApart DEF Sides
<1>2. \/ LastHeard(f)' = LastHeard(f) /\ ~Fresh(f)
      \/ Fresh(f)'
      \/ Asked("app", f)'
  BY <1>1, WhatIsSavedIsHeard
<1>3. Asked("app", f) => Asked("app", f)' \/ (Take /\ Now.side = "app" /\ f \in Now.changed)
  BY <1>1, WhatIsAskedStays
<1> QED
  BY <1>2, <1>3, RestartsGoOn DEF Listed

\* What is due stays due, whatever else goes on.
LEMMA DuesStay ==
    ASSUME DevTypes, AbsentIsNothing, HearsAll, [DevNext]_devVars
    PROVE /\ ~FrontIsDue' /\ ~FrontSpawns => ~FrontIsDue /\ \A f \in Modules : LastHeard(f)' = LastHeard(f)
          /\ ~StyleIsDue' => /\ \A f \in Styles : LastHeard(f)' = LastHeard(f)
                             /\ stage # "css poke" \/ stage' = stage => ~StyleIsDue
<1>1. "app" \in Sides /\ "css" \in Sides
  BY DEF Sides
<1>2. \A f \in Modules : (LastHeard(f)' = LastHeard(f) /\ ~Fresh(f)) \/ Fresh(f)' \/ Due("app")'
  <2>1. \A f \in Modules : (LastHeard(f)' = LastHeard(f) /\ ~Fresh(f)) \/ Fresh(f)' \/ Asked("app", f)'
    BY WhatIsSavedIsHeard, SidesAreRight, KindsAreApart
  <2> QED BY <2>1 DEF Asked, Due
<1>3. \A f \in Styles : (LastHeard(f)' = LastHeard(f) /\ ~Fresh(f)) \/ Fresh(f)' \/ Due("css")'
  <2>1. \A f \in Styles : (LastHeard(f)' = LastHeard(f) /\ ~Fresh(f)) \/ Fresh(f)' \/ Asked("css", f)'
    BY WhatIsSavedIsHeard, SidesAreRight, KindsAreApart
  <2> QED BY <2>1 DEF Asked, Due
<1>4. /\ Due("app") => Due("app")' \/ (Take /\ Now.side = "app")
      /\ Due("css") => Due("css")' \/ (Take /\ Now.side = "css")
  BY <1>1, WhatIsAskedStays
<1>5. Take /\ Now.side = "css" => stage' = "css poke"
  BY TakeBegins DEF First
<1>6. ~FrontIsDue' /\ ~FrontSpawns => ~FrontIsDue /\ \A f \in Modules : LastHeard(f)' = LastHeard(f)
  BY <1>2, <1>4, RestartsGoOn DEF FrontIsDue, Unheard
<1>7. ~StyleIsDue' => /\ \A f \in Styles : LastHeard(f)' = LastHeard(f)
                      /\ stage # "css poke" \/ stage' = stage => ~StyleIsDue
  BY <1>3, <1>4, <1>5 DEF StyleIsDue, Unheard
<1> QED BY <1>6, <1>7

\* The dedup leaves the styles alone.
LEMMA StylesAreNeverEchoes ==
    ASSUME HearsAll
    PROVE /\ \A f \in Styles : LastHeard(f) = content[f]
          /\ Sound(Styles) <=> Good(Styles)
BY KindsAreApart DEF HearsAll, LastHeard, Sound, Good

\* What the service serves is what was heard, or is listed for a rebuild.
LEMMA FrontStaysOfWhatWasHeard ==
    ASSUME DevTypes, AbsentIsNothing, HearsAll, FrontIsOfWhatWasHeard, [DevNext]_devVars
    PROVE FrontIsOfWhatWasHeard'
<1>1. ~Up(frontProc)' => FrontIsOfWhatWasHeard'
  BY DEF FrontIsOfWhatWasHeard, Serving
<1>0. frontProc \in FrontProcs \cup {Absent}
  BY DEF DevTypes
<1>2. ASSUME frontProc' = frontProc, ~FrontSpawns, stage # "css poke" \/ stage' = stage
      PROVE FrontIsOfWhatWasHeard'
  <2>0. ~FrontBoots
    <3>1. FrontBoots => frontProc.is = "booting" /\ frontProc'.is # "booting"
      BY DEF FrontBoots, FrontOf, Booting
    <3> QED BY <1>2, <3>1
  <2>7. ahead'["app"] = ahead["app"]
    BY <2>0, ReadsStay
  <2>1. Up(frontProc)' <=> Up(frontProc)
    BY <1>2 DEF Up
  <2>2. Serving' <=> Serving
    BY <1>2, <2>1 DEF Serving
  <2>3. Serving' => \A f \in Modules : FrontIsOf(f)'
    <3>1. ASSUME Serving', NEW f \in Modules PROVE FrontIsOf(f)'
      BY <3>1, <2>2, <2>7, <1>2, ModulesStayListed DEF FrontIsOfWhatWasHeard, FrontIsOf
    <3> QED BY <3>1
  <2>4. (Serving /\ Sound(Styles) /\ ~StyleIsDue)' => \A f \in Styles : (frontProc.of[f] = LastHeard(f))'
    BY <2>2, <1>2, DuesStay DEF FrontIsOfWhatWasHeard, Sound
  <2>5. ~FrontIsDue' /\ ~StyleIsDue' => (Sound(FrontSources)' => Sound(FrontSources))
    BY <1>2, DuesStay, KindsAreApart DEF Sound
  <2>6. (Up(frontProc) /\ frontProc.is = "fallback" /\ ~FrontIsDue /\ ~StyleIsDue)' => ~Sound(FrontSources)' \/ Ahead("app")'
    BY <2>1, <2>5, <2>7, <1>2, DuesStay DEF FrontIsOfWhatWasHeard, Ahead
  <2> QED BY <2>3, <2>4, <2>6 DEF FrontIsOfWhatWasHeard
<1>3. ASSUME FrontStops \/ FrontDies \/ FrontExitHeard PROVE ~Up(frontProc)'
  BY <1>3, <1>0 DEF FrontStops, FrontDies, FrontExitHeard, Up, FrontProcs
<1>4. ASSUME CssUnanswered PROVE FrontIsOfWhatWasHeard'
  <2>1. ~Up(frontProc)' \/ (frontProc.is = "booting")'
    BY <1>4 DEF CssUnanswered, PokeGivesUp, procs, Up, Booting
  <2> QED BY <2>1 DEF FrontIsOfWhatWasHeard, Serving
<1>5. ASSUME FrontSpawns PROVE FrontIsOfWhatWasHeard'
  <2>1. frontProc'.is = "booting"
    BY <1>5 DEF FrontSpawns, FrontOf
  <2> QED BY <2>1 DEF FrontIsOfWhatWasHeard, Serving
<1>6. ASSUME FrontBoots PROVE FrontIsOfWhatWasHeard'
  <2>1. content' = content /\ seen' = seen /\ ahead'["app"] = Early(FrontSources)
    BY <1>6 DEF FrontBoots, edited, Reads, DevTypes
  <2>2. \A f \in FrontSources : LastHeard(f)' = content[f] \/ f \in ahead'["app"]
    BY <2>1, WhatIsReadIsHeard DEF LastHeard
  <2>3. frontProc'.of = FrontText /\ frontProc'.is = (IF Good(FrontSources) THEN "serving" ELSE "fallback")
    BY <1>6 DEF FrontBoots, FrontOf
  <2>4. \A f \in FrontSources : frontProc'.of[f] = content[f]
    BY <2>3, KindsAreApart DEF FrontText
  <2>5. frontProc'.is = "fallback" => ~Sound(FrontSources)' \/ Ahead("app")'
    BY <2>2, <2>3, KindsAreApart DEF Sound, Good, Ahead
  <2>6. \A f \in Styles : LastHeard(f)' = content[f]
    BY <2>1, StylesAreNeverEchoes DEF LastHeard
  <2>7. \A f \in Modules : FrontIsOf(f)'
    BY <2>2, <2>4, KindsAreApart DEF FrontIsOf
  <2>8. \A f \in Styles : (frontProc.of[f] = LastHeard(f))'
    BY <2>4, <2>6, KindsAreApart
  <2> QED BY <2>5, <2>7, <2>8 DEF FrontIsOfWhatWasHeard
<1>7. ASSUME CssFallsBack PROVE FrontIsOfWhatWasHeard'
  <2>1. frontProc' = frontProc /\ stage' = "front stops" /\ frontProc.is = "fallback"
    BY <1>7 DEF CssFallsBack, Step, procs
  <2>2. ~Serving' /\ FrontIsDue'
    BY <2>1 DEF Serving, FrontIsDue, Restarting
  <2> QED BY <2>2 DEF FrontIsOfWhatWasHeard
<1>8. ASSUME StylesFail PROVE FrontIsOfWhatWasHeard'
  <2>1. frontProc' = frontProc /\ content' = content /\ Serving /\ ~Good(Styles) /\ ~FrontSpawns
    BY <1>8 DEF StylesFail, procs, edited, FrontSpawns, Step
  <2>2. ~Sound(Styles)'
    <3>1. HearsAll'
      BY WhatIsSavedIsHeard
    <3>2. ~Good(Styles)'
      BY <2>1 DEF Good
    <3> QED BY <3>1, <3>2, KindsAreApart DEF HearsAll, LastHeard, Sound, Good
  <2>3. Serving' /\ ~(frontProc.is = "fallback")'
    BY <2>1 DEF Serving, Up
  <2>5. ahead'["app"] = ahead["app"]
    BY <1>8 DEF StylesFail, words
  <2>4. ASSUME NEW f \in Modules PROVE FrontIsOf(f)'
    BY <2>1, <2>5, ModulesStayListed DEF FrontIsOfWhatWasHeard, FrontIsOf
  <2> QED BY <2>2, <2>3, <2>4 DEF FrontIsOfWhatWasHeard
<1>9. ASSUME CssCompiles PROVE FrontIsOfWhatWasHeard'
  <2>1. Serving /\ frontProc \in FrontProcs /\ content' = content /\ ~FrontSpawns
    BY <1>9, <1>0 DEF CssCompiles, Serving, Up, edited, FrontSpawns, Step
  <2>2. frontProc'.of = Restyled(frontProc.of) /\ frontProc'.is = "serving"
    BY <1>9, <2>1 DEF CssCompiles, Serving, FrontProcs
  <2>3. DOMAIN frontProc.of = FrontSources
    BY <2>1 DEF FrontProcs
  <2>4. \A f \in Styles : frontProc'.of[f] = content[f]
    BY <2>2, <2>3, KindsAreApart DEF Restyled
  <2>5. \A f \in Modules : frontProc'.of[f] = frontProc.of[f]
    BY <2>2, <2>3, KindsAreApart DEF Restyled
  <2>8. ahead'["app"] = ahead["app"]
    BY <1>9 DEF CssCompiles, words
  <2>6. ASSUME NEW f \in Modules PROVE FrontIsOf(f)'
    BY <2>1, <2>5, <2>8, ModulesStayListed DEF FrontIsOfWhatWasHeard, FrontIsOf
  <2>7. \A f \in Styles : LastHeard(f)' = content'[f]
    <3>1. HearsAll'
      BY WhatIsSavedIsHeard
    <3> QED BY <3>1, KindsAreApart DEF HearsAll, LastHeard
  <2> QED BY <2>1, <2>2, <2>4, <2>6, <2>7 DEF FrontIsOfWhatWasHeard
<1>10. ASSUME NEW f \in Sources, Save(f) \/ Straggler(f) \/ Hear(f) PROVE FrontIsOfWhatWasHeard'
  <2>1. frontProc' = frontProc /\ stage' = stage
    BY <1>10 DEF Save, Straggler, Hear, procs
  <2> QED BY <2>1, <1>2, <1>5
<1>11. ASSUME NEW s \in Sides, Flush(s) PROVE FrontIsOfWhatWasHeard'
  <2>1. frontProc' = frontProc /\ stage' = stage
    BY <1>11 DEF Flush, procs
  <2> QED BY <2>1, <1>2, <1>5
<1>12. ASSUME \/ Take \/ GoBuilds \/ GoBuildFails \/ GoUnchanged \/ GoStops \/ GoRenameFails \/ GoSpawns \/ GoReady
              \/ FrontAnswers \/ CssTold
       PROVE FrontIsOfWhatWasHeard'
  <2>1. frontProc' = frontProc /\ stage # "css poke"
    BY <1>12 DEF Take, GoBuilds, GoBuildFails, GoUnchanged, GoStops, GoRenameFails, GoSpawns, GoReady,
       FrontAnswers, CssTold,
                 Step, procs
  <2> QED BY <2>1, <1>2, <1>5
<1>13. ASSUME GoDies \/ GoExitHeard \/ UNCHANGED devVars PROVE FrontIsOfWhatWasHeard'
  <2>1. frontProc' = frontProc /\ stage' = stage
    BY <1>13 DEF GoDies, GoExitHeard, devVars, procs
  <2> QED BY <2>1, <1>2, <1>5
<1> QED
  BY <1>1, <1>3, <1>4, <1>5, <1>6, <1>7, <1>8, <1>9, <1>10, <1>11, <1>12, <1>13 DEF DevNext, Watches,
     Rebuilds, Exits

\* A process that is said to be down comes back with the save the message asks for.
LEMMA WordsStayKept ==
    ASSUME DevTypes, AbsentIsNothing, HearsAll, GoIsOfWhatWasHeard, WordsAreKept, [DevNext]_devVars
    PROVE WordsAreKept'
<1> DEFINE AllForgot(fs) == \A f \in fs : seen[f] = Absent
           Go(word) == /\ word # "nothing" => GoIsComing \/ GoCannot \/ AllForgot(GoSources)
                       /\ word = "saved" => GoIsComing \/ GoCannot
           App(word) == /\ word # "nothing" => FrontIsDue \/ AllForgot(Modules)
                        /\ word = "saved" => FrontIsDue
<1>1. Go(said["api"]) /\ App(said["app"])
  BY DEF WordsAreKept
<1>2. /\ said \in [{"api", "app"} -> {"nothing", "down", "saved", "styled"}]
      /\ "api" \in Sides /\ "app" \in Sides
  BY DEF DevTypes, Sides
<1>3. \A f \in GoSources :
         \/ LastHeard(f)' = LastHeard(f) /\ ~Fresh(f) /\ (seen[f] = Absent => seen'[f] = Absent)
         \/ Fresh(f)'
         \/ Due("api")'
  <2>1. \A f \in GoSources :
           \/ LastHeard(f)' = LastHeard(f) /\ ~Fresh(f) /\ (seen[f] = Absent => seen'[f] = Absent)
           \/ Fresh(f)'
           \/ Asked("api", f)'
    BY WhatIsSavedIsHeard, SidesAreRight, KindsAreApart
  <2> QED BY <2>1 DEF Asked, Due
<1>4. \A f \in Modules :
         \/ ~Fresh(f) /\ (seen[f] = Absent => seen'[f] = Absent)
         \/ Fresh(f)'
         \/ Due("app")'
  <2>1. \A f \in Modules :
           \/ ~Fresh(f) /\ (seen[f] = Absent => seen'[f] = Absent)
           \/ Fresh(f)'
           \/ Asked("app", f)'
    BY WhatIsSavedIsHeard, SidesAreRight, KindsAreApart
  <2> QED BY <2>1 DEF Asked, Due
<1>5. /\ Due("api") => Due("api")' \/ (Take /\ Now.side = "api")
      /\ Due("app") => Due("app")' \/ (Take /\ Now.side = "app")
      /\ (Take /\ Now.side = "api") => stage' = "go build"
  BY <1>2, WhatIsAskedStays, TakeBegins DEF First
\* what was coming is coming still, and what was broken is broken or coming
<1>6. ASSUME stage \in {"go build", "go swap", "go rename"} => stage' \in {"go build", "go swap", "go rename"},
             ~GoBuildFails
      PROVE /\ GoIsComing => GoIsComing'
            /\ GoCannot => GoIsComing' \/ GoCannot'
            /\ AllForgot(GoSources) => GoIsComing' \/ AllForgot(GoSources)'
  <2>1. GoIsComing => GoIsComing'
    BY <1>3, <1>5, <1>6 DEF GoIsComing, GoIsDue, Unheard
  <2>2. ~Sound(GoFiles) => GoIsComing' \/ ~Sound(GoFiles)'
    BY <1>3, KindsAreApart DEF GoIsComing, GoIsDue, Unheard, Sound
  <2>3. AllForgot(GoSources) => GoIsComing' \/ AllForgot(GoSources)'
    BY <1>3 DEF GoIsComing, GoIsDue, Unheard
  <2>4. GoBuilds => GoIsComing'
    BY DEF GoBuilds, Step, GoIsComing
  <2>5. Ahead("api") => GoIsComing' \/ Ahead("api")'
    BY <1>6, <2>4, ReadsStay DEF Ahead
  <2> QED BY <2>1, <2>2, <2>3, <2>5 DEF GoCannot
<1>7. ASSUME ~FrontSpawns
      PROVE /\ FrontIsDue => FrontIsDue'
            /\ AllForgot(Modules) => FrontIsDue' \/ AllForgot(Modules)'
  <2>1. FrontIsDue => FrontIsDue'
    BY <1>7, DuesStay
  <2>2. AllForgot(Modules) => FrontIsDue' \/ AllForgot(Modules)'
    BY <1>4 DEF FrontIsDue, Unheard
  <2> QED BY <2>1, <2>2
<1>8. ASSUME FrontSpawns PROVE App(said["app"])'
  BY <1>8, <1>2 DEF FrontSpawns
<1> HIDE DEF AllForgot
<1>9. ASSUME ~FrontSpawns, said'["app"] = said["app"] PROVE App(said["app"])'
  BY <1>9, <1>7, <1>1
<1>10. ASSUME stage \in {"go build", "go swap", "go rename"} => stage' \in {"go build", "go swap", "go rename"},
              said'["api"] = said["api"], ~GoBuildFails
       PROVE Go(said["api"])'
  BY <1>10, <1>6, <1>1
<1> HIDE DEF Go, App
<1>11. ASSUME NEW f \in Sources, Save(f) PROVE Go(said["api"])' /\ App(said["app"])'
  <2>1. stage' = stage /\ said' = Answered(f) /\ seen' = seen /\ f \in events' /\ ~FrontSpawns /\ ~GoBuildFails
    BY <1>11 DEF Save, FrontSpawns, Step, GoBuildFails, JobEnds
  <2>2. Go(said["api"])'
    <3>1. said'["api"] # "nothing" => said["api"] # "nothing"
      BY <2>1 DEF Answered
    <3>2. said'["api"] = "saved" => said["api"] = "saved" \/ f \in GoSources
      BY <2>1, SidesAreRight DEF Answered
    <3>3. f \in GoSources /\ AllForgot(GoSources) => GoIsComing'
      BY <2>1 DEF AllForgot, GoIsComing, GoIsDue, Unheard, Fresh
    <3> QED BY <3>1, <3>2, <3>3, <2>1, <1>6, <1>1 DEF Go
  <2>3. App(said["app"])'
    <3>1. said'["app"] # "nothing" => said["app"] # "nothing"
      BY <2>1 DEF Answered
    <3>2. said'["app"] = "saved" => said["app"] = "saved" \/ f \in Modules
      BY <2>1, SidesAreRight DEF Answered
    <3>3. f \in Modules /\ AllForgot(Modules) => FrontIsDue'
      BY <2>1 DEF AllForgot, FrontIsDue, Unheard, Fresh
    <3> QED BY <3>1, <3>2, <3>3, <2>1, <1>7, <1>1 DEF App
  <2> QED BY <2>2, <2>3
<1>12. ASSUME NEW f \in Sources, Straggler(f) \/ Hear(f) PROVE Go(said["api"])' /\ App(said["app"])'
  <2>1. stage' = stage /\ said' = said /\ ~GoBuildFails
    BY <1>12 DEF Straggler, Hear, GoBuildFails, JobEnds
  <2> QED BY <2>1, <1>8, <1>9, <1>10
<1>13. ASSUME NEW s \in Sides, Flush(s) PROVE Go(said["api"])' /\ App(said["app"])'
  <2>1. stage' = stage /\ said' = said /\ ~GoBuildFails
    BY <1>13 DEF Flush, GoBuildFails, JobEnds
  <2> QED BY <2>1, <1>8, <1>9, <1>10
<1>14. ASSUME \/ Take \/ GoBuilds \/ GoStops \/ GoReady \/ FrontStops \/ FrontBoots \/ FrontAnswers
              \/ CssUnanswered \/ CssFallsBack \/ StylesFail \/ CssCompiles \/ CssTold \/ GoDies \/ FrontDies
              \/ UNCHANGED devVars
       PROVE Go(said["api"])' /\ App(said["app"])'
  <2>1. said' = said
    BY <1>14 DEF Take, GoBuilds, GoStops, GoReady, FrontStops, FrontBoots, FrontAnswers, CssUnanswered,
       CssFallsBack,
                 StylesFail, CssCompiles, CssTold, GoDies, FrontDies, devVars
  <2>2. stage \in {"go build", "go swap", "go rename"} => stage' \in {"go build", "go swap", "go rename"}
    BY <1>14 DEF Take, GoBuilds, GoStops, GoReady, FrontStops, FrontBoots, FrontAnswers, CssUnanswered,
       CssFallsBack,
                 StylesFail, CssCompiles, CssTold, GoDies, FrontDies, devVars, Step
  <2>3. ~GoBuildFails
    BY <2>2 DEF GoBuildFails, JobEnds
  <2> QED BY <2>1, <2>2, <2>3, <1>8, <1>9, <1>10
<1>15. ASSUME GoBuildFails PROVE Go(said["api"])' /\ App(said["app"])'
  <2>1. said' = said /\ content' = content /\ seen' = seen /\ ~Good(GoFiles) /\ ahead'["api"] = Early(GoSources)
    BY <1>15 DEF GoBuildFails, edited, Reads, DevTypes
  <2>2. GoCannot'
    <3>1. \A f \in GoSources : LastHeard(f)' = content[f] \/ f \in ahead'["api"]
      BY <2>1, WhatIsReadIsHeard DEF LastHeard
    <3> QED BY <2>1, <3>1, KindsAreApart DEF Sound, Good, GoCannot, Ahead
  <2> QED BY <2>1, <2>2, <1>8, <1>9 DEF Go
<1>16. ASSUME GoUnchanged PROVE Go(said["api"])' /\ App(said["app"])'
  <2>1. said' = said /\ goProc # Absent
    BY <1>16 DEF GoUnchanged, SameBinary, Up
  <2>2. said'["api"] = "nothing"
    BY <2>1, <1>2 DEF GoIsOfWhatWasHeard
  <2> QED BY <2>1, <2>2, <1>8, <1>9 DEF Go
<1>17. ASSUME GoSpawns PROVE Go(said["api"])' /\ App(said["app"])'
  <2>1. said'["api"] = "nothing" /\ said'["app"] = said["app"]
    BY <1>17, <1>2 DEF GoSpawns
  <2> QED BY <2>1, <1>8, <1>9 DEF Go
<1>18. ASSUME GoRenameFails \/ GoExitHeard PROVE Go(said["api"])' /\ App(said["app"])'
  <2>1. said'["api"] = "down" /\ said'["app"] = said["app"] /\ seen' = Forget(Sources)
    BY <1>18, <1>2 DEF GoRenameFails, GoExitHeard, Says
  <2>2. AllForgot(GoSources)'
    BY <2>1, KindsAreApart DEF Forget, AllForgot
  <2> QED BY <2>1, <2>2, <1>8, <1>9 DEF Go
<1>19. ASSUME FrontExitHeard PROVE Go(said["api"])' /\ App(said["app"])'
  <2>1. said'["app"] = "down" /\ said'["api"] = said["api"] /\ seen' = Forget(Sources) /\ stage' = stage
    BY <1>19, <1>2 DEF FrontExitHeard, Says
  <2>2. AllForgot(Modules)'
    BY <2>1, KindsAreApart DEF Forget, AllForgot
  <2>3. ~GoBuildFails
    BY <2>1 DEF GoBuildFails, JobEnds
  <2> QED BY <2>1, <2>2, <2>3, <1>10 DEF App
<1>20. ASSUME FrontSpawns PROVE Go(said["api"])' /\ App(said["app"])'
  <2>1. said'["api"] = said["api"]
    BY <1>20, <1>2 DEF FrontSpawns
  <2>2. stage \in {"go build", "go swap", "go rename"} => stage' \in {"go build", "go swap", "go rename"}
    BY <1>20 DEF FrontSpawns, Step
  <2>3. ~GoBuildFails
    BY <1>20 DEF FrontSpawns, Step, GoBuildFails
  <2> QED BY <2>1, <2>2, <2>3, <1>20, <1>8, <1>10
<1> QED
  <2>1. Go(said["api"])' /\ App(said["app"])'
    BY <1>11, <1>12, <1>13, <1>14, <1>15, <1>16, <1>17, <1>18, <1>19, <1>20 DEF DevNext, Watches,
       Rebuilds, Exits
  <2> QED BY <2>1 DEF WordsAreKept, Go, App, AllForgot

\* the tab of a page, and what it may show
IsTab(p, tab) ==
    /\ tab.is \in {"page", "overlay", "503"}
    /\ tab.is = "overlay" <=> tab = Overlay
    /\ tab.is = "503" <=> tab = Unavailable
    /\ tab.is = "page" => tab = [is |-> "page", of |-> tab.of] /\ DOMAIN tab.of = Tab(p)

\* A page of the modules and styles of a tab is what that tab may show.
LEMMA PagesAreTabs ==
    ASSUME NEW p, NEW of, DOMAIN of = Tab(p)
    PROVE IsTab(p, [is |-> "page", of |-> of])
BY DEF IsTab, Overlay, Unavailable

\* What a tab shows when it loads.
LEMMA WhatIsShown ==
    ASSUME NEW p, NEW text
    PROVE /\ IsTab(p, Shows(p, text)) /\ IsTab(p, Overlay) /\ IsTab(p, Unavailable)
          /\ Shows(p, text).is = "page" /\ Overlay.is = "overlay" /\ Unavailable.is = "503"
          /\ \A f \in Tab(p) : Shows(p, text).of[f] = text[f]
<1>1. DOMAIN Shows(p, text).of = Tab(p)
  BY DEF Shows, Tab
<1>2. Shows(p, text) = [is |-> "page", of |-> Shows(p, text).of] /\ \A f \in Tab(p) : Shows(p, text).of[f] = text[f]
  BY DEF Shows, Tab
<1>3. IsTab(p, Overlay) /\ IsTab(p, Unavailable) /\ Overlay.is = "overlay" /\ Unavailable.is = "503"
  BY DEF IsTab, Overlay, Unavailable
<1>4. IsTab(p, Shows(p, text))
  BY <1>1, <1>2, PagesAreTabs
<1> QED BY <1>1, <1>2, <1>3, <1>4

\* What it shows once an update is applied.
LEMMA WhatIsApplied ==
    ASSUME NEW p \in PageFiles, NEW changed, NEW front, IsTab(p, screen[p])
    PROVE /\ IsTab(p, Applied(p, changed, front))
          /\ front.is = "fallback" => Applied(p, changed, front) = Overlay
          /\ front.is # "fallback" =>
                /\ Applied(p, changed, front).is = "page"
                /\ \A f \in Tab(p) \ Styles : Applied(p, changed, front).of[f] = front.of[f]
                /\ \A f \in Tab(p) \cap Styles :
                      Applied(p, changed, front).of[f] = front.of[f]
                      \/ (changed \cap Styles = {} /\ screen[p].is = "page"
                          /\ Applied(p, changed, front).of[f] = screen[p].of[f])
<1>1. CASE front.is = "fallback"
  BY <1>1, WhatIsShown DEF Applied
<1>2. CASE front.is # "fallback" /\ screen[p].is = "page" /\ changed \cap Styles = {}
  <2> DEFINE of == [f \in DOMAIN screen[p].of |-> IF f \in Styles THEN screen[p].of[f] ELSE front.of[f]]
  <2>1. Applied(p, changed, front) = [is |-> "page", of |-> of]
    BY <1>2 DEF Applied
  <2>2. DOMAIN of = Tab(p)
    BY <1>2 DEF IsTab
  <2>3. \A f \in Tab(p) : of[f] = IF f \in Styles THEN screen[p].of[f] ELSE front.of[f]
    BY <2>2
  <2> HIDE DEF of
  <2> QED BY <1>2, <2>1, <2>2, <2>3, PagesAreTabs
<1>3. CASE front.is # "fallback" /\ ~(screen[p].is = "page" /\ changed \cap Styles = {})
  BY <1>3, WhatIsShown DEF Applied
<1> QED BY <1>1, <1>2, <1>3

\* And of its style, the one it was built with or the one it had.
StyleIsOf(tab, p, f, changed, front) ==
    \/ tab.of[f] = front.of[f]
    \/ changed \cap Styles = {} /\ screen[p].is = "page" /\ tab.of[f] = screen[p].of[f]
LEMMA StylesAreApplied ==
    ASSUME NEW p \in PageFiles, NEW changed, NEW front, IsTab(p, screen[p]),
           NEW tab, tab = Applied(p, changed, front), tab.is = "page", NEW f \in Styles, f \in Tab(p)
    PROVE StyleIsOf(tab, p, f, changed, front)
BY DEF StyleIsOf, Applied, IsTab, Tab, Overlay, Shows, Unavailable

\* What it shows once it fetched its stylesheet again.
LEMMA WhatIsRestyled ==
    ASSUME NEW p \in PageFiles, IsTab(p, screen[p]), screen[p].is = "page",
           NEW tab, tab = [screen[p] EXCEPT !.of = [f \in DOMAIN @ |-> IF f \in Styles THEN frontProc.of[f] ELSE @[f]]]
    PROVE /\ IsTab(p, tab) /\ tab.is = "page"
          /\ \A f \in Tab(p) : tab.of[f] = IF f \in Styles THEN frontProc.of[f] ELSE screen[p].of[f]
<1> DEFINE of == [f \in DOMAIN screen[p].of |-> IF f \in Styles THEN frontProc.of[f] ELSE screen[p].of[f]]
<1>1. screen[p] = [is |-> "page", of |-> screen[p].of] /\ DOMAIN of = Tab(p)
  BY DEF IsTab
<1>2. \A f \in Tab(p) : of[f] = IF f \in Styles THEN frontProc.of[f] ELSE screen[p].of[f]
  BY <1>1
<1>3. tab = [is |-> "page", of |-> of]
  <2>1. tab = [screen[p] EXCEPT !.of = of]
    OBVIOUS
  <2> HIDE DEF of
  <2> QED BY <2>1, <1>1
<1> HIDE DEF of
<1> QED BY <1>1, <1>2, <1>3, PagesAreTabs

\* The tabs change by three steps.
LEMMA ScreensStay ==
    ASSUME [DevNext]_devVars, ~GoReady, ~FrontBoots, ~CssTold
    PROVE screen' = screen
BY DEF DevNext, Watches, Rebuilds, Exits, Save, Straggler, Hear, Flush, Take, GoBuilds, GoBuildFails,
   GoUnchanged, GoStops,
       GoRenameFails, GoSpawns, FrontStops, FrontSpawns, FrontAnswers, CssUnanswered, CssFallsBack, StylesFail, CssCompiles,
       GoDies, FrontDies, GoExitHeard, FrontExitHeard, devVars

\* The tabs were told of the api that runs, until another one starts.
LEMMA ToldStays ==
    ASSUME DevTypes, AbsentIsNothing, [DevNext]_devVars, Told'
    PROVE (Told \/ GoReady) /\ (goProc' = goProc)
<1> USE DEF Told
<1>1. goProc \in GoProcs \cup {Absent} /\ goProc' # Absent
  BY DEF DevTypes, Up
<1>2. ASSUME NEW f \in Sources, Save(f) \/ Straggler(f) \/ Hear(f) PROVE Told /\ goProc' = goProc
  BY <1>2 DEF Save, Straggler, Hear, procs, Up
<1>3. ASSUME NEW s \in Sides, Flush(s) PROVE Told /\ goProc' = goProc
  BY <1>3 DEF Flush, procs, Up
<1>4. ~GoStops /\ ~GoExitHeard
  BY <1>1 DEF GoStops, GoExitHeard
<1>5. ~GoSpawns
  BY DEF GoSpawns, Step
<1>6. ~GoDies
  <2>1. ASSUME GoDies PROVE goProc' = [goProc EXCEPT !.up = FALSE] /\ goProc \in GoProcs
    BY <2>1, <1>1 DEF GoDies, Up
  <2>2. ASSUME GoDies PROVE ~goProc'.up
    BY <2>1, <2>2 DEF GoProcs
  <2> QED BY <2>2 DEF Up
<1>7. ASSUME GoReady PROVE goProc' = goProc
  BY <1>7 DEF GoReady, procs
<1>8. ASSUME \/ Take \/ GoBuilds \/ GoBuildFails \/ GoUnchanged \/ GoRenameFails \/ FrontStops \/ FrontSpawns
             \/ FrontBoots \/ FrontAnswers \/ CssUnanswered \/ CssFallsBack \/ StylesFail \/ CssCompiles \/ CssTold
             \/ FrontDies \/ FrontExitHeard \/ UNCHANGED devVars
      PROVE Told /\ goProc' = goProc
  <2>1. goProc' = goProc
    BY <1>8 DEF Take, GoBuilds, GoBuildFails, GoUnchanged, GoRenameFails, FrontStops, FrontSpawns,
       FrontBoots, FrontAnswers,
        CssUnanswered, CssFallsBack, StylesFail, CssCompiles, CssTold, FrontDies, FrontExitHeard, devVars, procs
  <2>2. stage # "go ready" \/ stage' = stage
    BY <1>8 DEF Take, GoBuilds, GoBuildFails, GoUnchanged, GoRenameFails, FrontStops, FrontSpawns,
       FrontBoots, FrontAnswers,
        CssUnanswered, CssFallsBack, StylesFail, CssCompiles, CssTold, FrontDies, FrontExitHeard, devVars, Step
  <2> QED BY <2>1, <2>2 DEF Up
<1> QED
  BY <1>2, <1>3, <1>4, <1>5, <1>6, <1>7, <1>8 DEF DevNext, Watches, Rebuilds, Exits

\* What the three steps that change the tabs make of one of them.
LEMMA TabsAfterReady ==
    ASSUME GoReady, NEW p \in PageFiles
    PROVE \/ ~Up(goProc) /\ screen'[p] = screen[p]
          \/ Serving /\ screen'[p] = Shows(p, frontProc.of)
          \/ ~Serving /\ screen'[p] \in {Overlay, Unavailable}
<1>1. CASE ~Up(goProc)
  BY <1>1 DEF GoReady
<1>2. CASE Up(goProc)
  <2>1. screen'[p] = Loads(p)
    BY <1>2 DEF GoReady
  <2>2. Serving => ~(Up(frontProc) /\ frontProc.is = "fallback")
    BY DEF Serving
  <2> QED BY <2>1, <2>2 DEF Loads
<1> QED BY <1>1, <1>2

\* The same of a boot.
LEMMA TabsAfterBoot ==
    ASSUME FrontBoots, NEW p \in PageFiles
    PROVE \/ screen'[p] = screen[p] /\ (~Up(goProc) \/ screen[p] = Unavailable \/ ~Applies(p, frontProc.changed))
          \/ screen'[p] = Applied(p, frontProc.changed, frontProc')
BY DEF FrontBoots, FrontOf

\* And of a stylesheet that is told.
LEMMA TabsAfterPoke ==
    ASSUME CssTold, NEW p \in PageFiles
    PROVE \/ screen'[p] = screen[p] /\ (~Up(goProc) \/ ~Serving \/ screen[p].is # "page")
          \/ /\ screen[p].is = "page"
             /\ screen'[p] = [screen[p] EXCEPT !.of =
                   [f \in DOMAIN @ |-> IF f \in Styles THEN frontProc.of[f] ELSE @[f]]]
BY DEF CssTold

\* A tab shows its page, an overlay or the 503.
LEMMA TabsStayTyped ==
    ASSUME TabsAreTyped, [DevNext]_devVars
    PROVE TabsAreTyped'
<1>1. \A p \in PageFiles : IsTab(p, screen[p])
  BY DEF TabsAreTyped, IsTab
<1>2. ASSUME NEW p \in PageFiles PROVE IsTab(p, screen'[p])
  <2>1. CASE GoReady
    BY <2>1, <1>1, TabsAfterReady, WhatIsShown
  <2>2. CASE FrontBoots
    BY <2>2, <1>1, TabsAfterBoot, WhatIsApplied
  <2>3. CASE CssTold
    BY <2>3, <1>1, TabsAfterPoke, WhatIsRestyled
  <2>4. CASE ~GoReady /\ ~FrontBoots /\ ~CssTold
    BY <2>4, <1>1, ScreensStay
  <2> QED BY <2>1, <2>2, <2>3, <2>4
<1> QED
  BY <1>2 DEF TabsAreTyped, IsTab, Overlay, Unavailable

\* A service starts to serve when it boots.
LEMMA ServiceStays ==
    ASSUME DevTypes, [DevNext]_devVars, Serving'
    PROVE Serving \/ FrontBoots
<1>1. frontProc \in FrontProcs \cup {Absent}
  BY DEF DevTypes
<1>2. ~FrontStops /\ ~FrontExitHeard
  BY DEF FrontStops, FrontExitHeard, Serving, Up
<1>3. ~FrontSpawns
  <2>1. ASSUME FrontSpawns PROVE frontProc'.is = "booting"
    BY <2>1 DEF FrontSpawns, FrontOf
  <2> QED BY <2>1 DEF Serving
<1>4. ~FrontDies
  <2>1. ASSUME FrontDies PROVE ~frontProc'.up
    BY <2>1, <1>1 DEF FrontDies, Up, FrontProcs
  <2> QED BY <2>1 DEF Serving, Up
<1>5. CssCompiles => Serving
  BY DEF CssCompiles
<1>6. ASSUME frontProc' = frontProc PROVE Serving
  BY <1>6 DEF Serving, Up
<1> QED
  BY <1>2, <1>3, <1>4, <1>5, <1>6
  DEF DevNext, Watches, Rebuilds, Exits, Save, Straggler, Hear, Flush, Take, GoBuilds, GoBuildFails,
     GoUnchanged, GoStops,
      GoRenameFails, GoSpawns, GoReady, FrontAnswers, CssUnanswered, CssFallsBack, StylesFail, CssTold, GoDies, GoExitHeard,
      devVars, procs

\* No tab keeps the overlay of a build that is repaired.
LEMMA OverlaysGoAway ==
    ASSUME DevTypes, AbsentIsNothing, TabsAreTyped, NoOverlayOfGood, [DevNext]_devVars
    PROVE NoOverlayOfGood'
<1> SUFFICES ASSUME Told', Serving', NEW p \in PageFiles PROVE screen'[p].is # "overlay"
  BY DEF NoOverlayOfGood
<1>0. (Told \/ GoReady) /\ goProc' = goProc /\ IsTab(p, screen[p]) /\ Up(goProc)
  BY ToldStays DEF Told, TabsAreTyped, IsTab, Up
<1>1. CASE GoReady
  <2>1. Serving
    BY <1>1 DEF GoReady, procs, Serving, Up
  <2> QED BY <1>0, <1>1, <2>1, TabsAfterReady, WhatIsShown
<1>2. CASE FrontBoots
  <2>1. frontProc'.is # "fallback"
    BY DEF Serving
  <2>2. screen[p].is = "overlay" => Applies(p, frontProc.changed) /\ screen[p] # Unavailable
    BY <1>0 DEF Applies, IsTab, Overlay, Unavailable
  <2> QED BY <1>0, <1>2, <2>1, <2>2, TabsAfterBoot, WhatIsApplied
<1>3. CASE CssTold
  <2>1. Serving /\ Told
    BY <1>3, <1>0, ServiceStays DEF CssTold, FrontBoots, GoReady, JobEnds, procs, Serving, Up
  <2> QED BY <1>0, <1>3, <2>1, TabsAfterPoke, WhatIsRestyled DEF NoOverlayOfGood
<1>4. CASE ~GoReady /\ ~FrontBoots /\ ~CssTold
  BY <1>0, <1>4, ScreensStay, ServiceStays DEF NoOverlayOfGood
<1> QED BY <1>1, <1>2, <1>3, <1>4

\* A boot goes on until it is over, with the files it was started for, or it is
\* ended and nobody is told of them.
LEMMA BootsGoOn ==
    ASSUME DevTypes, FrontIsInStep, [DevNext]_devVars, Booting, ~FrontBoots
    PROVE \/ Booting' /\ frontProc'.changed = frontProc.changed
          \/ Word(frontProc.changed) \subseteq untold'
<1> DEFINE Goal == \/ Booting' /\ frontProc'.changed = frontProc.changed
                   \/ Word(frontProc.changed) \subseteq untold'
<1>1. frontProc # Absent /\ frontProc.is = "booting" /\ frontProc \in FrontProcs
  BY DEF Booting, DevTypes
<1>2. ASSUME frontProc' = frontProc PROVE Goal
  BY <1>1, <1>2 DEF Booting
<1>3. ASSUME FrontStops \/ FrontExitHeard PROVE Goal
  BY <1>3 DEF FrontStops, FrontExitHeard, WordIsLost
<1>4. ASSUME FrontDies PROVE Goal
  <2>1. frontProc' = [frontProc EXCEPT !.up = FALSE]
    BY <1>4 DEF FrontDies
  <2>2. frontProc' \in FrontProcs /\ frontProc'.is = "booting" /\ frontProc'.changed = frontProc.changed
    BY <1>1, <2>1 DEF FrontProcs
  <2> QED BY <2>2, AbsentIsApart DEF Booting, AbsentIsNothing
<1>5. ~FrontSpawns /\ ~CssCompiles
  BY <1>1 DEF FrontSpawns, CssCompiles, Step, Serving, FrontIsInStep
<1> HIDE DEF Goal
<1>6. Goal
  BY <1>2, <1>3, <1>4, <1>5
  DEF DevNext, Watches, Rebuilds, Exits, Save, Straggler, Hear, Flush, Take, GoBuilds, GoBuildFails,
     GoUnchanged, GoStops, GoRenameFails, GoSpawns, GoReady, FrontAnswers, CssUnanswered, CssFallsBack,
     StylesFail, CssTold, GoDies, GoExitHeard, devVars, procs
<1> QED BY <1>6 DEF Goal

\* A start boots a service with the files of the rebuild.
LEMMA StartsBoot ==
    ASSUME AbsentIsNothing, DevTypes, FrontSpawns
    PROVE Booting' /\ frontProc'.changed = Now.changed
<1>1. Head(jobs) \in Rebuild
  BY HeadTailProperties DEF FrontSpawns, Step, DevTypes
<1>2. frontProc' \in FrontProcs /\ frontProc'.is = "booting" /\ frontProc'.changed = Now.changed
  BY <1>1 DEF FrontSpawns, FrontOf, FrontProcs, DevTypes, FrontText, FrontSources, Rebuild, Now
<1> QED BY <1>2 DEF Booting, AbsentIsNothing

\* What a service read before it was heard is kept for the tabs.
LEMMA AheadStaysUntold ==
    ASSUME DevTypes, AheadIsUntold, [DevNext]_devVars
    PROVE AheadIsUntold'
<1>1. CASE GoReady
  BY <1>1 DEF GoReady, AheadIsUntold
<1>2. CASE FrontBoots
  BY <1>2 DEF FrontBoots, AheadIsUntold, Reads, DevTypes
<1>3. CASE ~GoReady /\ ~FrontBoots
  BY <1>3, ReadsStay DEF AheadIsUntold
<1> QED BY <1>1, <1>2, <1>3

\* The modules of a tab are those that were heard, or a word about them is due,
\* or was lost.
LEMMA TabsStayOfModules ==
    ASSUME DevTypes, AbsentIsNothing, HearsAll, FrontIsInStep, FrontIsOfWhatWasHeard, TabsAreTyped, TabsFollowModules,
           [DevNext]_devVars
    PROVE TabsFollowModules'
<1> DEFINE Awaited(x) == Booting /\ x \in frontProc.changed
<1> SUFFICES ASSUME Told', NEW p \in PageFiles, screen'[p].is = "page", NEW f \in Tab(p) \ Styles
             PROVE (screen[p].of[f] = LastHeard(f) \/ Listed(f) \/ f \in untold \/ Awaited(f))'
  BY DEF TabsFollowModules
<1>0. (Told \/ GoReady) /\ goProc' = goProc /\ Up(goProc) /\ IsTab(p, screen[p])
  BY ToldStays DEF Told, TabsAreTyped, IsTab, Up
<1>1. f \in Modules /\ f \in Tab(p) /\ f \notin Styles /\ f \in FrontSources
  BY DEF Tab, Modules
<1>2. ASSUME ~FrontBoots, screen'[p].of[f] = LastHeard(f) \/ Listed(f)
      PROVE (screen[p].of[f] = LastHeard(f) \/ Listed(f) \/ f \in untold \/ Awaited(f))'
  BY <1>1, <1>2, ModulesStayListed, StartsBoot
<1>3. ASSUME ~FrontBoots, Awaited(f) PROVE (f \in untold \/ Awaited(f))'
  BY <1>3, BootsGoOn DEF Word
<1> HIDE DEF Awaited
<1>4. CASE GoReady
  <2>1. Serving /\ screen'[p] = Shows(p, frontProc.of) /\ untold' = ahead["app"]
    BY <1>0, <1>4, TabsAfterReady, WhatIsShown DEF GoReady
  <2>2. ~FrontBoots
    BY <2>1 DEF FrontBoots, Serving, Booting
  <2>3. screen'[p].of[f] = frontProc.of[f]
    BY <1>1, <2>1, WhatIsShown
  <2>4. screen'[p].of[f] = LastHeard(f) \/ Listed(f) \/ f \in untold'
    BY <1>1, <2>1, <2>3 DEF FrontIsOfWhatWasHeard, FrontIsOf
  <2> QED BY <1>2, <2>2, <2>4
<1>5. CASE FrontBoots
  <2>1. /\ content' = content /\ seen' = seen /\ frontProc'.of = FrontText
        /\ untold' = (untold \ Word(frontProc.changed)) \cup Early(FrontSources)
    BY <1>0, <1>5 DEF FrontBoots, edited, FrontOf
  <2>2. LastHeard(f)' = LastHeard(f) /\ frontProc'.of[f] = content[f]
    BY <1>1, <2>1 DEF LastHeard, FrontText
  <2>3. CASE screen'[p] = Applied(p, frontProc.changed, frontProc')
    <3>1. screen'[p].of[f] = content[f]
      BY <1>0, <1>1, <2>2, <2>3, WhatIsApplied, WhatIsShown
    <3>2. f \in Early(FrontSources) \/ LastHeard(f) = content[f]
      BY <1>1, WhatIsReadIsHeard
    <3> QED BY <2>1, <2>2, <3>1, <3>2
  <2>4. CASE screen'[p] = screen[p] /\ ~Applies(p, frontProc.changed)
    <3>1. f \notin Word(frontProc.changed) /\ f \notin frontProc.changed
      BY <2>4, <1>1 DEF Applies, Tab, PageFiles, FrontSources, Word
    <3>2. Told
      BY <1>0, <1>5 DEF FrontBoots, GoReady, JobEnds, Told
    <3>3. screen[p].of[f] = LastHeard(f) \/ Listed(f) \/ f \in untold
      BY <2>4, <3>1, <3>2 DEF TabsFollowModules
    <3>4. ~FrontSpawns
      BY <1>0, <1>5 DEF FrontBoots, FrontSpawns, FrontIsInStep, Step, Up
    <3> QED BY <1>1, <2>1, <2>4, <3>1, <3>3, <3>4, ModulesStayListed
  <2>5. screen'[p] # Unavailable
    BY WhatIsShown
  <2> QED BY <1>0, <1>5, <2>3, <2>4, <2>5, TabsAfterBoot
<1>6. ASSUME ~GoReady, ~FrontBoots, screen[p].is = "page", screen'[p].of[f] = screen[p].of[f]
      PROVE (screen[p].of[f] = LastHeard(f) \/ Listed(f) \/ f \in untold \/ Awaited(f))'
  <2>1. Told
    BY <1>0, <1>6
  <2>2. screen'[p].of[f] = LastHeard(f) \/ Listed(f) \/ f \in untold \/ Awaited(f)
    BY <1>6, <2>1 DEF TabsFollowModules, Awaited
  <2>3. f \in untold => f \in untold'
    BY <1>1, <1>6, ReadsStay
  <2> QED BY <1>2, <1>3, <1>6, <2>2, <2>3
<1>7. CASE CssTold
  <2>1. ~FrontBoots /\ ~GoReady
    BY <1>7 DEF CssTold, FrontBoots, GoReady, procs, FrontIsInStep, Serving, Booting, JobEnds
  <2>2. screen[p].is = "page" /\ screen'[p].of[f] = screen[p].of[f]
    <3>1. CASE screen'[p] = screen[p]
      BY <3>1
    <3>2. CASE screen[p].is = "page" /\ screen'[p] = [screen[p] EXCEPT !.of =
                   [g \in DOMAIN @ |-> IF g \in Styles THEN frontProc.of[g] ELSE @[g]]]
      <4>1. \A g \in Tab(p) : screen'[p].of[g] = IF g \in Styles THEN frontProc.of[g] ELSE screen[p].of[g]
        BY <1>0, <3>2, WhatIsRestyled
      <4> QED BY <1>1, <3>2, <4>1
    <3> QED BY <1>7, <3>1, <3>2, TabsAfterPoke
  <2> QED BY <1>6, <2>1, <2>2
<1>8. CASE ~GoReady /\ ~FrontBoots /\ ~CssTold
  BY <1>6, <1>8, ScreensStay
<1> QED BY <1>4, <1>5, <1>7, <1>8

\* The same of its styles, that are told by a stylesheet or by a boot.
LEMMA TabsStayOfStyles ==
    ASSUME DevTypes, AbsentIsNothing, HearsAll, ChainIsInStep, FrontIsInStep, FrontIsOfWhatWasHeard, TabsAreTyped,
           TabsFollowStyles, [DevNext]_devVars
    PROVE TabsFollowStyles'
<1> DEFINE Begun == Restarting /\ Now.changed \cap Styles # {}
           Awaited == Booting /\ frontProc.changed \cap Styles # {}
<1> SUFFICES ASSUME Told', Sound(Styles)', ~StyleIsDue', stage' # "css tell", ~Begun', ~Awaited',
                    NEW p \in PageFiles, screen'[p].is = "page", NEW f \in Styles, f \notin untold'
             PROVE screen'[p].of[f] = LastHeard(f)'
  BY DEF TabsFollowStyles
<1>0. (Told \/ GoReady) /\ goProc' = goProc /\ Up(goProc) /\ IsTab(p, screen[p])
  BY ToldStays DEF Told, TabsAreTyped, IsTab, Up
<1>21. \A g \in Styles : LastHeard(g)' = LastHeard(g)
  BY DuesStay
<1>1. f \in Tab(p) /\ LastHeard(f)' = LastHeard(f)
  BY <1>21, KindsAreApart DEF Tab
<1>2. Sound(Styles)
  BY <1>21 DEF Sound
<1>4. ~CssUnanswered /\ ~StylesFail /\ ~CssCompiles
  <2>1. ~CssUnanswered
    BY DEF CssUnanswered
  <2>2. ~StylesFail
    BY <1>2, StylesAreNeverEchoes DEF StylesFail
  <2>3. ~CssCompiles
    BY DEF CssCompiles, Step
  <2> QED BY <2>1, <2>2, <2>3
<1>5. ~CssFallsBack
  <2>1. ASSUME CssFallsBack PROVE Restarting' /\ Now' = Now /\ Now.changed \cap Styles # {}
    BY <2>1 DEF CssFallsBack, Step, Restarting, Now, ChainIsInStep
  <2> QED BY <2>1
<1>6. stage # "css poke" \/ stage' = stage
  BY <1>4, <1>5
  DEF DevNext, Watches, Rebuilds, Exits, Save, Straggler, Hear, Flush, Take, GoBuilds, GoBuildFails,
     GoUnchanged,
      GoStops, GoRenameFails, GoSpawns, GoReady, FrontStops, FrontSpawns, FrontBoots, FrontAnswers, CssTold, GoDies,
      FrontDies, GoExitHeard, FrontExitHeard, devVars, Step
<1>7. ~StyleIsDue
  BY <1>6, DuesStay
<1>8. ~Begun
  BY RestartsGoOn, StartsBoot
<1>9. ~FrontBoots => ~Awaited
  <2>1. Awaited => f \in Word(frontProc.changed)
    BY DEF Word
  <2> QED BY <2>1, BootsGoOn
<1>10. Serving => frontProc.of[f] = LastHeard(f)
  BY <1>2, <1>7 DEF FrontIsOfWhatWasHeard
<1>11. ASSUME ~Awaited, Told, stage # "css tell", screen[p].is = "page", f \notin untold
       PROVE screen[p].of[f] = LastHeard(f)
  BY <1>2, <1>7, <1>8, <1>11 DEF TabsFollowStyles
<1> HIDE DEF Begun
<1>12. CASE GoReady
  <2>1. Serving /\ screen'[p] = Shows(p, frontProc.of)
    BY <1>0, <1>12, TabsAfterReady, WhatIsShown
  <2>2. Shows(p, frontProc.of).of[f] = frontProc.of[f]
    BY <1>1 DEF Shows, Tab
  <2> QED BY <1>1, <1>10, <2>1, <2>2
<1>13. CASE CssTold
  <2>1. Serving
    BY <1>13 DEF CssTold
  <2>2. /\ screen[p].is = "page"
        /\ screen'[p] = [screen[p] EXCEPT !.of =
              [g \in DOMAIN @ |-> IF g \in Styles THEN frontProc.of[g] ELSE @[g]]]
    BY <1>0, <1>13, <2>1, TabsAfterPoke
  <2>3. screen'[p].of[f] = frontProc.of[f]
    BY <1>0, <1>1, <2>2, WhatIsRestyled
  <2> QED BY <1>1, <1>10, <2>1, <2>3
<1>14. CASE FrontBoots
  <2>1. Told /\ stage # "css tell"
    BY <1>0, <1>14 DEF FrontBoots, GoReady, JobEnds
  <2>2. untold \ Word(frontProc.changed) \subseteq untold'
    BY <1>14 DEF FrontBoots
  <2>3. ASSUME frontProc.changed \cap Styles = {}, screen[p].is = "page" PROVE screen[p].of[f] = LastHeard(f)
    <3>1. ~Awaited /\ f \notin Word(frontProc.changed)
      BY <2>3 DEF Word
    <3> QED BY <1>11, <2>1, <2>2, <2>3, <3>1
  <2> HIDE DEF Awaited
  <2>4. CASE screen'[p] = screen[p] /\ ~Applies(p, frontProc.changed)
    <3>1. frontProc.changed \cap Styles = {}
      BY <2>4 DEF Applies, Styles
    <3> QED BY <1>1, <2>3, <2>4, <3>1
  <2>5. CASE screen'[p] = Applied(p, frontProc.changed, frontProc')
    <3>1. frontProc'.of = FrontText
      BY <1>14 DEF FrontBoots, FrontOf
    <3>2. frontProc'.of[f] = LastHeard(f)
      BY <3>1, StylesAreNeverEchoes, KindsAreApart DEF FrontText
    <3>3. StyleIsOf(screen'[p], p, f, frontProc.changed, frontProc')
      BY <1>0, <1>1, <2>5, StylesAreApplied
    <3> QED BY <1>1, <2>3, <3>2, <3>3 DEF StyleIsOf
  <2>6. screen'[p] = Unavailable => ~(screen'[p].is = "page")
    BY WhatIsShown
  <2> QED BY <1>0, <1>14, <2>4, <2>5, <2>6, TabsAfterBoot
<1>15. CASE ~GoReady /\ ~FrontBoots /\ ~CssTold
  <2>1. screen' = screen /\ Told /\ untold \subseteq untold'
    BY <1>0, <1>15, ScreensStay, ReadsStay
  <2>2. stage # "css tell"
    BY <1>15
    DEF DevNext, Watches, Rebuilds, Exits, Save, Straggler, Hear, Flush, Take, GoBuilds, GoBuildFails,
       GoUnchanged,
        GoStops, GoRenameFails, GoSpawns, FrontStops, FrontSpawns, FrontAnswers, CssUnanswered, CssFallsBack, StylesFail,
        CssCompiles, GoDies, FrontDies, GoExitHeard, FrontExitHeard, devVars, Step
  <2> QED BY <1>1, <1>9, <1>11, <1>15, <2>1, <2>2
<1> QED BY <1>12, <1>13, <1>14, <1>15

-----------------------------------------------------------------------------
\* The inductive invariant is kept by every step.
LEMMA DevInvIsKept ==
    ASSUME AbsentIsNothing, DevTypes, DevInv, [DevNext]_devVars
    PROVE DevTypes' /\ DevInv'
BY DevTypesHold, WhatIsSavedIsHeard, ChainStaysInStep, GoStaysOfWhatWasHeard, FrontStaysInStep,
   FrontStaysOfWhatWasHeard,
   WordsStayKept, TabsStayTyped, OverlaysGoAway, AheadStaysUntold, TabsStayOfModules, TabsStayOfStyles
DEF DevInv

\* It holds when the session starts.
LEMMA DevInvStarts ==
    ASSUME AbsentIsNothing, DevInit
    PROVE DevTypes /\ DevInv
<1> USE DEF DevInit
<1>1. DevTypes
  <2>1. GoText \in [GoSources -> Texts] /\ FrontText \in [FrontSources -> Texts]
    BY KindsAreApart DEF GoText, FrontText, Texts
  <2>3. content \in [Sources -> Texts]
    BY DEF Texts
  <2>2. goProc \in GoProcs /\ frontProc \in FrontProcs
    BY <2>1 DEF GoProcs, FrontProcs, FrontOf
  <2>4. generated \in [EnvFiles -> Texts]
    BY <2>3, KindsAreApart DEF Texts
  <2> QED BY <2>1, <2>2, <2>3, <2>4 DEF DevTypes, ChainStages
<1>2. (\A s \in Sides : Later(s) = {}) /\ (\A f \in Sources : LastHeard(f) = content[f] /\ ~Fresh(f))
  BY DEF Later, LastHeard, Fresh
<1>30. GoText \in [GoSources -> Texts] /\ FrontText \in [FrontSources -> Texts]
  BY KindsAreApart DEF GoText, FrontText, Texts
<1>3. frontProc.up /\ frontProc.is = "serving" /\ frontProc.of = FrontText /\ frontProc # Absent
  <2>1. frontProc \in FrontProcs
    BY <1>30 DEF FrontProcs, FrontOf
  <2> QED BY <2>1 DEF FrontOf, AbsentIsNothing
<1>4. goProc.of = GoText /\ Up(goProc) /\ Serving /\ Up(frontProc) /\ ~Booting
  <2>1. goProc \in GoProcs
    BY <1>30 DEF GoProcs
  <2>2. goProc.of = GoText /\ goProc.up /\ goProc # Absent
    BY <2>1 DEF AbsentIsNothing
  <2> QED BY <1>3, <2>2 DEF Up, Serving, Booting
<1>5. HearsAll
  BY KindsAreApart DEF HearsAll
<1>6. ChainIsInStep
  BY <1>2 DEF ChainIsInStep, Sides
<1>7. GoIsOfWhatWasHeard
  BY <1>2, <1>4, KindsAreApart DEF GoIsOfWhatWasHeard, GoText, Up
<1>8. FrontIsInStep
  BY <1>4 DEF FrontIsInStep
<1>9. \A f \in FrontSources : FrontText[f] = LastHeard(f)
  BY <1>2, KindsAreApart DEF FrontText
<1>10. FrontIsOfWhatWasHeard
  BY <1>3, <1>4, <1>9, KindsAreApart DEF FrontIsOfWhatWasHeard, FrontIsOf
<1>11. WordsAreKept
  BY DEF WordsAreKept
<1>12. \A p \in PageFiles : screen[p] = Shows(p, FrontText)
  OBVIOUS
<1>13. TabsAreTyped /\ NoOverlayOfGood
  BY <1>12, WhatIsShown DEF TabsAreTyped, NoOverlayOfGood, IsTab
<1>14. \A p \in PageFiles, f \in FrontSources : f \in Tab(p) => screen[p].of[f] = LastHeard(f)
  BY <1>9, <1>12, WhatIsShown
<1>15. \A p \in PageFiles : Tab(p) \subseteq FrontSources /\ Styles \subseteq Tab(p)
  BY KindsAreApart DEF Tab
<1>16. TabsFollowModules /\ TabsFollowStyles
  BY <1>14, <1>15 DEF TabsFollowModules, TabsFollowStyles
<1>17. AheadIsUntold
  BY DEF AheadIsUntold
<1> QED BY <1>17, <1>1, <1>5, <1>6, <1>7, <1>8, <1>10, <1>11, <1>13, <1>16 DEF DevInv

\* At rest nothing is due, so what was heard is what the files hold and what runs.
LEMMA RestIsCurrent ==
    ASSUME AbsentIsNothing, DevTypes, DevInv
    PROVE SessionIsCurrent
<1> SUFFICES ASSUME AtRest PROVE SessionIsCurrent
  BY DEF SessionIsCurrent, RunsWhatIsSaved, SavesBringItBack, TabsCatchUp
<1> USE DEF DevInv
<1>1. events = {} /\ jobs = <<>> /\ stage = "idle" /\ (\A s \in Sides : pending[s] = {})
  BY DEF AtRest, DevTypes
<1>2. \A f \in Sources : LastHeard(f) = content[f] /\ ~Fresh(f)
  BY <1>1, HeardIsHeld
<1>3. \A s \in Sides : ~Due(s) /\ \A f : ~Asked(s, f)
  BY <1>1 DEF Due, Asked, Later
<1>4. "api" \in Sides /\ "app" \in Sides /\ "css" \in Sides
  BY DEF Sides
<1>5. ~GoIsDue /\ ~GoIsComing /\ ~FrontIsDue /\ ~StyleIsDue
  BY <1>1, <1>2, <1>3, <1>4, KindsAreApart DEF GoIsDue, GoIsComing, FrontIsDue, StyleIsDue, Unheard,
     Restarting
<1>6. \A f \in Modules : ~Listed(f)
  BY <1>1, <1>2, <1>3, <1>4, KindsAreApart DEF Listed, Restarting
<1>7. /\ Sound(GoFiles) <=> Good(GoFiles)
      /\ Sound(Styles) <=> Good(Styles)
      /\ Sound(FrontSources) <=> Good(FrontSources)
  BY <1>2, KindsAreApart DEF Sound, Good
<1>8. ~Booting
  BY DEF AtRest
<1>9. Up(goProc) /\ Good(GoFiles) /\ ahead["api"] = {} =>
         \A f \in GoSources : goProc.of[f] = content[f] \/ content[f] = "bad"
  <2> SUFFICES ASSUME Up(goProc), Good(GoFiles), ahead["api"] = {}, NEW f \in GoSources
               PROVE goProc.of[f] = content[f] \/ content[f] = "bad"
    OBVIOUS
  <2>1. goProc.of = built
    BY <1>1 DEF GoIsOfWhatWasHeard, Up
  <2>2. built[f] = LastHeard(f) \/ LastHeard(f) = "bad"
    BY <1>5, <1>7 DEF GoIsOfWhatWasHeard, Ahead
  <2> QED BY <1>2, <2>1, <2>2, KindsAreApart
<1>10. ASSUME Serving
       PROVE /\ \A f \in Modules : frontProc.of[f] = content[f] \/ f \in ahead["app"]
             /\ Good(Styles) => \A f \in Styles : frontProc.of[f] = content[f]
  <2>1. \A f \in Modules : frontProc.of[f] = content[f] \/ f \in ahead["app"]
    BY <1>2, <1>6, <1>10, KindsAreApart DEF FrontIsOfWhatWasHeard, FrontIsOf
  <2>2. Good(Styles) => \A f \in Styles : frontProc.of[f] = content[f]
    BY <1>2, <1>5, <1>7, <1>10, KindsAreApart DEF FrontIsOfWhatWasHeard
  <2> QED BY <2>1, <2>2
<1>11. Serving => \A f \in FrontSources :
          frontProc.of[f] = content[f] \/ f \in ahead["app"] \/ (f \in Styles /\ ~Good(Styles))
  BY <1>10, KindsAreApart
<1>12. Up(frontProc) /\ ~Serving => ~Good(FrontSources) \/ ahead["app"] # {}
  <2> SUFFICES ASSUME Up(frontProc), ~Serving PROVE ~Good(FrontSources) \/ ahead["app"] # {}
    OBVIOUS
  <2>1. frontProc \in FrontProcs /\ frontProc # Absent
    BY DEF DevTypes, Up
  <2>2. frontProc.is = "fallback"
    BY <1>8, <2>1 DEF Booting, Serving, FrontProcs
  <2> QED BY <1>5, <1>7, <2>2 DEF FrontIsOfWhatWasHeard, Ahead
<1>13. SavesBringItBack
  BY <1>5, <1>7 DEF WordsAreKept, SavesBringItBack, GoCannot, Ahead
<1>14. TabsCatchUp
  <2> SUFFICES ASSUME Serving, Up(goProc), NEW p \in PageFiles, screen[p] # Unavailable
               PROVE /\ screen[p].is = "page"
                     /\ \A f \in DOMAIN screen[p].of :
                           screen[p].of[f] = frontProc.of[f] \/ f \in untold \/ (f \in Styles /\ ~Good(Styles))
    BY DEF TabsCatchUp
  <2>1. Told
    BY <1>1 DEF Told
  <2>2. screen[p].is = "page" /\ DOMAIN screen[p].of = Tab(p)
    BY <2>1 DEF TabsAreTyped, NoOverlayOfGood
  <2>3. ASSUME NEW f \in Tab(p) \ Styles PROVE screen[p].of[f] = frontProc.of[f] \/ f \in untold
    <3>1. f \in Modules /\ f \in Sources
      BY KindsAreApart DEF Tab, Modules
    <3>2. screen[p].of[f] = LastHeard(f) \/ f \in untold
      BY <1>6, <1>8, <2>1, <2>2, <3>1 DEF TabsFollowModules
    <3>3. frontProc.of[f] = content[f] \/ f \in untold
      BY <1>10, <3>1 DEF AheadIsUntold
    <3> QED BY <1>2, <3>1, <3>2, <3>3
  <2>4. ASSUME Good(Styles), NEW f \in Styles PROVE screen[p].of[f] = frontProc.of[f] \/ f \in untold
    <3>1. screen[p].of[f] = LastHeard(f) \/ f \in untold
      BY <1>1, <1>5, <1>7, <1>8, <2>1, <2>2, <2>4 DEF TabsFollowStyles, Restarting
    <3> QED BY <1>2, <1>10, <2>4, <3>1, KindsAreApart
  <2> QED BY <2>2, <2>3, <2>4
<1>15. RunsWhatIsSaved
  BY <1>9, <1>11, <1>12 DEF RunsWhatIsSaved
<1> QED
  BY <1>13, <1>14, <1>15 DEF SessionIsCurrent

\* What runs, what brings a process back and what the tabs show is what was
\* saved last, whenever the saves were made and whatever died meanwhile, a
\* service that boots as well (the watcher, dedup, batcher and chain of dev.ts,
\* with what serve-entry.ts serves). The files that a build read before their
\* save was heard are excepted, and for the tabs the word that a service took
\* with it when it went before it was up.
THEOREM SessionsStayCurrent == DevSpec => []SessionIsCurrent
<1>1. DevInit => DevTypes /\ DevInv
  BY DevInvStarts, AbsentIsApart
<1>2. (DevTypes /\ DevInv) /\ [DevNext]_devVars => (DevTypes /\ DevInv)'
  BY DevInvIsKept, AbsentIsApart
<1>3. DevTypes /\ DevInv => SessionIsCurrent
  BY RestIsCurrent, AbsentIsApart
<1> QED BY <1>1, <1>2, <1>3, PTL DEF DevSpec
==============================================================================
