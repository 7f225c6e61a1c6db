--------------------------- MODULE AuthoringProofs ---------------------------
(***************************************************************************)
(* What is proved of an app under the hands of its author, from its first *)
(* day to its export: the summary of create-borgo, for any answers and any *)
(* machine; the one meaning of env.ts, for any files and any commands; the *)
(* lock of a dev session, for any sessions, directories and ports; the     *)
(* sources that a build refuses; the props a tab asks for ahead, for any   *)
(* pages and limits; and what an export leaves.                            *)
(***************************************************************************)
EXTENDS AppEnv, DevLock, SourceChecks, PropsCache, StaticExport, Scaffold,
        FoldLemmas, FiniteSetTheorems, SequenceTheorems, WellFoundedInduction, TLAPS

-----------------------------------------------------------------------------
(* A new app.  What each step of create-borgo finds on the disk is what    *)
(* the steps before it did, and half of what one that was killed did; the  *)
(* summary speaks only where one of them answered for it.                  *)

Disks == [repo : {"none", "partial", "whole"}, staged : BOOLEAN, lock : BOOLEAN,
          head : {"none", "theirs", "ours"}]

Answers3 == [asked : {TRUE}, sure : {TRUE}, commit : BOOLEAN, staged : BOOLEAN, lock : BOOLEAN]

BeforeGit == {"target", "environment", "nested", "template", "init"}
InGit == {"add", "commit", "identity", "head", "staged"}
AfterGit == {"summary", "dependencies", "modules", "next", "dev", "ended"}

ScaffoldTyped ==
    /\ scaffoldAt \in BeforeGit \cup InGit \cup AfterGit
    /\ disk \in Disks
    /\ installed \in BOOLEAN /\ tidied \in BOOLEAN
    /\ status \in {0, 1, Running}

\* what is on the disk, by the step that git is asked for
DiskByStep ==
    /\ scaffoldAt \in BeforeGit => disk = NoRepo /\ gitResult = "running" /\ repoSays = Unasked
    /\ scaffoldAt \in {"add", "commit", "identity"} =>
          /\ gitResult = "running" /\ repoSays = Unasked
          /\ disk.repo = "whole" /\ disk.head # "ours" /\ ~disk.lock
          /\ (disk.staged <=> scaffoldAt # "add")
    /\ scaffoldAt \in {"head", "staged"} => gitResult = "unresponsive"
    /\ scaffoldAt = "head" => repoSays = Unasked
    /\ scaffoldAt = "staged" =>
          /\ repoSays \in Answers3 /\ repoSays.commit = HasHead
          /\ ~repoSays.staged /\ ~repoSays.lock
    /\ scaffoldAt \in InGit =>
          /\ ~unheard => disk.head # "theirs"
          /\ disk.repo # "whole" => disk.head = "none" /\ ~disk.staged /\ ~disk.lock

\* git is asked of nobody's repository but the one that is made here
LeftAlone ==
    /\ scaffoldAt \in {"environment", "nested", "template", "init"} \cup InGit => wish.git
    /\ scaffoldAt \in {"nested", "template", "init"} \cup InGit => surroundings.redirect # "env"
    /\ scaffoldAt \in {"template", "init"} \cup InGit => ~surroundings.nested
    /\ surroundings.nested \/ surroundings.redirect = "env" \/ ~wish.git => disk = NoRepo

\* what is printed is printed last
TodoIsTrue ==
    /\ scaffoldAt # "ended" => todo = {} /\ status = Running
    /\ scaffoldAt \notin {"modules", "next", "dev", "ended"} => ~installed
    /\ scaffoldAt \notin {"next", "dev", "ended"} => ~tidied
    /\ scaffoldAt \in {"dependencies", "modules", "next", "dev"} => wish.install
    /\ todo # {} =>
          /\ ("bun install" \in todo <=> ~installed) /\ ("go mod tidy" \in todo <=> ~tidied)
          /\ wish.install => ("install go" \in todo <=> ~surroundings.go) /\ (status = 0 <=> Ready)

ScaffoldInv ==
    /\ ScaffoldTyped /\ DiskByStep /\ LeftAlone /\ TodoIsTrue
    /\ scaffoldAt \in AfterGit /\ ~unheard => SaidOfTheDisk

\* A command of git changes one thing of a repository, or two.
LEMMA NoRepoIsADisk ==
    /\ NoRepo \in Disks /\ NoRepo.repo = "none" /\ NoRepo.head = "none"
    /\ ~NoRepo.staged /\ ~NoRepo.lock
  BY DEF NoRepo, Disks

LEMMA DiskFields ==
    ASSUME NEW d \in Disks
    PROVE  /\ d.repo \in {"none", "partial", "whole"} /\ d.head \in {"none", "theirs", "ours"}
           /\ d.staged \in BOOLEAN /\ d.lock \in BOOLEAN
  BY DEF Disks

LEMMA DiskStaged ==
    ASSUME NEW d \in Disks, NEW e, e = [d EXCEPT !.staged = TRUE]
    PROVE  e \in Disks /\ e.repo = d.repo /\ e.staged /\ e.lock = d.lock /\ e.head = d.head
  BY DEF Disks

LEMMA DiskLocked ==
    ASSUME NEW d \in Disks, NEW e, e = [d EXCEPT !.lock = TRUE]
    PROVE  e \in Disks /\ e.repo = d.repo /\ e.staged = d.staged /\ e.lock /\ e.head = d.head
  BY DEF Disks

LEMMA DiskCommitted ==
    ASSUME NEW d \in Disks, NEW e, e = [d EXCEPT !.staged = FALSE, !.head = "ours"]
    PROVE  e \in Disks /\ e.repo = d.repo /\ ~e.staged /\ e.lock = d.lock /\ e.head = "ours"
  BY DEF Disks

LEMMA DiskBegun ==
    ASSUME NEW e, e = [NoRepo EXCEPT !.repo = "partial"]
    PROVE  e \in Disks /\ e.repo = "partial" /\ ~e.staged /\ ~e.lock /\ e.head = "none"
  BY NoRepoIsADisk DEF Disks

LEMMA DiskMade ==
    ASSUME NEW h \in {"none", "theirs"}, NEW e, e = [NoRepo EXCEPT !.repo = "whole", !.head = h]
    PROVE  e \in Disks /\ e.repo = "whole" /\ ~e.staged /\ ~e.lock /\ e.head = h
  BY NoRepoIsADisk DEF Disks

LEMMA ScaffoldInitHolds == ScaffoldInit => ScaffoldInv
  <1> SUFFICES ASSUME ScaffoldInit PROVE ScaffoldInv
    OBVIOUS
  <1>1. ScaffoldTyped
    BY NoRepoIsADisk DEF ScaffoldInit, ScaffoldTyped, BeforeGit
  <1>2. DiskByStep /\ LeftAlone
    BY DEF ScaffoldInit, DiskByStep, LeftAlone, BeforeGit, InGit
  <1>3. TodoIsTrue
    BY DEF ScaffoldInit, TodoIsTrue
  <1>4. scaffoldAt \notin AfterGit
    BY DEF ScaffoldInit, AfterGit
  <1>. QED BY <1>1, <1>2, <1>3, <1>4 DEF ScaffoldInv

\* Until the summary nothing is installed and nothing is printed.
LEMMA GitStepKeeps ==
    ASSUME ScaffoldInv, scaffoldAt \in BeforeGit \cup InGit,
           UNCHANGED <<wish, surroundings, installed, tidied, todo>>,
           status' = Running \/ scaffoldAt' = "ended", status' \in {1, Running},
           scaffoldAt' \in BeforeGit \cup InGit \cup {"summary", "ended"},
           disk' \in Disks, DiskByStep', LeftAlone',
           scaffoldAt' \in {"summary", "ended"} /\ ~unheard' => SaidOfTheDisk'
    PROVE  ScaffoldInv'
  <1>1. ScaffoldTyped'
    BY DEF ScaffoldInv, ScaffoldTyped, AfterGit
  <1>2. scaffoldAt \notin AfterGit
    BY DEF BeforeGit, InGit, AfterGit
  <1>3. todo = {} /\ ~installed /\ ~tidied
    BY <1>2 DEF ScaffoldInv, TodoIsTrue, AfterGit
  <1>4. TodoIsTrue'
    BY <1>3 DEF TodoIsTrue, BeforeGit, InGit
  <1>5. scaffoldAt' \in AfterGit => scaffoldAt' \in {"summary", "ended"}
    BY DEF AfterGit, BeforeGit, InGit
  <1>. QED BY <1>1, <1>4, <1>5 DEF ScaffoldInv

\* The steps before the repository is there.
LEMMA BeforeGitKeeps ==
    ASSUME ScaffoldInv, TargetTaken \/ Copies \/ Environment \/ AsksNested \/ AsksTemplate
    PROVE  ScaffoldInv'
  <1>1. /\ disk' = disk /\ disk \in Disks /\ UNCHANGED <<wish, surroundings, installed, tidied, todo>>
        /\ scaffoldAt \in BeforeGit /\ scaffoldAt # "init"
    BY DEF TargetTaken, Copies, Environment, AsksNested, AsksTemplate, given, steps, BeforeGit,
           ScaffoldInv, ScaffoldTyped
  <1>2. disk = NoRepo /\ gitResult = "running" /\ repoSays = Unasked /\ status = Running
    BY <1>1 DEF ScaffoldInv, DiskByStep, TodoIsTrue, BeforeGit
  <1>3. \/ /\ scaffoldAt' \in {"environment", "nested", "template", "init"}
           /\ UNCHANGED <<gitResult, repoSays, status>>
           /\ wish.git /\ (scaffoldAt' # "environment" => surroundings.redirect # "env")
           /\ scaffoldAt' \in {"template", "init"} => ~surroundings.nested
        \/ /\ scaffoldAt' \in {"summary", "ended"} /\ repoSays' = repoSays
           /\ gitResult' \in {"running", "git-env", "unavailable", "unrunnable", "nested", "unresponsive"}
           /\ status' = Running \/ scaffoldAt' = "ended"
           /\ status' \in {1, Running}
    <2>1. CASE TargetTaken
      BY <2>1, <1>2 DEF TargetTaken, summary
    <2>2. CASE Copies
      BY <2>2, <1>2 DEF Copies, summary
    <2>3. CASE Environment
      BY <2>3, <1>2 DEF Environment, summary, Reports, GoesOn, ScaffoldInv, LeftAlone
    <2>4. CASE AsksNested
      <3>1. scaffoldAt = "nested" /\ wish.git /\ surroundings.redirect # "env" /\ UNCHANGED <<status, repoSays>>
        BY <2>4, <1>2 DEF AsksNested, GoesOn, Reports, summary, ScaffoldInv, LeftAlone
      <3>2. PICK answer \in InsideWorkTree :
              IF answer = "template" THEN GoesOn(answer) ELSE Reports(answer)
        BY <2>4 DEF AsksNested
      <3>3. /\ answer \in {"unavailable", "unrunnable", "nested", "unresponsive", "template"}
            /\ answer = "template" => ~surroundings.nested
        <4>1. CASE surroundings.git = "missing"
          BY <3>2, <4>1 DEF InsideWorkTree
        <4>2. CASE surroundings.git = "unrunnable"
          BY <3>2, <4>2 DEF InsideWorkTree
        <4>3. CASE surroundings.git \notin {"missing", "unrunnable"} /\ surroundings.nested
          BY <3>2, <4>3 DEF InsideWorkTree
        <4>4. CASE surroundings.git \notin {"missing", "unrunnable"} /\ ~surroundings.nested
          BY <3>2, <4>4 DEF InsideWorkTree
        <4>. QED BY <4>1, <4>2, <4>3, <4>4
      <3>. QED BY <3>1, <3>2, <3>3, <1>2 DEF GoesOn, Reports, summary
    <2>5. CASE AsksTemplate
      <3>1. scaffoldAt = "template" /\ wish.git /\ surroundings.redirect # "env" /\ ~surroundings.nested
        BY <2>5 DEF AsksTemplate, ScaffoldInv, LeftAlone
      <3>. QED BY <2>5, <3>1, <1>2 DEF AsksTemplate, Reports, GoesOn, summary
    <2>. QED BY <2>1, <2>2, <2>3, <2>4, <2>5
  <1>4. scaffoldAt' \in BeforeGit \cup {"summary", "ended"} /\ status' \in {1, Running}
        /\ (status' = Running \/ scaffoldAt' = "ended")
    BY <1>2, <1>3 DEF BeforeGit
  <1>5. DiskByStep' /\ LeftAlone'
    BY <1>1, <1>2, <1>3 DEF DiskByStep, LeftAlone, BeforeGit, InGit
  <1>6. SaidOfTheDisk' \/ scaffoldAt' \notin {"summary", "ended"}
    BY <1>1, <1>2, <1>3 DEF SaidOfTheDisk, Unasked
  <1>. QED BY <1>1, <1>4, <1>5, <1>6, GitStepKeeps

\* The repository, and the commands that may be killed at it.
LEMMA InitsKeeps == ASSUME ScaffoldInv, Inits PROVE ScaffoldInv'
  <1>1. /\ scaffoldAt = "init" /\ UNCHANGED <<wish, surroundings, unheard, installed, tidied, todo, status>>
        /\ disk = NoRepo /\ gitResult = "running" /\ repoSays = Unasked /\ status = Running
        /\ wish.git /\ surroundings.redirect # "env" /\ ~surroundings.nested
    BY DEF Inits, given, steps, ScaffoldInv, DiskByStep, TodoIsTrue, LeftAlone, BeforeGit
  <1>2. PICK head : head = (IF unheard THEN "theirs" ELSE "none")
    OBVIOUS
  <1>3. head \in {"none", "theirs"} /\ (~unheard => head = "none")
    BY <1>2
  <1>4. disk \in Disks
    BY DEF ScaffoldInv, ScaffoldTyped
  <1>5. FreshRepo = [NoRepo EXCEPT !.repo = "whole", !.head = head]
    BY <1>2 DEF FreshRepo
  <1>6. /\ FreshRepo \in Disks /\ FreshRepo.repo = "whole" /\ FreshRepo.head = head
        /\ ~FreshRepo.staged /\ ~FreshRepo.lock
        /\ NoRepo \in Disks /\ NoRepo.repo = "none" /\ NoRepo.head = "none"
        /\ ~NoRepo.staged /\ ~NoRepo.lock
    BY <1>3, <1>5, DiskMade, NoRepoIsADisk
  <1>7. PICK half : half = [NoRepo EXCEPT !.repo = "partial"]
    OBVIOUS
  <1>8. half \in Disks /\ half.repo = "partial" /\ half.head = "none" /\ ~half.staged /\ ~half.lock
    BY <1>7, DiskBegun
  <1>9. \/ disk' = FreshRepo /\ scaffoldAt' = "add" /\ UNCHANGED <<gitResult, repoSays>>
        \/ disk' \in {NoRepo, half} /\ scaffoldAt' = "summary" /\ gitResult' = "init-failed" /\ repoSays' = repoSays
        \/ /\ disk' \in {NoRepo, half, FreshRepo} /\ scaffoldAt' = "head" /\ gitResult' = "unresponsive"
           /\ repoSays' = repoSays
    BY <1>7 DEF Inits, GoesOn, Reports, AsksTheDisk, summary
  <1>10. disk' \in Disks /\ scaffoldAt' \in BeforeGit \cup InGit \cup {"summary", "ended"} /\ scaffoldAt \in BeforeGit
    BY <1>1, <1>6, <1>8, <1>9 DEF InGit, BeforeGit
  <1>11. LeftAlone'
    BY <1>1, <1>9 DEF LeftAlone
  <1>12. DiskByStep'
    <2>1. CASE disk' = FreshRepo /\ scaffoldAt' = "add" /\ UNCHANGED <<gitResult, repoSays>>
      <3>1. disk'.repo = "whole" /\ disk'.head = head /\ ~disk'.staged /\ ~disk'.lock
        BY <1>6, <2>1
      <3>. QED BY <1>1, <1>3, <2>1, <3>1 DEF DiskByStep, BeforeGit, InGit
    <2>2. CASE scaffoldAt' = "summary"
      BY <2>2 DEF DiskByStep, BeforeGit, InGit
    <2>3. CASE /\ disk' \in {NoRepo, half, FreshRepo} /\ scaffoldAt' = "head"
               /\ gitResult' = "unresponsive" /\ repoSays' = repoSays
      <3>1. /\ ~disk'.staged /\ ~disk'.lock
            /\ (disk'.repo = "whole" /\ disk'.head = head) \/ disk'.head = "none"
        BY <1>6, <1>8, <2>3
      <3>2. /\ ~unheard' => disk'.head # "theirs"
            /\ disk'.repo # "whole" => disk'.head = "none"
        BY <1>1, <1>3, <3>1
      <3>. QED BY <1>1, <2>3, <3>1, <3>2 DEF DiskByStep, BeforeGit, InGit
    <2>. QED BY <1>9, <2>1, <2>2, <2>3
  <1>13. scaffoldAt' \in {"summary", "ended"} => SaidOfTheDisk'
    BY <1>1, <1>6, <1>8, <1>9 DEF SaidOfTheDisk, Unasked
  <1>. QED BY <1>1, <1>10, <1>11, <1>12, <1>13, GitStepKeeps

LEMMA AddsKeeps == ASSUME ScaffoldInv, Adds PROVE ScaffoldInv'
  <1>1. /\ scaffoldAt = "add" /\ UNCHANGED <<wish, surroundings, unheard, installed, tidied, todo, status>>
        /\ gitResult = "running" /\ repoSays = Unasked /\ status = Running
        /\ disk.repo = "whole" /\ disk.head # "ours" /\ ~disk.lock /\ ~disk.staged
        /\ ~unheard => disk.head # "theirs"
        /\ wish.git /\ surroundings.redirect # "env" /\ ~surroundings.nested
    BY DEF Adds, given, steps, ScaffoldInv, DiskByStep, TodoIsTrue, LeftAlone, InGit
  <1>2. disk \in Disks
    BY DEF ScaffoldInv, ScaffoldTyped
  <1>3. /\ Staged \in Disks /\ Staged.repo = "whole" /\ Staged.head = disk.head
        /\ Staged.staged /\ ~Staged.lock
    BY <1>1, <1>2, DiskStaged DEF Staged
  <1>4. PICK locked : locked = [disk EXCEPT !.lock = TRUE]
    OBVIOUS
  <1>5. locked \in Disks /\ locked.repo = "whole" /\ locked.head = disk.head /\ ~locked.staged /\ locked.lock
    BY <1>1, <1>2, <1>4, DiskLocked
  <1>6. \/ disk' = Staged /\ scaffoldAt' = "commit" /\ UNCHANGED <<gitResult, repoSays>>
        \/ disk' = disk /\ scaffoldAt' = "summary" /\ gitResult' = "stage-failed" /\ repoSays' = repoSays
        \/ /\ disk' \in {disk, locked, Staged} /\ scaffoldAt' = "head" /\ gitResult' = "unresponsive"
           /\ repoSays' = repoSays
    BY <1>4 DEF Adds, GoesOn, Reports, AsksTheDisk, summary
  <1>7. disk' \in Disks /\ scaffoldAt' \in BeforeGit \cup InGit \cup {"summary", "ended"} /\ scaffoldAt \in InGit
    BY <1>1, <1>2, <1>3, <1>5, <1>6 DEF InGit, BeforeGit
  <1>8. LeftAlone'
    BY <1>1, <1>6 DEF LeftAlone
  <1>9. DiskByStep'
    BY <1>1, <1>3, <1>5, <1>6 DEF DiskByStep, BeforeGit, InGit
  <1>10. scaffoldAt' \in {"summary", "ended"} => SaidOfTheDisk'
    BY <1>1, <1>6 DEF SaidOfTheDisk, Unasked
  <1>. QED BY <1>1, <1>7, <1>8, <1>9, <1>10, GitStepKeeps

LEMMA CommitsKeeps == ASSUME ScaffoldInv, Commits \/ AsksIdentity PROVE ScaffoldInv'
  <1>1. /\ scaffoldAt \in {"commit", "identity"}
        /\ UNCHANGED <<wish, surroundings, unheard, installed, tidied, todo, status>>
        /\ gitResult = "running" /\ repoSays = Unasked /\ status = Running
        /\ disk.repo = "whole" /\ disk.head # "ours" /\ ~disk.lock /\ disk.staged
        /\ ~unheard => disk.head # "theirs"
        /\ wish.git /\ surroundings.redirect # "env" /\ ~surroundings.nested
    BY DEF Commits, AsksIdentity, given, steps, ScaffoldInv, DiskByStep, TodoIsTrue, LeftAlone, InGit
  <1>2. disk \in Disks
    BY DEF ScaffoldInv, ScaffoldTyped
  <1>3. /\ Committed \in Disks /\ Committed.repo = "whole" /\ Committed.head = "ours"
        /\ ~Committed.staged /\ ~Committed.lock
    BY <1>1, <1>2, DiskCommitted DEF Committed
  <1>4. PICK locked : locked = [disk EXCEPT !.lock = TRUE]
    OBVIOUS
  <1>5. locked \in Disks /\ locked.repo = "whole" /\ locked.head = disk.head /\ locked.staged /\ locked.lock
    BY <1>1, <1>2, <1>4, DiskLocked
  <1>6. \/ disk' = Committed /\ scaffoldAt' = "summary" /\ gitResult' = "created" /\ repoSays' = repoSays
        \/ disk' = disk /\ scaffoldAt' = "identity" /\ UNCHANGED <<gitResult, repoSays>>
        \/ /\ disk' = disk /\ scaffoldAt' = "summary" /\ repoSays' = repoSays
           /\ gitResult' \in {"commit-failed", "no-identity"}
        \/ /\ disk' \in {disk, locked, Committed} /\ scaffoldAt' = "head" /\ gitResult' = "unresponsive"
           /\ repoSays' = repoSays
    BY <1>4 DEF Commits, AsksIdentity, GoesOn, Reports, AsksTheDisk, summary
  <1>7. disk' \in Disks /\ scaffoldAt' \in BeforeGit \cup InGit \cup {"summary", "ended"} /\ scaffoldAt \in InGit
    BY <1>1, <1>2, <1>3, <1>5, <1>6 DEF InGit, BeforeGit
  <1>8. LeftAlone'
    BY <1>1, <1>6 DEF LeftAlone
  <1>9. DiskByStep'
    BY <1>1, <1>3, <1>5, <1>6 DEF DiskByStep, BeforeGit, InGit
  <1>10. scaffoldAt' \in {"summary", "ended"} => SaidOfTheDisk'
    BY <1>1, <1>3, <1>6 DEF SaidOfTheDisk, Unasked
  <1>. QED BY <1>1, <1>7, <1>8, <1>9, <1>10, GitStepKeeps

\* What was killed is asked for, and what is not answered is not said.
LEMMA AsksKeep == ASSUME ScaffoldInv, AsksHead \/ AsksStaged PROVE ScaffoldInv'
  <1>1. /\ scaffoldAt \in {"head", "staged"} /\ disk' = disk /\ gitResult' = gitResult
        /\ UNCHANGED <<wish, surroundings, unheard, installed, tidied, todo, status>>
        /\ gitResult = "unresponsive" /\ status = Running
        /\ ~unheard => disk.head # "theirs"
        /\ disk.repo # "whole" => disk.head = "none" /\ ~disk.staged /\ ~disk.lock
        /\ wish.git /\ surroundings.redirect # "env" /\ ~surroundings.nested
    BY DEF AsksHead, AsksStaged, given, steps, ScaffoldInv, DiskByStep, TodoIsTrue, LeftAlone, InGit
  <1>2. /\ disk \in Disks /\ disk.staged \in BOOLEAN /\ disk.lock \in BOOLEAN
        /\ disk.head \in {"none", "theirs", "ours"}
    BY DiskFields DEF ScaffoldInv, ScaffoldTyped
  <1>3. scaffoldAt' \in {"staged", "summary"}
    BY DEF AsksHead, AsksStaged
  <1>4. scaffoldAt' \in BeforeGit \cup InGit \cup {"summary", "ended"} /\ scaffoldAt \in InGit
    BY <1>1, <1>3 DEF InGit
  <1>5. LeftAlone'
    BY <1>1, <1>3 DEF LeftAlone
  <1>6. CASE AsksHead
    <2>1. CASE scaffoldAt' = "summary" /\ repoSays' = Unsure
      <3>1. SaidOfTheDisk'
        BY <1>1, <2>1 DEF SaidOfTheDisk, Unsure
      <3>2. DiskByStep'
        BY <2>1 DEF DiskByStep, BeforeGit, InGit
      <3>. QED BY <1>1, <1>2, <1>4, <1>5, <3>1, <3>2, GitStepKeeps
    <2>2. CASE /\ scaffoldAt' = "staged"
               /\ repoSays' = [asked |-> TRUE, sure |-> TRUE, commit |-> HasHead, staged |-> FALSE, lock |-> FALSE]
      <3>1. HasHead \in BOOLEAN
        BY Zenon DEF HasHead
      <3>2. /\ repoSays' \in Answers3 /\ repoSays'.commit = HasHead
            /\ ~repoSays'.staged /\ ~repoSays'.lock
        BY <2>2, <3>1 DEF Answers3
      <3>3. HasHead' = HasHead
        BY <1>1 DEF HasHead
      <3>4. DiskByStep'
        BY <1>1, <2>2, <3>2, <3>3 DEF DiskByStep, BeforeGit, InGit
      <3>. QED BY <1>1, <1>2, <1>3, <1>4, <1>5, <2>2, <3>4, GitStepKeeps
    <2>. QED BY <1>6, <2>1, <2>2 DEF AsksHead
  <1>7. CASE AsksStaged
    <2>1. scaffoldAt' = "summary" /\ scaffoldAt = "staged"
      BY <1>7 DEF AsksStaged
    <2>2. repoSays \in Answers3 /\ repoSays.commit = HasHead
      BY <2>1 DEF ScaffoldInv, DiskByStep
    <2>3. DiskByStep'
      BY <2>1 DEF DiskByStep, BeforeGit, InGit
    <2>4. CASE repoSays' = Silence
      <3>1. SaidOfTheDisk'
        BY <1>1, <2>4 DEF SaidOfTheDisk, Unsure, Silence
      <3>. QED BY <1>1, <1>2, <1>4, <1>5, <2>3, <3>1, GitStepKeeps
    <2>5. CASE /\ disk.repo = "whole"
               /\ repoSays' = [repoSays EXCEPT !.staged = disk.staged, !.lock = disk.lock]
      <3>1. /\ repoSays'.commit = HasHead /\ repoSays'.staged = disk.staged /\ repoSays'.lock = disk.lock
        BY <1>2, <2>2, <2>5 DEF Answers3
      <3>2. ~unheard => HasHead = (disk.head = "ours")
        BY <1>1, <1>2, <2>5 DEF HasHead
      <3>3. ~unheard' => SaidOfTheDisk'
        BY <1>1, <3>1, <3>2 DEF SaidOfTheDisk
      <3>. QED BY <1>1, <1>2, <1>4, <1>5, <2>3, <3>3, GitStepKeeps
    <2>. QED BY <1>7, <2>4, <2>5 DEF AsksStaged
  <1>. QED BY <1>6, <1>7

\* The summary and what comes after it leave the disk alone.
LEMMA StaysTrue ==
    ASSUME ScaffoldInv, scaffoldAt \in AfterGit, scaffoldAt' \in AfterGit,
           UNCHANGED <<wish, surroundings, disk, unheard, repoSays>>,
           gitResult' = gitResult \/ (gitResult' = "unavailable" /\ ~wish.git),
           installed' \in BOOLEAN, tidied' \in BOOLEAN, status' \in {0, 1, Running}, TodoIsTrue'
    PROVE  ScaffoldInv'
  <1>1. ScaffoldTyped'
    BY DEF ScaffoldInv, ScaffoldTyped
  <1>2. LeftAlone' /\ DiskByStep'
    BY DEF ScaffoldInv, LeftAlone, DiskByStep, BeforeGit, InGit, AfterGit
  <1>3. ~unheard' => SaidOfTheDisk'
    <2>1. CASE gitResult' = gitResult
      BY <2>1 DEF ScaffoldInv, SaidOfTheDisk
    <2>2. CASE gitResult' = "unavailable" /\ ~wish.git
      <3>1. disk = NoRepo
        BY <2>2 DEF ScaffoldInv, LeftAlone
      <3>2. ~unheard => SaidOfTheDisk
        BY DEF ScaffoldInv
      <3>. QED BY <2>2, <3>1, <3>2 DEF SaidOfTheDisk
    <2>. QED BY <2>1, <2>2
  <1>. QED BY <1>1, <1>2, <1>3 DEF ScaffoldInv

LEMMA SummaryKeeps ==
    ASSUME ScaffoldInv, Summarises \/ Dependencies \/ GoModules \/ NextSteps \/ DevServer
    PROVE  ScaffoldInv'
  <1>1. /\ scaffoldAt \in {"summary", "dependencies", "modules", "next", "dev"}
        /\ UNCHANGED <<wish, surroundings, disk, unheard, repoSays>>
        /\ gitResult' = gitResult \/ (gitResult' = "unavailable" /\ ~wish.git)
    BY DEF Summarises, Dependencies, GoModules, NextSteps, DevServer, given, summary
  <1>2. /\ todo = {} /\ status = Running /\ installed \in BOOLEAN /\ tidied \in BOOLEAN
        /\ scaffoldAt \notin {"modules", "next", "dev"} => ~installed
        /\ scaffoldAt \notin {"next", "dev"} => ~tidied
        /\ scaffoldAt # "summary" => wish.install
    BY <1>1 DEF ScaffoldInv, ScaffoldTyped, TodoIsTrue
  <1>3. /\ scaffoldAt' \in {"dependencies", "modules", "next", "dev", "ended"}
        /\ installed' \in BOOLEAN /\ tidied' \in BOOLEAN /\ status' \in {0, 1, Running}
        /\ TodoIsTrue'
    <2>1. CASE Summarises
      <3>1. installed' = installed /\ tidied' = tidied /\ scaffoldAt = "summary"
        BY <2>1 DEF Summarises
      <3>2. CASE wish.install
        <4>1. scaffoldAt' = "dependencies" /\ UNCHANGED <<todo, status>> /\ wish'.install
          BY <1>1, <2>1, <3>2 DEF Summarises
        <4>. QED BY <1>2, <3>1, <4>1 DEF TodoIsTrue
      <3>3. CASE ~wish.install
        <4>1. /\ scaffoldAt' = "ended" /\ status' = 0
              /\ todo' = {"bun install", "go mod tidy", "bun run dev"} /\ ~wish'.install
          BY <1>1, <2>1, <3>3 DEF Summarises
        <4>2. ("bun install" \in todo' <=> ~installed') /\ ("go mod tidy" \in todo' <=> ~tidied')
          BY <1>2, <3>1, <4>1
        <4>3. TodoIsTrue'
          BY <4>1, <4>2 DEF TodoIsTrue
        <4>. QED BY <1>2, <3>1, <4>1, <4>3
      <3>. QED BY <3>2, <3>3
    <2>2. CASE Dependencies
      <3>1. /\ scaffoldAt = "dependencies" /\ scaffoldAt' \in {"modules", "next"} /\ installed' \in BOOLEAN
            /\ UNCHANGED <<tidied, todo, status>>
        BY <2>2 DEF Dependencies
      <3>. QED BY <1>1, <1>2, <3>1 DEF TodoIsTrue
    <2>3. CASE GoModules
      BY <1>1, <1>2, <2>3 DEF GoModules, TodoIsTrue
    <2>4. CASE NextSteps
      <3>1. scaffoldAt = "next" /\ UNCHANGED <<installed, tidied>> /\ wish'.install
        BY <1>1, <1>2, <2>4 DEF NextSteps
      <3>2. CASE Ready /\ wish.start
        BY <1>1, <1>2, <2>4, <3>1, <3>2 DEF NextSteps, TodoIsTrue
      <3>3. CASE ~(Ready /\ wish.start)
        <4>1. /\ scaffoldAt' = "ended" /\ status' \in {0, 1} /\ (status' = 0 <=> Ready')
              /\ ("bun install" \in todo' <=> ~installed')
              /\ ("go mod tidy" \in todo' <=> ~tidied')
              /\ ("install go" \in todo' <=> ~surroundings'.go)
          <5>1. /\ todo' = (IF installed THEN {} ELSE {"bun install"}) \cup
                            (IF surroundings.go THEN {} ELSE {"install go"}) \cup
                            (IF ~tidied THEN {"go mod tidy"} ELSE {}) \cup {"bun run dev"}
                /\ status' = (IF Ready THEN 0 ELSE 1) /\ scaffoldAt' = "ended"
            BY <2>4, <3>3 DEF NextSteps, GoWillDo
          <5>2. Ready' <=> Ready
            BY <3>1 DEF Ready
          <5>3. "bun install" \in todo' <=> ~installed
            BY <5>1
          <5>4. "go mod tidy" \in todo' <=> ~tidied
            BY <5>1
          <5>5. "install go" \in todo' <=> ~surroundings.go
            BY <5>1
          <5>6. /\ installed' <=> installed
                /\ tidied' <=> tidied
                /\ surroundings'.go <=> surroundings.go
            BY <1>1, <3>1
          <5>7. status' \in {0, 1} /\ (status' = 0 <=> Ready')
            <6>1. CASE Ready
              <7>1. status' = 0
                BY <5>1, <6>1
              <7>. QED BY <5>2, <6>1, <7>1
            <6>2. CASE ~Ready
              <7>1. status' = 1
                BY <5>1, <6>2
              <7>. QED BY <5>2, <6>2, <7>1
            <6>. QED BY <6>1, <6>2
          <5>. QED BY <5>1, <5>3, <5>4, <5>5, <5>6, <5>7, Zenon
        <4>2. installed' \in BOOLEAN /\ tidied' \in BOOLEAN
          BY <1>2, <3>1
        <4>3. TodoIsTrue'
          BY <3>1, <4>1 DEF TodoIsTrue
        <4>. QED BY <4>1, <4>2, <4>3
      <3>. QED BY <3>2, <3>3
    <2>5. CASE DevServer
      BY <1>1, <1>2, <2>5 DEF DevServer, TodoIsTrue, steps
    <2>. QED BY <2>1, <2>2, <2>3, <2>4, <2>5
  <1>4. scaffoldAt \in AfterGit /\ scaffoldAt' \in AfterGit
    BY <1>1, <1>3 DEF AfterGit
  <1>. QED BY <1>1, <1>3, <1>4, StaysTrue

\* The summary of create-borgo (cli.ts 522) says of the disk what the disk holds, for any
\* answers and any machine, wherever a git command was killed; an enclosing
\* repository, or the one an environment names, is left alone; and the next
\* steps are what is still to be done.
THEOREM SummaryTellsTheTruth == ScaffoldSpec => []SummaryIsTrue
  <1>1. ScaffoldInv => SummaryIsTrue
    <2> SUFFICES ASSUME ScaffoldInv PROVE SummaryIsTrue
      OBVIOUS
    <2>1. scaffoldAt = "summary" \/ status # Running => scaffoldAt \in AfterGit
      BY DEF ScaffoldInv, TodoIsTrue, AfterGit
    <2>2. status # Running => TodoIsTrue
      BY DEF ScaffoldInv
    <2>. QED BY <2>1, <2>2 DEF ScaffoldInv, LeftAlone, TodoIsTrue, SummaryIsTrue
  <1>2. ScaffoldInv /\ [ScaffoldNext]_scaffoldVars => ScaffoldInv'
    <2> SUFFICES ASSUME ScaffoldInv, [ScaffoldNext]_scaffoldVars PROVE ScaffoldInv'
      OBVIOUS
    <2>1. CASE UNCHANGED scaffoldVars
      <3>1. /\ UNCHANGED <<wish, surroundings, scaffoldAt, disk, unheard>>
            /\ UNCHANGED <<gitResult, repoSays, installed, tidied, todo, status>>
        BY <2>1 DEF scaffoldVars
      <3>2. ScaffoldTyped' /\ LeftAlone'
        BY <3>1 DEF ScaffoldInv, ScaffoldTyped, LeftAlone
      <3>3. DiskByStep'
        BY <3>1 DEF ScaffoldInv, DiskByStep, HasHead
      <3>4. TodoIsTrue'
        BY <3>1 DEF ScaffoldInv, TodoIsTrue, Ready
      <3>5. SaidOfTheDisk' <=> SaidOfTheDisk
        BY <3>1 DEF SaidOfTheDisk
      <3>. QED BY <3>1, <3>2, <3>3, <3>4, <3>5 DEF ScaffoldInv
    <2>2. CASE ScaffoldNext
      BY <2>2, BeforeGitKeeps, InitsKeeps, AddsKeeps, CommitsKeeps, AsksKeep, SummaryKeeps
         DEF ScaffoldNext
    <2>. QED BY <2>1, <2>2
  <1>. QED BY <1>1, <1>2, ScaffoldInitHolds, PTL DEF ScaffoldSpec

-----------------------------------------------------------------------------
(* env.ts.  What is kept of a read is a function of what it was read from, *)
(* so two readers of one source hold one contract.                          *)

\* what a read of env.ts says is a function of what it was read from
ContentsOf(of) == of[1][of[2]]
AppOf(of) ==
    [of     |-> of,
     metas  |-> [i \in DOMAIN ContentsOf(of).schemas |-> DefineEnv(ContentsOf(of).schemas[i], of[3])],
     others |-> ContentsOf(of).others]

ClientMap(app) == Joined(app, ClientOf)
Contract(app) == Joined(app, ServerOf)

\* A client variable never reads NaN: the build refuses the name instead.
LEMMA ClientValueIsNotNaN ==
    ASSUME NEW spec, NEW raw PROVE ClientValue(spec, raw) # NaN
  <1>1. Refused # NaN
    <2>1. Refused.t = "refused" /\ NaN.t = "number"
      BY DEF Refused, NaN, Num
    <2>. QED BY <2>1
  <1>. QED BY <1>1 DEF ClientValue, Ships

LEMMA ClientMapHasNoNaN ==
    ASSUME NEW of, NEW n \in DOMAIN ClientMap(AppOf(of))
    PROVE  ClientMap(AppOf(of))[n] # NaN
  <1> DEFINE app == AppOf(of)
  <1>1. /\ DOMAIN app.metas = DOMAIN ContentsOf(of).schemas
        /\ \A i \in DOMAIN app.metas : app.metas[i] = DefineEnv(ContentsOf(of).schemas[i], of[3])
    BY DEF AppOf
  <1>2. /\ n \in UNION {DOMAIN app.metas[i].clientValues : i \in DOMAIN app.metas}
        /\ ClientMap(app)[n] = app.metas[CHOOSE i \in DOMAIN app.metas : n \in DOMAIN app.metas[i].clientValues].clientValues[n]
    BY DEF ClientMap, Joined, ClientOf
  <1>3. PICK i \in DOMAIN app.metas : /\ n \in DOMAIN app.metas[i].clientValues
                                     /\ ClientMap(app)[n] = app.metas[i].clientValues[n]
    BY <1>2
  <1>4. PICK schema, env : app.metas[i] = DefineEnv(schema, env)
    BY <1>1
  <1>5. DefineEnv(schema, env).clientValues = [m \in DOMAIN schema.client |-> ClientValue(schema.client[m], env[m])]
    BY DEF DefineEnv
  <1>6. app.metas[i].clientValues[n] = ClientValue(schema.client[n], env[n])
    BY <1>3, <1>4, <1>5
  <1>. QED BY <1>3, <1>6, ClientValueIsNotNaN

\* The bundle's map holds every client variable that has a value, as it is.
LEMMA TheMapIsTheValues ==
    ASSUME NEW of, NEW n \in DOMAIN ClientMap(AppOf(of)), ClientMap(AppOf(of))[n] # Undefined
    PROVE  /\ n \in DOMAIN ClientEnvDefine(AppOf(of))
           /\ ClientEnvDefine(AppOf(of))[n] = ClientMap(AppOf(of))[n]
  <1> DEFINE Map == ClientMap(AppOf(of))
  <1>1. ClientEnvDefine(AppOf(of)) = [m \in {k \in DOMAIN Map : Map[k] # Undefined} |-> JsonOf(Map[m])]
    BY DEF ClientEnvDefine, ClientMap
  <1>2. JsonOf(Map[n]) = Map[n]
    BY ClientMapHasNoNaN DEF JsonOf
  <1>3. /\ n \in DOMAIN ClientEnvDefine(AppOf(of))
        /\ ClientEnvDefine(AppOf(of))[n] = JsonOf(Map[n])
    BY <1>1
  <1>. QED BY <1>2, <1>3

\* None is a value of its own.
NoneIsNoRecord ==
    \A file, what : /\ None # [file |-> file, app |-> what]
                    /\ None # [contract |-> what, file |-> file]

\* what is kept of a read is what it was read from
ReadsAreOfTheirSources ==
    /\ bundle # None => bundle = Bundled(AppOf(bundle.of))
    /\ service # None => service = Booted(AppOf(service.of))
    /\ memo # None => memo = [file |-> memo.app.of[1], app |-> AppOf(memo.app.of)]

\* of a build, both halves are of one read
BuildsAreOfOneRead ==
    /\ ~dev => sides = {}
    /\ dev => ~building
    /\ building => memo # None /\ goFile = GoEnvSource(memo.app)
    /\ ~dev /\ goHalf # None /\ bundle.of[1] = goHalf.file => goHalf.contract = bundle.specs

\* of a session, the go half is of the last read that could be generated
SessionsCatchUp ==
    dev /\ "api" \notin sides /\ ~unasked /\ Generates(TRUE) => goHalf = GoEnvSource(Loaded(Contents))

EnvInv == ReadsAreOfTheirSources /\ BuildsAreOfOneRead /\ SessionsCatchUp

LEMMA LoadedIsOfItsSources ==
    /\ Loaded(Contents) = AppOf(Sources) /\ Loaded(Contents).of = Sources
    /\ Sources[1] = envFile
  <1>1. Sources[1] = envFile /\ Sources[2] = rules /\ Sources[3] = machine
    BY DEF Sources
  <1>2. ContentsOf(Sources) = Contents
    BY <1>1 DEF ContentsOf, Contents
  <1>. QED BY <1>1, <1>2 DEF Loaded, AppOf

LEMMA AppOfIsOf == ASSUME NEW of PROVE AppOf(of).of = of
  BY DEF AppOf

\* What is answered is of env.ts as it is, by this read or by the last.
LEMMA MetasAreOfTheFile ==
    ASSUME ReadsAreOfTheirSources, NEW fresh
    PROVE  /\ AppEnvMetas(fresh) = AppOf(AppEnvMetas(fresh).of)
           /\ AppEnvMetas(fresh).of[1] = envFile
  <1>1. CASE Remembered(fresh)
    BY <1>1 DEF Remembered, AppEnvMetas, ReadsAreOfTheirSources
  <1>2. CASE ~Remembered(fresh)
    BY <1>2, LoadedIsOfItsSources DEF AppEnvMetas
  <1>. QED BY <1>1, <1>2

\* What is memoised, bundled or booted of a read is of its sources.
LEMMA WhatIsKept ==
    ASSUME NEW app, app = AppOf(app.of)
    PROVE  /\ Bundled(app).of = app.of /\ Bundled(app) = Bundled(AppOf(Bundled(app).of))
           /\ Booted(app).of = app.of /\ Booted(app) = Booted(AppOf(Booted(app).of))
  <1>1. Bundled(app).of = app.of
    BY DEF Bundled
  <1>2. Booted(app).of = app.of
    BY DEF Booted
  <1>. QED BY <1>1, <1>2

\* The go file of a read, when there is one to write.
LEMMA GoFileOf ==
    ASSUME NEW app, GoEnvSource(app) # None
    PROVE  GoEnvSource(app).contract = Contract(app) /\ GoEnvSource(app).file = app.of[1]
  BY DEF GoEnvSource, Contract

LEMMA NoGoFile ==
    ASSUME NoneIsNoRecord, NEW app, GoEnvSource(app) = None
    PROVE  Contract(app) = <<>>
  <1>1. DOMAIN Contract(app) = {}
    BY DEF GoEnvSource, Contract, NoneIsNoRecord
  <1>2. PICK T, e : Contract(app) = e /\ e \in [{} -> T]
    <2>1. Contract(app) \in [DOMAIN Contract(app) -> {Contract(app)[n] : n \in DOMAIN Contract(app)}]
      BY DEF Contract, Joined
    <2>. QED BY <1>1, <2>1
  <1>3. 1 .. 0 = {}
    OBVIOUS
  <1>4. Contract(app) \in [1 .. 0 -> T]
    BY <1>2, <1>3
  <1>5. Contract(app) \in Seq(T)
    BY <1>4, 0 \in Nat, SeqDef
  <1>6. Len(Contract(app)) = 0
    BY <1>1, <1>3, <1>5
  <1>. QED BY <1>5, <1>6, EmptySeq

\* Neither side of the app learns of a save.
LEMMA NothingIsRead ==
    ASSUME EnvInv, UNCHANGED <<dev, memo, building, goSide, bundle>>,
           UNCHANGED service \/ (service' # None => service' = Booted(AppOf(service'.of))),
           ~dev => sides' = {}, SessionsCatchUp'
    PROVE  EnvInv'
  <1>1. ReadsAreOfTheirSources'
    <2>1. UNCHANGED <<memo, bundle>> /\ ReadsAreOfTheirSources
      BY DEF EnvInv
    <2>. QED BY <2>1 DEF ReadsAreOfTheirSources
  <1>2. BuildsAreOfOneRead'
    BY DEF EnvInv, BuildsAreOfOneRead, goSide
  <1>. QED BY <1>1, <1>2 DEF EnvInv

\* what a session generates is of the disk as it is
Fresh(of, dir) ==
    /\ Loads(ContentsOf(of)) /\ ~GoRefuses(AppOf(of))
    /\ GoEnvSource(AppOf(of)) # None => dir \notin {"file", "package"}

LEMMA SessionsReadAfresh ==
    /\ Generates(TRUE) <=> Fresh(Sources, goDir)
    /\ Generates(TRUE)' <=> Fresh(Sources', goDir')
    /\ Loaded(Contents)' = AppOf(Sources')
  <1>1. ~Remembered(TRUE) /\ ~Remembered(TRUE)'
    BY DEF Remembered
  <1>2. /\ Loaded(Contents) = AppOf(Sources) /\ Contents = ContentsOf(Sources)
        /\ Loaded(Contents)' = AppOf(Sources') /\ Contents' = ContentsOf(Sources')
    BY DEF Loaded, AppOf, Contents, ContentsOf, Sources
  <1>3. Generates(TRUE) <=> Fresh(Sources, goDir)
    BY <1>1, <1>2 DEF Generates, MayRead, AppEnvMetas, Fresh
  <1>4. Generates(TRUE)' <=> Fresh(Sources', goDir')
    BY <1>1, <1>2 DEF Generates, MayRead, AppEnvMetas, Fresh
  <1>. QED BY <1>2, <1>3, <1>4

LEMMA SavesKeep ==
    ASSUME EnvInv, SaveEnv \/ SaveRules \/ SaveGo PROVE EnvInv'
  <1>1. /\ UNCHANGED <<dev, memo, building, goSide, bundle>> /\ UNCHANGED service
        /\ sides' = sides \/ dev
        /\ dev => "api" \in sides' \/ unasked'
    BY DEF SaveEnv, SaveRules, SaveGo, Saves
  <1>2. ~dev => sides' = {}
    BY <1>1 DEF EnvInv, BuildsAreOfOneRead
  <1>3. SessionsCatchUp'
    BY <1>1 DEF SessionsCatchUp
  <1>. QED BY <1>1, <1>2, <1>3, NothingIsRead

LEMMA BootsKeep ==
    ASSUME EnvInv, Boot \/ EnvMoves PROVE EnvInv'
  <1>1. /\ ~dev /\ UNCHANGED <<dev, sides, memo, building, goSide, bundle>>
        /\ UNCHANGED service \/ service' = Booted(Loaded(Contents)) \/ service' = None
    BY DEF Boot, EnvMoves, onDisk
  <1>2. service' = Booted(Loaded(Contents)) => service' = Booted(AppOf(service'.of))
    BY LoadedIsOfItsSources, WhatIsKept
  <1>3. SessionsCatchUp' /\ sides' = {}
    BY <1>1 DEF SessionsCatchUp, EnvInv, BuildsAreOfOneRead
  <1>. QED BY <1>1, <1>2, <1>3, NothingIsRead

LEMMA BuildsKeep ==
    ASSUME NoneIsNoRecord, EnvInv, Borgogen \/ BuildAssets PROVE EnvInv'
  <1> DEFINE app == AppEnvMetas(FALSE)
  <1>1. app = AppOf(app.of) /\ app.of[1] = envFile
    BY MetasAreOfTheFile DEF EnvInv
  <1>2. ReadsAreOfTheirSources /\ BuildsAreOfOneRead /\ SessionsCatchUp
    BY DEF EnvInv
  <1> HIDE DEF app
  <1>3. ~dev /\ dev' = dev /\ sides' = sides /\ service' = service
    BY <1>2 DEF Borgogen, BuildAssets, onDisk, BuildsAreOfOneRead
  <1>4. SessionsCatchUp'
    BY <1>3 DEF SessionsCatchUp
  <1>5. CASE Borgogen
    <2>1. /\ memo' = [file |-> envFile, app |-> app] /\ goFile' = GoEnvSource(app)
          /\ UNCHANGED <<goHalf, bundle>>
      BY <1>5 DEF Borgogen, Memoised, WriteGoEnv, app
    <2>2. memo' = [file |-> memo'.app.of[1], app |-> AppOf(memo'.app.of)] /\ memo'.app = app /\ memo' # None
      BY <1>1, <2>1 DEF NoneIsNoRecord
    <2>3. ReadsAreOfTheirSources'
      BY <1>2, <1>3, <2>1, <2>2 DEF ReadsAreOfTheirSources
    <2>4. BuildsAreOfOneRead'
      BY <1>2, <1>3, <2>1, <2>2 DEF BuildsAreOfOneRead
    <2>. QED BY <1>4, <2>3, <2>4 DEF EnvInv
  <1>6. CASE BuildAssets
    <2>1. /\ building /\ ~building' /\ memo' = None /\ goFile' = goFile
          /\ \/ UNCHANGED <<bundle, goHalf>>
             \/ bundle' = Bundled(app) /\ goHalf' = goFile
      BY <1>6 DEF BuildAssets, app
    <2>2. CASE UNCHANGED <<bundle, goHalf>>
      BY <1>2, <1>3, <1>4, <2>1, <2>2 DEF EnvInv, ReadsAreOfTheirSources, BuildsAreOfOneRead
    <2>3. CASE bundle' = Bundled(app) /\ goHalf' = goFile
      <3>1. bundle' = Bundled(AppOf(bundle'.of)) /\ bundle'.of = app.of
        BY <1>1, <2>3, WhatIsKept
      <3>2. ReadsAreOfTheirSources'
        BY <1>2, <1>3, <2>1, <3>1 DEF ReadsAreOfTheirSources
      <3>3. memo # None /\ memo.file = memo.app.of[1] /\ goFile = GoEnvSource(memo.app)
        BY <1>2, <2>1 DEF BuildsAreOfOneRead, ReadsAreOfTheirSources
      <3>4. ASSUME goHalf' # None, bundle'.of[1] = goHalf'.file PROVE goHalf'.contract = bundle'.specs
        <4>1. goHalf'.contract = Contract(memo.app) /\ goHalf'.file = memo.app.of[1]
          BY <2>3, <3>3, <3>4, GoFileOf
        <4>2. memo.file = envFile
          BY <1>1, <3>1, <3>3, <3>4, <4>1
        <4>3. app = memo.app
          BY <3>3, <4>2 DEF app, AppEnvMetas, Remembered
        <4>4. bundle'.specs = Contract(app)
          BY <2>3 DEF Bundled, Contract
        <4>. QED BY <4>1, <4>3, <4>4
      <3>5. BuildsAreOfOneRead'
        BY <1>2, <1>3, <2>1, <3>4 DEF BuildsAreOfOneRead
      <3>. QED BY <1>4, <3>2, <3>5 DEF EnvInv
    <2>. QED BY <2>1, <2>2, <2>3
  <1>. QED BY <1>5, <1>6

LEMMA RebuildsKeep ==
    ASSUME EnvInv, NoneIsNoRecord, RebuildApi \/ RebuildApp PROVE EnvInv'
  <1>1. ReadsAreOfTheirSources /\ BuildsAreOfOneRead /\ SessionsCatchUp
    BY DEF EnvInv
  <1>2. dev /\ dev' /\ ~building /\ building' = building /\ UNCHANGED Sources
    BY <1>1 DEF RebuildApi, RebuildApp, BuildsAreOfOneRead, onDisk, Sources
  <1>3. BuildsAreOfOneRead'
    BY <1>2 DEF BuildsAreOfOneRead
  <1>4. CASE RebuildApi
    <2> DEFINE app == AppEnvMetas(TRUE)
    <2>1. app = AppOf(app.of) /\ app.of[1] = envFile /\ app = Loaded(Contents)
      BY <1>1, MetasAreOfTheFile DEF AppEnvMetas, Remembered
    <2> HIDE DEF app
    <2>2. /\ UNCHANGED <<bundle, service>> /\ goHalf' = goFile'
          /\ \/ ~Generates(TRUE) /\ UNCHANGED <<goDir, memo>>
             \/ memo' = [file |-> envFile, app |-> app] /\ goFile' = GoEnvSource(app)
      BY <1>4 DEF RebuildApi, DevFresh, Memoised, WriteGoEnv, app
    <2>3. memo' = memo \/ memo' = [file |-> memo'.app.of[1], app |-> AppOf(memo'.app.of)]
      <3>1. ASSUME memo' = [file |-> envFile, app |-> app] PROVE memo'.app = app
        BY <3>1
      <3>2. ASSUME memo' = [file |-> envFile, app |-> app]
            PROVE  memo' = [file |-> memo'.app.of[1], app |-> AppOf(memo'.app.of)]
        BY <2>1, <3>1, <3>2
      <3>. QED BY <2>2, <3>2
    <2>4. ReadsAreOfTheirSources'
      BY <1>1, <2>2, <2>3 DEF ReadsAreOfTheirSources
    <2>5. CASE ~Generates(TRUE) /\ UNCHANGED <<goDir, memo>>
      <3>1. ~Generates(TRUE)'
        BY <1>2, <2>5, SessionsReadAfresh
      <3>. QED BY <1>3, <2>4, <3>1 DEF EnvInv, SessionsCatchUp
    <2>6. CASE goFile' = GoEnvSource(app)
      <3>1. Loaded(Contents)' = app
        BY <1>2, <2>1, LoadedIsOfItsSources, SessionsReadAfresh
      <3>2. SessionsCatchUp'
        BY <2>2, <2>6, <3>1 DEF SessionsCatchUp
      <3>. QED BY <1>3, <2>4, <3>2 DEF EnvInv
    <2>. QED BY <2>2, <2>5, <2>6
  <1>5. CASE RebuildApp
    <2> DEFINE app == Loaded(Contents)
    <2>1. app = AppOf(app.of)
      BY LoadedIsOfItsSources
    <2> HIDE DEF app
    <2>2. /\ UNCHANGED <<memo, goDir, goHalf, unasked>> /\ sides' = sides \ {"app"}
          /\ bundle' = bundle \/ bundle' = Bundled(app)
          /\ service' = None \/ service' = Booted(app)
      BY <1>5 DEF RebuildApp, goSide, app
    <2>3. /\ bundle' = bundle \/ bundle' = Bundled(AppOf(bundle'.of))
          /\ service' = None \/ service' = Booted(AppOf(service'.of))
      BY <2>1, <2>2, WhatIsKept
    <2>4. ReadsAreOfTheirSources'
      BY <1>1, <2>2, <2>3 DEF ReadsAreOfTheirSources
    <2>5. (Generates(TRUE)' <=> Generates(TRUE)) /\ Loaded(Contents)' = Loaded(Contents)
      BY <1>2, <2>2, LoadedIsOfItsSources, SessionsReadAfresh
    <2>6. SessionsCatchUp'
      BY <1>1, <1>2, <2>2, <2>5 DEF SessionsCatchUp
    <2>. QED BY <1>3, <2>4, <2>6 DEF EnvInv
  <1>. QED BY <1>4, <1>5

LEMMA EnvStep ==
    ASSUME NoneIsNoRecord, EnvInv, [EnvNext]_envVars PROVE EnvInv'
  <1>1. CASE UNCHANGED envVars
    <2>1. /\ UNCHANGED <<dev, sides, memo, building, goSide, bundle, service, unasked>> /\ UNCHANGED Sources
      BY <1>1 DEF envVars, onDisk, Sources
    <2>2. ~dev => sides' = {}
      BY <2>1 DEF EnvInv, BuildsAreOfOneRead
    <2>3. (Generates(TRUE)' <=> Generates(TRUE)) /\ Loaded(Contents)' = Loaded(Contents)
      BY <2>1, LoadedIsOfItsSources, SessionsReadAfresh DEF goSide
    <2>4. SessionsCatchUp'
      BY <2>1, <2>3 DEF EnvInv, SessionsCatchUp, goSide
    <2>. QED BY <2>1, <2>2, <2>4, NothingIsRead
  <1>2. CASE EnvNext
    BY <1>2, SavesKeep, BootsKeep, BuildsKeep, RebuildsKeep DEF EnvNext
  <1>. QED BY <1>1, <1>2

\* Where the service and the bundle are of the same sources, the map holds what
\* the service reads.
LEMMA SidesOfOneRead == ASSUME EnvInv PROVE SidesAgree
  <1> SUFFICES ASSUME service # None, bundle # None, service.of = bundle.of,
                      NEW n \in DOMAIN service.client, service.client[n] # Undefined
               PROVE  BrowserReads(n) = service.client[n]
    BY DEF SidesAgree
  <1>1. bundle = Bundled(AppOf(bundle.of)) /\ service = Booted(AppOf(bundle.of))
    BY DEF EnvInv, ReadsAreOfTheirSources
  <1>2. service.client = ClientMap(AppOf(bundle.of)) /\ bundle.map = ClientEnvDefine(AppOf(bundle.of))
    BY <1>1 DEF Bundled, Booted, ClientMap
  <1>. QED BY <1>2, TheMapIsTheValues DEF BrowserReads

LEMMA HalvesOfOneRead == ASSUME NoneIsNoRecord, EnvInv PROVE HalvesAgree
  <1>1. ASSUME dev, AtRest, ~unasked PROVE GoContract = Contract(Loaded(Contents))
    <2>1. goHalf = GoEnvSource(Loaded(Contents))
      BY <1>1 DEF AtRest, EnvInv, SessionsCatchUp
    <2>2. CASE goHalf = None
      BY <2>1, <2>2, NoGoFile DEF GoContract
    <2>3. CASE goHalf # None
      BY <2>1, <2>3, GoFileOf DEF GoContract
    <2>. QED BY <2>2, <2>3
  <1>2. ~dev /\ goHalf # None /\ bundle.of[1] = goHalf.file => goHalf.contract = bundle.specs
    BY DEF EnvInv, BuildsAreOfOneRead
  <1>. QED BY <1>1, <1>2 DEF HalvesAgree, Contract

\* A variable of env.ts reads as one value in the browser, in the render service
\* and in go, whatever the files declare, and however builds, boots, rebuilds and
\* saves alternate (env.ts 304).
THEOREM OneValueEverywhere == ASSUME NoneIsNoRecord PROVE EnvSpec => []EnvMeansOneThing
  <1>1. EnvInit => EnvInv
    BY DEF EnvInit, EnvInv, ReadsAreOfTheirSources, BuildsAreOfOneRead, SessionsCatchUp
  <1>2. EnvInv => EnvMeansOneThing
    BY SidesOfOneRead, HalvesOfOneRead DEF EnvMeansOneThing
  <1>3. EnvInv /\ [EnvNext]_envVars => EnvInv'
    BY EnvStep
  <1>. QED BY <1>1, <1>2, <1>3, PTL DEF EnvSpec

-----------------------------------------------------------------------------
(* Dev sessions of one directory.  A session that answers has its name in  *)
(* the lock, and the one that starts has found there nobody that lives.    *)

\* a session that ended by itself or was killed is not anywhere any more
PlacesAreOfTheLiving ==
  /\ lock \in [Directories -> Sessions \cup {NoFile, Torn}]
  /\ lockAt \in [Sessions -> Places]
  /\ alive \in [Sessions -> {"alive", "gone", "reused"}]
  /\ \A s \in Sessions : lockAt[s] # "ended" => alive[s] = "alive"

HoldersAreInTheLock ==
  /\ \A s \in Sessions : lockAt[s] \in {"asking", "building", "running", "dropping"} => Mine(s)
  /\ \A s \in answering : s \in Sessions /\ lockAt[s] \in {"running", "leaving", "dropping"} /\ Mine(s)

\* nobody that lives holds the lock that is being taken, and nobody else takes it
TakenFromNobody ==
  \A s \in Sessions :
    /\ lockAt[s] = "taking" => \A t \in Sessions \ {s} : lock[Dir[s]] = t => alive[t] # "alive"
    /\ lockAt[s] = "writing" => lock[Dir[s]] = Torn
    /\ lockAt[s] \in {"taking", "writing"} => ~Taken(s)

\* the ports of a session that builds are nobody else's
ClaimsAreFree ==
  \A s, t \in Sessions :
    lockAt[s] = "building" /\ s # t /\ (lockAt[t] = "building" \/ t \in answering) =>
      PortsOf(s) \cap PortsOf(t) = {}

Separate == HoldersAreInTheLock /\ TakenFromNobody /\ ClaimsAreFree /\ KeptApart

DevLockInv == PlacesAreOfTheLiving /\ met \in BOOLEAN /\ (met \/ Separate)

LEMMA DevLockInvInit == DevLockInit => DevLockInv
BY DevLockAssumption DEF DevLockInit, DevLockInv, PlacesAreOfTheLiving, Separate, ClaimsAreFree,
   HoldersAreInTheLock, TakenFromNobody, KeptApart, Places

\* a place moves, and nothing else of the session
LEMMA LockMovesTo ==
  ASSUME PlacesAreOfTheLiving, NEW s \in Sessions, NEW from, NEW to \in Places, LockMoves(s, from, to)
  PROVE  /\ lockAt' \in [Sessions -> Places] /\ lockAt[s] = from /\ lockAt'[s] = to
         /\ alive[s] = "alive"
         /\ \A t \in Sessions \ {s} : lockAt'[t] = lockAt[t]
BY DEF LockMoves, PlacesAreOfTheLiving

\* Unless two sessions meet, a step of one leaves them separate.
LEMMA SessionsStaySeparate ==
  ASSUME PlacesAreOfTheLiving, Separate, ~met', [DevLockNext]_lockfileVars
  PROVE  PlacesAreOfTheLiving' /\ Separate'
<1> USE DevLockAssumption DEF Separate
<1>0. Dir \in [Sessions -> Directories] /\ NoFile \notin Sessions /\ Torn \notin Sessions
  OBVIOUS
<1>1. ASSUME NEW s \in Sessions, PickRenderPort(s) PROVE PlacesAreOfTheLiving' /\ Separate'
  <2>1. "picked" \in Places
    BY DEF Places
  <2>2. /\ lockAt' \in [Sessions -> Places] /\ lockAt[s] = "ready" /\ lockAt'[s] = "picked"
        /\ alive[s] = "alive" /\ \A t \in Sessions \ {s} : lockAt'[t] = lockAt[t]
    BY <1>1, <2>1, LockMovesTo DEF PickRenderPort
  <2>3. UNCHANGED <<lock, alive, answering>>
    BY <1>1 DEF PickRenderPort
  <2>4. s \notin answering /\ \A t \in Sessions \ {s} : port'[t] = port[t]
    <3>1. s \notin answering
      BY <2>2 DEF HoldersAreInTheLock
    <3>. QED BY <1>1, <3>1 DEF PickRenderPort
  <2>5. PlacesAreOfTheLiving'
    BY <2>2, <2>3 DEF PlacesAreOfTheLiving
  <2>6. HoldersAreInTheLock' /\ TakenFromNobody'
    BY <2>2, <2>3, <2>4 DEF HoldersAreInTheLock, TakenFromNobody, Taken, Mine
  <2>7. ClaimsAreFree'
    BY <2>2, <2>3, <2>4 DEF ClaimsAreFree, PortsOf
  <2>8. KeptApart'
    BY <2>3, <2>4 DEF KeptApart, PortsOf, HoldersAreInTheLock
  <2>. QED BY <2>5, <2>6, <2>7, <2>8
<1>2. ASSUME NEW s \in Sessions, ReadsLock(s) PROVE PlacesAreOfTheLiving' /\ Separate'
  <2>1. PICK j \in Judgements(s) :
            /\ LockMoves(s, "picked", IF j = "held" THEN "ended" ELSE "taking")
            /\ met' = (met \/ (j = "free" /\ Taken(s)))
    BY <1>2 DEF ReadsLock
  <2> DEFINE to == IF j = "held" THEN "ended" ELSE "taking"
  <2>2. to \in Places /\ to \in {"ended", "taking"} /\ (to = "taking" => j = "free")
    BY DEF Places, Judgements
  <2> HIDE DEF to
  <2>3. /\ lockAt' \in [Sessions -> Places] /\ lockAt[s] = "picked" /\ lockAt'[s] = to
        /\ alive[s] = "alive" /\ \A t \in Sessions \ {s} : lockAt'[t] = lockAt[t]
    BY <2>1, <2>2, LockMovesTo DEF to
  <2>4. UNCHANGED <<lock, port, alive, answering>>
    BY <1>2 DEF ReadsLock
  <2>5. to = "taking" => \A t \in Sessions \ {s} : lock[Dir[s]] = t => alive[t] # "alive"
    <3> SUFFICES ASSUME to = "taking", NEW t \in Sessions \ {s}, lock[Dir[s]] = t, alive[t] = "alive"
                 PROVE  FALSE
      OBVIOUS
    <3>1. Judgements(s) = {"held"}
      BY DEF Judgements, IsReused
    <3>. QED BY <2>1, <3>1 DEF to
  <2>6. to = "taking" => ~Taken(s)
    BY <2>1, <2>2
  <2>7. PlacesAreOfTheLiving'
    BY <2>2, <2>3, <2>4 DEF PlacesAreOfTheLiving
  <2>8. HoldersAreInTheLock' /\ ClaimsAreFree' /\ KeptApart'
    BY <2>2, <2>3, <2>4 DEF HoldersAreInTheLock, Mine, ClaimsAreFree, KeptApart, PortsOf
  <2>9. TakenFromNobody'
    BY <2>2, <2>3, <2>4, <2>5, <2>6 DEF TakenFromNobody, Taken
  <2>. QED BY <2>7, <2>8, <2>9
<1>3. ASSUME NEW s \in Sessions, OpensLock(s) PROVE PlacesAreOfTheLiving' /\ Separate'
  <2>1. "writing" \in Places
    BY DEF Places
  <2>2. /\ lockAt' \in [Sessions -> Places] /\ lockAt[s] = "taking" /\ lockAt'[s] = "writing"
        /\ alive[s] = "alive" /\ \A t \in Sessions \ {s} : lockAt'[t] = lockAt[t]
    BY <1>3, <2>1, LockMovesTo DEF OpensLock
  <2>3. UNCHANGED <<port, alive, answering>> /\ lock' = [lock EXCEPT ![Dir[s]] = Torn]
    BY <1>3 DEF OpensLock
  <2>4. /\ lock' \in [Directories -> Sessions \cup {NoFile, Torn}] /\ lock'[Dir[s]] = Torn
        /\ \A d \in Directories : d # Dir[s] => lock'[d] = lock[d]
    BY <2>3 DEF PlacesAreOfTheLiving
  <2>5. \A t \in Sessions \ {s} : lockAt[t] \in {"taking", "writing"} => Dir[t] # Dir[s]
    BY <2>2 DEF TakenFromNobody, Taken
  <2>6. \A t \in Sessions \ {s} : lockAt[t] # "ended" => ~Mine(t) \/ Dir[t] # Dir[s]
    BY <2>2 DEF TakenFromNobody, PlacesAreOfTheLiving, Mine
  <2>7. PlacesAreOfTheLiving'
    BY <2>2, <2>3, <2>4 DEF PlacesAreOfTheLiving
  <2>8. HoldersAreInTheLock'
    BY <2>2, <2>3, <2>4, <2>6 DEF HoldersAreInTheLock, Mine
  <2>9. TakenFromNobody'
    BY <2>2, <2>3, <2>4, <2>5 DEF TakenFromNobody, Taken
  <2>10. ClaimsAreFree' /\ KeptApart'
    BY <2>2, <2>3 DEF ClaimsAreFree, KeptApart, PortsOf
  <2>. QED BY <2>7, <2>8, <2>9, <2>10
<1>4. ASSUME NEW s \in Sessions, WritesLock(s) PROVE PlacesAreOfTheLiving' /\ Separate'
  <2>1. "asking" \in Places
    BY DEF Places
  <2>2. /\ lockAt' \in [Sessions -> Places] /\ lockAt[s] = "writing" /\ lockAt'[s] = "asking"
        /\ alive[s] = "alive" /\ \A t \in Sessions \ {s} : lockAt'[t] = lockAt[t]
    BY <1>4, <2>1, LockMovesTo DEF WritesLock
  <2>3. UNCHANGED <<port, alive, answering>> /\ lock' = [lock EXCEPT ![Dir[s]] = s]
    BY <1>4 DEF WritesLock
  <2>4. /\ lock' \in [Directories -> Sessions \cup {NoFile, Torn}] /\ lock'[Dir[s]] = s
        /\ \A d \in Directories : d # Dir[s] => lock'[d] = lock[d]
    BY <2>3 DEF PlacesAreOfTheLiving
  <2>5. \A t \in Sessions \ {s} : lockAt[t] \in {"taking", "writing"} => Dir[t] # Dir[s]
    BY <2>2 DEF TakenFromNobody, Taken
  <2>6. \A t \in Sessions : Mine(t) => Dir[t] # Dir[s]
    BY <2>2 DEF TakenFromNobody, Mine
  <2>7. PlacesAreOfTheLiving'
    BY <2>2, <2>3, <2>4 DEF PlacesAreOfTheLiving
  <2>8. HoldersAreInTheLock'
    BY <2>2, <2>3, <2>4, <2>6 DEF HoldersAreInTheLock, Mine
  <2>9. TakenFromNobody'
    BY <2>2, <2>3, <2>4, <2>5 DEF TakenFromNobody, Taken
  <2>10. ClaimsAreFree' /\ KeptApart'
    BY <2>2, <2>3 DEF ClaimsAreFree, KeptApart, PortsOf
  <2>. QED BY <2>7, <2>8, <2>9, <2>10
<1>5. ASSUME NEW s \in Sessions, AsksPorts(s) PROVE PlacesAreOfTheLiving' /\ Separate'
  <2> DEFINE free == PortsOf(s) \cap InUse = {}
             to == IF free THEN "building" ELSE "leaving"
  <2>1. to \in Places /\ to \in {"building", "leaving"} /\ (to = "building" => free)
    BY DEF Places
  <2>2. /\ lockAt' \in [Sessions -> Places] /\ lockAt[s] = "asking" /\ lockAt'[s] = to
        /\ alive[s] = "alive" /\ \A t \in Sessions \ {s} : lockAt'[t] = lockAt[t]
    BY <1>5, <2>1, LockMovesTo DEF AsksPorts
  <2>3. UNCHANGED <<lock, port, alive, answering>> /\ (free => ~Claimed(s))
    BY <1>5 DEF AsksPorts
  <2>4. free => \A t \in answering : PortsOf(s) \cap PortsOf(t) = {}
    BY DEF InUse
  <2>5. free => \A t \in Sessions \ {s} : lockAt[t] = "building" => PortsOf(t) \cap PortsOf(s) = {}
    BY <2>3 DEF Claimed
  <2> HIDE DEF free, to
  <2>6. PlacesAreOfTheLiving'
    BY <2>1, <2>2, <2>3 DEF PlacesAreOfTheLiving
  <2>7. HoldersAreInTheLock' /\ TakenFromNobody'
    BY <2>1, <2>2, <2>3 DEF HoldersAreInTheLock, TakenFromNobody, Taken, Mine
  <2>8. KeptApart'
    BY <2>3 DEF KeptApart, PortsOf
  <2>9. ClaimsAreFree'
    <3>1. \A t \in Sessions : PortsOf(t)' = PortsOf(t)
      BY <2>3 DEF PortsOf
    <3> SUFFICES ASSUME NEW u \in Sessions, NEW t \in Sessions, lockAt'[u] = "building", u # t,
                        lockAt'[t] = "building" \/ t \in answering
                 PROVE  PortsOf(u) \cap PortsOf(t) = {}
      BY <2>3, <3>1 DEF ClaimsAreFree
    <3>2. CASE u = s
      BY <2>1, <2>2, <2>4, <2>5, <3>2
    <3>3. CASE t = s
      <4>1. s \notin answering
        BY <2>2 DEF HoldersAreInTheLock
      <4>. QED BY <2>1, <2>2, <2>5, <3>3, <4>1
    <3>4. CASE u # s /\ t # s
      BY <2>2, <3>4 DEF ClaimsAreFree
    <3>. QED BY <3>2, <3>3, <3>4
  <2>. QED BY <2>6, <2>7, <2>8, <2>9
<1>6. ASSUME NEW s \in Sessions, ServesNow(s) PROVE PlacesAreOfTheLiving' /\ Separate'
  <2>1. "running" \in Places
    BY DEF Places
  <2>2. /\ lockAt' \in [Sessions -> Places] /\ lockAt[s] = "building" /\ lockAt'[s] = "running"
        /\ alive[s] = "alive" /\ \A t \in Sessions \ {s} : lockAt'[t] = lockAt[t]
    BY <1>6, <2>1, LockMovesTo DEF ServesNow
  <2>3. UNCHANGED <<lock, port, alive>> /\ answering' = answering \cup {s}
    BY <1>6 DEF ServesNow
  <2>4. PlacesAreOfTheLiving'
    BY <2>2, <2>3 DEF PlacesAreOfTheLiving
  <2>5. HoldersAreInTheLock' /\ TakenFromNobody'
    BY <2>2, <2>3 DEF HoldersAreInTheLock, TakenFromNobody, Taken, Mine
  <2>6. \A t \in Sessions : PortsOf(t)' = PortsOf(t)
    BY <2>3 DEF PortsOf
  <2>7. ClaimsAreFree'
    BY <2>2, <2>3, <2>6 DEF ClaimsAreFree
  <2>8. KeptApart'
    <3>1. Mine(s) /\ \A t \in answering : t \in Sessions /\ Mine(t)
      BY <2>2 DEF HoldersAreInTheLock
    <3>2. \A t \in answering : t # s => Dir[t] # Dir[s]
      BY <3>1 DEF Mine
    <3>3. \A t \in answering : t # s => PortsOf(s) \cap PortsOf(t) = {}
      BY <2>2, <3>1 DEF ClaimsAreFree
    <3> SUFFICES ASSUME NEW t \in answering \cup {s}, NEW u \in answering \cup {s}, t # u
                 PROVE  Dir[t] # Dir[u] /\ PortsOf(t) \cap PortsOf(u) = {}
      BY <2>3, <2>6, <3>1 DEF KeptApart
    <3>4. CASE t \in answering /\ u \in answering
      BY <3>4 DEF KeptApart
    <3>5. CASE ~(t \in answering /\ u \in answering)
      BY <3>2, <3>3, <3>5
    <3>. QED BY <3>4, <3>5
  <2>. QED BY <2>4, <2>5, <2>7, <2>8
<1>7. ASSUME NEW s \in Sessions, Stops(s) PROVE PlacesAreOfTheLiving' /\ Separate'
  <2>1. PICK from \in {"writing", "asking", "building", "running"} : LockMoves(s, from, "leaving")
    BY <1>7 DEF Stops
  <2>2. "leaving" \in Places
    BY DEF Places
  <2>3. /\ lockAt' \in [Sessions -> Places] /\ lockAt[s] = from /\ lockAt'[s] = "leaving"
        /\ alive[s] = "alive" /\ \A t \in Sessions \ {s} : lockAt'[t] = lockAt[t]
    BY <2>1, <2>2, LockMovesTo
  <2>4. UNCHANGED <<lock, port, alive, answering>>
    BY <1>7 DEF Stops
  <2>5. PlacesAreOfTheLiving'
    BY <2>3, <2>4 DEF PlacesAreOfTheLiving
  <2>6. HoldersAreInTheLock' /\ TakenFromNobody'
    BY <2>3, <2>4 DEF HoldersAreInTheLock, TakenFromNobody, Taken, Mine
  <2>7. ClaimsAreFree' /\ KeptApart'
    BY <2>3, <2>4 DEF ClaimsAreFree, KeptApart, PortsOf
  <2>. QED BY <2>5, <2>6, <2>7
<1>8. ASSUME NEW s \in Sessions, ReadsItsLock(s) PROVE PlacesAreOfTheLiving' /\ Separate'
  <2> DEFINE to == IF Mine(s) THEN "dropping" ELSE "ended"
  <2>1. to \in Places /\ to \in {"dropping", "ended"} /\ (to = "dropping" <=> Mine(s))
    BY DEF Places
  <2>2. /\ lockAt' \in [Sessions -> Places] /\ lockAt[s] = "leaving" /\ lockAt'[s] = to
        /\ alive[s] = "alive" /\ \A t \in Sessions \ {s} : lockAt'[t] = lockAt[t]
    BY <1>8, <2>1, LockMovesTo DEF ReadsItsLock
  <2>3. UNCHANGED <<lock, port, alive>> /\ answering' = IF Mine(s) THEN answering ELSE answering \ {s}
    BY <1>8 DEF ReadsItsLock
  <2> HIDE DEF to
  <2>4. PlacesAreOfTheLiving'
    BY <2>1, <2>2, <2>3 DEF PlacesAreOfTheLiving
  <2>5. HoldersAreInTheLock' /\ TakenFromNobody'
    BY <2>1, <2>2, <2>3 DEF HoldersAreInTheLock, TakenFromNobody, Taken, Mine
  <2>6. ClaimsAreFree' /\ KeptApart'
    BY <2>1, <2>2, <2>3 DEF ClaimsAreFree, KeptApart, PortsOf
  <2>. QED BY <2>4, <2>5, <2>6
<1>9. ASSUME NEW s \in Sessions, DropsLock(s) PROVE PlacesAreOfTheLiving' /\ Separate'
  <2>1. "ended" \in Places
    BY DEF Places
  <2>2. /\ lockAt' \in [Sessions -> Places] /\ lockAt[s] = "dropping" /\ lockAt'[s] = "ended"
        /\ alive[s] = "alive" /\ \A t \in Sessions \ {s} : lockAt'[t] = lockAt[t]
    BY <1>9, <2>1, LockMovesTo DEF DropsLock
  <2>3. /\ UNCHANGED <<port, alive>> /\ lock' = [lock EXCEPT ![Dir[s]] = NoFile]
        /\ answering' = answering \ {s}
    BY <1>9 DEF DropsLock
  <2>4. /\ lock' \in [Directories -> Sessions \cup {NoFile, Torn}] /\ lock'[Dir[s]] = NoFile
        /\ \A d \in Directories : d # Dir[s] => lock'[d] = lock[d]
    BY <2>3 DEF PlacesAreOfTheLiving
  <2>5. lock[Dir[s]] = s /\ \A t \in Sessions \ {s} : Dir[t] = Dir[s] => lock[Dir[t]] # t /\ lock[Dir[t]] # Torn
    BY <2>2 DEF HoldersAreInTheLock, Mine
  <2>6. PlacesAreOfTheLiving'
    BY <2>2, <2>3, <2>4 DEF PlacesAreOfTheLiving
  <2>7. HoldersAreInTheLock'
    BY <2>2, <2>3, <2>4, <2>5 DEF HoldersAreInTheLock, Mine
  <2>8. TakenFromNobody'
    BY <2>2, <2>3, <2>4, <2>5 DEF TakenFromNobody, Taken
  <2>9. ClaimsAreFree' /\ KeptApart'
    BY <2>2, <2>3 DEF ClaimsAreFree, KeptApart, PortsOf
  <2>. QED BY <2>6, <2>7, <2>8, <2>9
<1>10. ASSUME NEW s \in Sessions, Dies(s) PROVE PlacesAreOfTheLiving' /\ Separate'
  <2>1. /\ alive' \in [Sessions -> {"alive", "gone", "reused"}] /\ alive'[s] = "gone"
        /\ \A t \in Sessions \ {s} : alive'[t] = alive[t]
        /\ lockAt' \in [Sessions -> Places] /\ lockAt'[s] = "ended"
        /\ \A t \in Sessions \ {s} : lockAt'[t] = lockAt[t]
    BY <1>10 DEF Dies, PlacesAreOfTheLiving, Places
  <2>2. UNCHANGED <<lock, port>> /\ answering' = answering \ {s}
    BY <1>10 DEF Dies
  <2>3. PlacesAreOfTheLiving'
    BY <2>1, <2>2 DEF PlacesAreOfTheLiving
  <2>4. HoldersAreInTheLock' /\ TakenFromNobody'
    BY <2>1, <2>2 DEF HoldersAreInTheLock, TakenFromNobody, Taken, Mine
  <2>5. ClaimsAreFree' /\ KeptApart'
    BY <2>1, <2>2 DEF ClaimsAreFree, KeptApart, PortsOf
  <2>. QED BY <2>3, <2>4, <2>5
<1>11. ASSUME NEW s \in Sessions, EndsCleanly(s) \/ PidIsReused(s) PROVE PlacesAreOfTheLiving' /\ Separate'
  <2>1. /\ alive' \in [Sessions -> {"alive", "gone", "reused"}] /\ alive'[s] # "alive" /\ lockAt[s] = "ended"
        /\ \A t \in Sessions \ {s} : alive'[t] = alive[t]
    BY <1>11 DEF EndsCleanly, PidIsReused, PlacesAreOfTheLiving
  <2>2. UNCHANGED <<lock, lockAt, port, answering>>
    BY <1>11 DEF EndsCleanly, PidIsReused
  <2>3. PlacesAreOfTheLiving'
    BY <2>1, <2>2 DEF PlacesAreOfTheLiving
  <2>4. HoldersAreInTheLock' /\ TakenFromNobody'
    BY <2>1, <2>2 DEF HoldersAreInTheLock, TakenFromNobody, Taken, Mine
  <2>5. ClaimsAreFree' /\ KeptApart'
    BY <2>2 DEF ClaimsAreFree, KeptApart, PortsOf
  <2>. QED BY <2>3, <2>4, <2>5
<1>12. CASE UNCHANGED lockfileVars
  BY <1>12 DEF lockfileVars, PlacesAreOfTheLiving, HoldersAreInTheLock, ClaimsAreFree,
     TakenFromNobody, Taken, Mine, KeptApart, PortsOf
<1>. QED BY <1>1, <1>2, <1>3, <1>4, <1>5, <1>6, <1>7, <1>8, <1>9, <1>10, <1>11, <1>12 DEF DevLockNext

\* Once two have met, only where each one is matters.
LEMMA PlacesStayTyped ==
  ASSUME PlacesAreOfTheLiving, met \in BOOLEAN, [DevLockNext]_lockfileVars
  PROVE  PlacesAreOfTheLiving' /\ met' \in BOOLEAN /\ (met => met')
<1> USE DevLockAssumption DEF PlacesAreOfTheLiving
<1>1. ASSUME NEW s \in Sessions, NEW from, NEW to \in Places, LockMoves(s, from, to), alive' = alive
      PROVE  /\ lockAt' \in [Sessions -> Places] /\ alive' \in [Sessions -> {"alive", "gone", "reused"}]
             /\ \A t \in Sessions : lockAt'[t] # "ended" => alive'[t] = "alive"
  BY <1>1 DEF LockMoves
<1>2. ASSUME NEW s \in Sessions, PickRenderPort(s) \/ WritesLock(s) \/ OpensLock(s) \/ ServesNow(s) \/ DropsLock(s)
      PROVE  PlacesAreOfTheLiving' /\ met' = met
  BY <1>1, <1>2 DEF Places, PickRenderPort, WritesLock, OpensLock, ServesNow, DropsLock
<1>3. ASSUME NEW s \in Sessions, Stops(s) \/ ReadsItsLock(s)
      PROVE  PlacesAreOfTheLiving' /\ met' = met
  <2>1. UNCHANGED <<lock, alive, met>> /\ \E from, to \in Places : LockMoves(s, from, to)
    BY <1>3 DEF Stops, ReadsItsLock, Places
  <2>. QED BY <1>1, <2>1
<1>4. ASSUME NEW s \in Sessions, ReadsLock(s) \/ AsksPorts(s)
      PROVE  PlacesAreOfTheLiving' /\ met' \in BOOLEAN /\ (met => met')
  <2>1. UNCHANGED <<lock, alive>> /\ \E from, to \in Places : LockMoves(s, from, to)
    BY <1>4 DEF ReadsLock, AsksPorts, Places
  <2>2. met' \in BOOLEAN /\ (met => met')
    BY <1>4 DEF ReadsLock, AsksPorts
  <2>. QED BY <1>1, <2>1, <2>2
<1>5. ASSUME NEW s \in Sessions, Dies(s) \/ EndsCleanly(s) \/ PidIsReused(s)
      PROVE  PlacesAreOfTheLiving' /\ met' = met
  BY <1>5 DEF Dies, EndsCleanly, PidIsReused, Places
<1>6. CASE UNCHANGED lockfileVars
  BY <1>6 DEF lockfileVars
<1>. QED BY <1>2, <1>3, <1>4, <1>5, <1>6 DEF DevLockNext

\* Whatever dies and whoever gets its pid, sessions keep to one a directory and
\* one a port, but for two that look at one lock or one port in the same moment
\* (dev.ts 147, 218-232, 262-288).
THEOREM SessionsAreApart == DevLockSpec => []SessionsKeepApart
<1>1. DevLockInv => SessionsKeepApart
  BY DEF DevLockInv, Separate, SessionsKeepApart
<1>2. DevLockInv /\ [DevLockNext]_lockfileVars => DevLockInv'
  <2> SUFFICES ASSUME DevLockInv, [DevLockNext]_lockfileVars PROVE DevLockInv'
    OBVIOUS
  <2>1. PlacesAreOfTheLiving' /\ met' \in BOOLEAN /\ (met => met')
    BY PlacesStayTyped DEF DevLockInv
  <2>2. ~met' => Separate'
    BY <2>1, SessionsStaySeparate DEF DevLockInv
  <2>. QED BY <2>1, <2>2 DEF DevLockInv
<1>. QED BY <1>1, <1>2, DevLockInvInit, PTL DEF DevLockSpec

-----------------------------------------------------------------------------
(* The sources a build refuses.  A tree that has lost its mark was built     *)
(* without a fault, and the one that is served has none.                    *)

\* no reference of the last output is served from nowhere
Answered(out) == \A b \in out.beside : b.kind = "url" /\ b.url \in out.served

RefusalsInv ==
    /\ output = [beside |-> output.beside, served |-> output.served]
    /\ ~marked => Answered(output)
    /\ serving => Answered(output)

\* A build that finds no fault has nothing that is not served.
LEMMA NoFaultIsAnswered ==
    ASSUME NEW served, Builds(served)
    PROVE  /\ output' = [beside |-> output'.beside, served |-> output'.served]
           /\ (marked' <=> AssetChannelFaults(served) # {})
           /\ AssetChannelFaults(served) = {} => Answered(output')
  <1>1. output' = [beside |-> beside, served |-> served]
    BY DEF Builds
  <1>2. output'.beside = beside /\ output'.served = served
    BY <1>1
  <1>3. marked' <=> AssetChannelFaults(served) # {}
    BY DEF Builds, MarkStays
  <1>4. AssetChannelFaults(served) = {} => Answered(output')
    BY <1>2 DEF AssetChannelFaults, Answered
  <1>. QED BY <1>1, <1>2, <1>3, <1>4

LEMMA RefusalsStep ==
    ASSUME RefusalsInv, [SourceChecksNext]_checksVars
    PROVE  RefusalsInv'
  <1>1. ASSUME UNCHANGED <<marked, output, serving>> PROVE RefusalsInv'
    BY <1>1 DEF RefusalsInv, Answered
  <1>2. CASE Build
    <2>1. Builds(PublicAssetUrls) /\ ~serving'
      BY <1>2 DEF Build
    <2>. QED BY <2>1, NoFaultIsAnswered DEF RefusalsInv
  <1>3. CASE Start /\ marked
    <2>1. Builds(PublicAssetUrls) /\ serving' = (AssetChannelFaults(PublicAssetUrls) = {})
      BY <1>3 DEF Start
    <2>2. serving' <=> AssetChannelFaults(PublicAssetUrls) = {}
      BY <2>1
    <2>. QED BY <2>1, <2>2, NoFaultIsAnswered DEF RefusalsInv
  <1>4. CASE Start /\ ~marked
    <2>1. UNCHANGED <<output, marked>>
      BY <1>4 DEF Start
    <2>2. Answered(output)
      BY <1>4 DEF RefusalsInv
    <2>. QED BY <2>1, <2>2 DEF RefusalsInv, Answered
  <1>5. CASE Stop
    <2>1. UNCHANGED <<output, marked>> /\ ~serving'
      BY <1>5 DEF Stop
    <2>. QED BY <2>1 DEF RefusalsInv, Answered
  <1>6. ASSUME NEW p \in Paths, WritesFile(p) PROVE RefusalsInv'
    BY <1>1, <1>6 DEF WritesFile, Edits
  <1>7. ASSUME NEW p \in Paths, NEW q \in Paths, Respells(p, q) PROVE RefusalsInv'
    BY <1>1, <1>7 DEF Respells, Edits
  <1>8. ASSUME NEW source \in Paths, NEW spec \in Specs, Imports(source, spec) PROVE RefusalsInv'
    BY <1>1, <1>8 DEF Imports, Edits
  <1>9. ASSUME NEW source \in Paths, NEW url \in Urls, Links(source, url) PROVE RefusalsInv'
    BY <1>1, <1>9 DEF Links, Edits
  <1>10. ASSUME NEW kind, NEW url \in Urls, NamesBeside(kind, url) PROVE RefusalsInv'
    BY <1>1, <1>10 DEF NamesBeside, Edits
  <1>11. CASE UNCHANGED checksVars
    BY <1>1, <1>11 DEF checksVars
  <1>. QED BY <1>2, <1>3, <1>4, <1>5, <1>6, <1>7, <1>8, <1>9, <1>10, <1>11 DEF SourceChecksNext

\* A site whose pages ask for a file beside its source is not served, however
\* the boots and the builds alternate (build.ts 645).
THEOREM RefusedStaysDown == SourceChecksSpec => []RefusedIsNeverServed
  <1>1. SourceChecksInit => RefusalsInv
    BY DEF SourceChecksInit, RefusalsInv, Answered
  <1>2. RefusalsInv => RefusedIsNeverServed
    BY DEF RefusalsInv, RefusedIsNeverServed, Answered
  <1>. QED BY <1>1, <1>2, RefusalsStep, PTL DEF SourceChecksSpec

-----------------------------------------------------------------------------
(* What a build reports.  The walk of a specifier stays on the path it      *)
(* names for as long as it finds it, and what it hits on its way is what    *)
(* the tree spells otherwise: each part is folded to one name of its        *)
(* directory, by induction over the parts, and the last of them is the      *)
(* import itself.                                                           *)

\* A specifier climbs before it descends, and names something at its end.
ClimbsFirst(parts) ==
    /\ parts # <<>> /\ parts[Len(parts)] # Up
    /\ \A i, j \in DOMAIN parts : i < j /\ parts[j] = Up => parts[i] = Up

LEMMA PrefixOfSeq ==
  ASSUME NEW S, NEW p \in Seq(S), NEW n \in 0 .. Len(p)
  PROVE  /\ SubSeq(p, 1, n) \in Seq(S) /\ Len(SubSeq(p, 1, n)) = n
         /\ \A j \in 1 .. n : SubSeq(p, 1, n)[j] = p[j]
<1>1. Len(p) \in Nat /\ n \in Nat /\ p \in [1 .. Len(p) -> S]
  BY LenProperties
<1>2. \A k \in 1 .. n : p[k] \in S
  BY <1>1
<1>. QED BY <1>1, <1>2, SubSeqProperties

LEMMA FrontIsShorter ==
  ASSUME NEW S, NEW s \in Seq(S)
  PROVE  /\ Front(s) \in Seq(S)
         /\ s # <<>> => Len(s) \in Nat \ {0} /\ Len(Front(s)) = Len(s) - 1
         /\ \A k \in 1 .. Len(s) - 1 : Front(s)[k] = s[k]
<1>1. Len(s) \in Nat /\ s \in [1 .. Len(s) -> S] /\ (Len(s) = 0 <=> s = <<>>)
  BY LenProperties, EmptySeq
<1>2. CASE s # <<>>
  <2>1. Len(s) - 1 \in 0 .. Len(s) /\ Len(s) \in Nat \ {0}
    BY <1>1, <1>2
  <2>2. /\ SubSeq(s, 1, Len(s) - 1) \in Seq(S) /\ Len(SubSeq(s, 1, Len(s) - 1)) = Len(s) - 1
        /\ \A j \in 1 .. Len(s) - 1 : SubSeq(s, 1, Len(s) - 1)[j] = s[j]
    BY <2>1, PrefixOfSeq
  <2>. QED BY <2>1, <2>2 DEF Front
<1>3. CASE s = <<>>
  <2>1. Front(s) = <<>>
    BY <1>3 DEF Front
  <2>. QED BY <1>1, <1>3, <2>1
<1>. QED BY <1>2, <1>3

\* Sequences of one length with the same elements are one.
LEMMA SameElements ==
  ASSUME NEW S, NEW R, NEW p \in Seq(S), NEW q \in Seq(R), Len(p) = Len(q),
         \A j \in 1 .. Len(p) : p[j] = q[j]
  PROVE  p = q
<1>1. p \in Seq(S \cup R) /\ q \in Seq(S \cup R)
  OBVIOUS
<1>. QED BY <1>1, SeqEqual

\* How many times it climbs.
LEMMA Climbs ==
  ASSUME NEW parts \in Seq(Name), ClimbsFirst(parts)
  PROVE  \E u \in 0 .. Len(parts) - 1 :
            /\ \A i \in DOMAIN parts : parts[i] = Up <=> i <= u
            /\ Cardinality({i \in DOMAIN parts : parts[i] = Up}) = u
<1> DEFINE n == Len(parts)
           down == {i \in 1 .. n : parts[i] # Up}
<1>1. n \in Nat /\ n # 0 /\ DOMAIN parts = 1 .. n
  BY LenProperties, EmptySeq DEF ClimbsFirst
<1>2. n \in down /\ down \subseteq Nat
  BY <1>1 DEF ClimbsFirst
<1>3. PICK l \in down : \A j \in down : l <= j
  BY <1>2, LeastNatural
<1> DEFINE u == l - 1
<1>4. u \in 0 .. n - 1
  BY <1>1, <1>3
<1>5. ASSUME NEW i \in 1 .. n PROVE parts[i] = Up <=> i <= u
  <2>1. CASE i <= u
    <3>1. i \notin down
      BY <1>1, <1>3, <1>5, <2>1
    <3>. QED BY <1>5, <2>1, <3>1
  <2>2. CASE ~(i <= u)
    <3>1. i = l \/ l < i
      BY <1>1, <1>3, <1>5, <2>2
    <3>. QED BY <1>1, <1>3, <1>5, <2>2, <3>1 DEF ClimbsFirst
  <2>. QED BY <2>1, <2>2
<1>6. {i \in DOMAIN parts : parts[i] = Up} = 1 .. u
  BY <1>1, <1>4, <1>5
<1>7. Cardinality(1 .. u) = u
  BY <1>4, FS_Interval
<1>. QED BY <1>1, <1>4, <1>5, <1>6, <1>7

\* Where an import points, name by name.
StepTo(at, part) == IF part = Up THEN Front(at) ELSE Append(at, part)

IsPointing(base, parts, g) ==
    g = [T \in SUBSET DOMAIN parts |->
            IF T = {} THEN base ELSE StepTo(g[T \ {Max(T)}], parts[Max(T)])]

LEMMA TargetRow ==
  ASSUME NEW source, NEW spec, Base(source, spec) \in Seq(Name), spec.parts \in Seq(Name)
  PROVE  \E F \in [0 .. Len(spec.parts) -> Seq(Name)] :
            /\ F[0] = Base(source, spec) /\ F[Len(spec.parts)] = Target(source, spec)
            /\ \A k \in 1 .. Len(spec.parts) : F[k] = StepTo(F[k - 1], spec.parts[k])
<1> DEFINE parts == spec.parts
           n == Len(parts)
           base == Base(source, spec)
           St == Seq(Name)
           step == [q \in St \X Name |-> StepTo(q[1], q[2])]
           G == CHOOSE g : IsPointing(base, parts, g)
<1>0. n \in Nat /\ parts \in [1 .. n -> Name] /\ DOMAIN parts = 1 .. n
  BY LenProperties
<1>1. ASSUME NEW at \in St, NEW x \in Name
      PROVE  StepTo(at, x) \in St /\ step[<<at, x>>] = StepTo(at, x)
  <2>1. Front(at) \in St /\ Append(at, x) \in St
    BY AppendProperties, FrontIsShorter
  <2>. QED BY <2>1 DEF StepTo
<1>2. Foldable(St, Name, step, base, parts)
  <2>1. step \in [St \X Name -> St]
    BY <1>1
  <2>. QED BY <2>1 DEF Foldable
<1> HIDE DEF step, base
<1>3. Target(source, spec) = G[DOMAIN parts]
  BY Zenon DEF Target, FoldLeft, MapThenFoldSet, IsPointing, StepTo, base
<1>4. IsPointing(base, parts, G)
  <2>1. PICK g \in [SUBSET (1 .. n) -> St] : Folds(g, n, step, base, parts)
    BY <1>2, FoldsExist
  <2>2. ASSUME NEW T \in SUBSET DOMAIN parts
        PROVE  g[T] = IF T = {} THEN base ELSE StepTo(g[T \ {Max(T)}], parts[Max(T)])
    <3>1. CASE T = {}
      BY <1>0, <2>1, <3>1 DEF Folds
    <3>2. CASE T # {}
      <4>1. T \in SUBSET (1 .. n) /\ T \ {Max(T)} \in SUBSET (1 .. n)
        BY <1>0
      <4>2. Max(T) \in T
        BY <1>0, <3>2, GreatestUpTo
      <4>3. g[T \ {Max(T)}] \in St /\ parts[Max(T)] \in Name
        BY <1>0, <2>1, <4>1, <4>2
      <4>4. g[T] = step[<<g[T \ {Max(T)}], parts[Max(T)]>>]
        BY <2>1, <3>2, <4>1 DEF Folds
      <4>. QED BY <1>1, <3>2, <4>3, <4>4
    <3>. QED BY <3>1, <3>2
  <2>3. IsPointing(base, parts, g)
    BY <1>0, <2>1, <2>2 DEF IsPointing
  <2>. QED BY <2>3
<1>5. Follows(G, n, St, step, base, parts)
  <2>1. ASSUME NEW T \in SUBSET (1 .. n)
        PROVE  G[T] = IF T = {} THEN base ELSE StepTo(G[T \ {Max(T)}], parts[Max(T)])
    BY <1>0, <1>4, Zenon DEF IsPointing
  <2>2. ASSUME NEW T \in (SUBSET (1 .. n)) \ {{}}, G[T \ {Max(T)}] \in St
        PROVE  G[T] = step[<<G[T \ {Max(T)}], parts[Max(T)]>>]
    <3>1. Max(T) \in T
      BY <1>0, GreatestUpTo
    <3>2. parts[Max(T)] \in Name
      BY <1>0, <3>1
    <3>. QED BY <1>1, <2>1, <2>2, <3>2
  <2>3. G[{}] = base
    BY <2>1
  <2>. QED BY <2>2, <2>3 DEF Follows
<1> HIDE DEF G
<1> DEFINE F == Row(G, n)
<1>6. /\ F \in [0 .. n -> St] /\ F[0] = base /\ F[n] = G[DOMAIN parts]
      /\ \A k \in 1 .. n : F[k] = step[<<F[k - 1], parts[k]>>]
  BY <1>2, <1>5, RowOfAFold DEF IsRow
<1> HIDE DEF F, n
<1>7. ASSUME NEW k \in 1 .. n PROVE F[k] = StepTo(F[k - 1], parts[k])
  <2>1. k - 1 \in 0 .. n
    BY <1>0
  <2>2. F[k - 1] \in St /\ parts[k] \in Name
    BY <1>0, <1>6, <2>1
  <2>. QED BY <1>1, <1>6, <2>2
<1>. QED BY <1>3, <1>6, <1>7 DEF base, n

\* The parts before u climb, and the others descend.
LEMMA OneUp ==
  ASSUME NEW n \in Nat, NEW u \in Nat, u < n, NEW k \in 0 .. u - 1
  PROVE  /\ k + 1 \in 1 .. n /\ (k + 1) - 1 = k /\ k + 1 <= u
         /\ k \in 0 .. n /\ k + 1 \in 0 .. u /\ k \in Nat
OBVIOUS

LEMMA OneFurther ==
  ASSUME NEW n \in Nat, NEW u \in Nat, u < n, NEW k \in 0 .. (n - u) - 1
  PROVE  /\ k \in Nat /\ u + (k + 1) \in 1 .. n /\ (u + (k + 1)) - 1 = u + k /\ ~(u + (k + 1) <= u)
         /\ u + k \in 0 .. n /\ k + 1 \in 0 .. n - u /\ k + 1 \in 1 .. n - u
OBVIOUS

TargetClimbs(source, spec, u) ==
    LET base == Base(source, spec)
        above == Len(base) - u
        below == Len(spec.parts) - u
        target == Target(source, spec)
    IN  /\ target \in Seq(Name) /\ Len(target) = above + below /\ above \in Nat /\ below \in Nat \ {0}
        /\ \A j \in 1 .. above : target[j] = base[j]
        /\ \A j \in 1 .. below : target[above + j] = spec.parts[u + j]

LEMMA TargetIs ==
  ASSUME NEW source, NEW spec, Base(source, spec) \in Seq(Name), spec.parts \in Seq(Name),
         NEW u \in 0 .. Len(spec.parts) - 1, u <= Len(Base(source, spec)),
         \A i \in DOMAIN spec.parts : spec.parts[i] = Up <=> i <= u
  PROVE  TargetClimbs(source, spec, u)
<1> DEFINE base == Base(source, spec)
           parts == spec.parts
           n == Len(parts)
           m == Len(base)
           target == Target(source, spec)
<1>0. n \in Nat /\ m \in Nat /\ DOMAIN parts = 1 .. n /\ \A j \in 1 .. n : parts[j] \in Name
  BY LenProperties, ElementOfSeq
<1>1. PICK F \in [0 .. n -> Seq(Name)] :
         /\ F[0] = base /\ F[n] = target
         /\ \A k \in 1 .. n : F[k] = StepTo(F[k - 1], parts[k])
  BY TargetRow
<1> HIDE DEF base, parts, target, n, m
<1>2. u \in Nat /\ u <= m /\ u < n /\ \A i \in 1 .. n : parts[i] = Up <=> i <= u
  <2>1. DOMAIN parts = 1 .. n /\ (\A i \in DOMAIN parts : parts[i] = Up <=> i <= u)
    BY <1>0 DEF parts
  <2>2. u \in 0 .. n - 1 /\ u <= m
    BY DEF base, parts, n, m
  <2>3. \A i \in 1 .. n : parts[i] = Up <=> i <= u
    BY <2>1
  <2>4. u \in Nat /\ u <= m /\ u < n
    BY <1>0, <2>2
  <2>. QED BY <2>3, <2>4
<1> DEFINE Climbed == {k \in 0 .. u : Len(F[k]) = m - k /\ \A j \in 1 .. m - k : F[k][j] = base[j]}
<1>3. 0 \in Climbed
  BY <1>1, <1>2 DEF m
<1>4. ASSUME NEW k \in 0 .. u - 1, k \in Climbed PROVE k + 1 \in Climbed
  <2>1. k + 1 \in 1 .. n /\ (k + 1) - 1 = k /\ k + 1 <= u /\ k \in 0 .. n /\ k + 1 \in 0 .. u /\ k \in Nat
    BY <1>0, <1>2, OneUp, Zenon
  <2>2. F[k + 1] = Front(F[k])
    BY <1>1, <1>2, <2>1 DEF StepTo
  <2>3. F[k] \in Seq(Name) /\ Len(F[k]) = m - k /\ \A j \in 1 .. m - k : F[k][j] = base[j]
    BY <1>1, <1>4, <2>1
  <2>4. F[k] # <<>>
    <3>1. Len(F[k]) # 0
      BY <1>0, <1>2, <2>1, <2>3
    <3>. QED BY <2>3, <3>1, EmptySeq
  <2>5. Len(F[k + 1]) = m - (k + 1) /\ \A j \in 1 .. m - (k + 1) : F[k + 1][j] = F[k][j]
    <3>1. Len(Front(F[k])) = Len(F[k]) - 1 /\ \A j \in 1 .. Len(F[k]) - 1 : Front(F[k])[j] = F[k][j]
      BY <2>3, <2>4, FrontIsShorter
    <3>2. Len(F[k]) - 1 = m - (k + 1)
      BY <1>0, <2>1, <2>3
    <3>. QED BY <2>2, <3>1, <3>2
  <2>6. 1 .. m - (k + 1) \subseteq 1 .. m - k
    BY <1>0, <2>1
  <2>. QED BY <2>1, <2>3, <2>5, <2>6
<1> HIDE DEF Climbed
<1>5. u \in Climbed
  <2>1. \A k \in 0 .. u : k \in Climbed
    BY <1>2, <1>3, <1>4, InductionUpTo
  <2>. QED BY <1>2, <2>1
<1> DEFINE h == m - u
<1>6. h \in Nat /\ Len(F[u]) = h /\ \A j \in 1 .. h : F[u][j] = base[j]
  BY <1>0, <1>2, <1>5 DEF Climbed
<1> HIDE DEF h
<1> DEFINE Named(s, k) ==
             /\ Len(s) = h + k
             /\ \A j \in 1 .. h : s[j] = base[j]
             /\ \A j \in 1 .. k : s[h + j] = parts[u + j]
           Descended == {k \in 0 .. n - u : Named(F[u + k], k)}
<1>7. 0 \in Descended
  <2>1. u + 0 = u /\ h + 0 = h /\ 0 \in 0 .. n - u
    BY <1>2, <1>6, <1>0
  <2>2. Named(F[u + 0], 0)
    BY <1>6, <2>1
  <2>. QED BY <2>1, <2>2
<1>8. ASSUME NEW k \in 0 .. (n - u) - 1, k \in Descended PROVE k + 1 \in Descended
  <2>1. /\ k \in Nat /\ u + (k + 1) \in 1 .. n /\ (u + (k + 1)) - 1 = u + k /\ ~(u + (k + 1) <= u)
        /\ u + k \in 0 .. n /\ k + 1 \in 0 .. n - u
    BY <1>0, <1>2, OneFurther, Zenon
  <2> DEFINE s == F[u + k]
             x == parts[u + (k + 1)]
  <2>2. F[u + (k + 1)] = Append(s, x)
    BY <1>1, <1>2, <2>1 DEF StepTo
  <2>3. s \in Seq(Name) /\ x \in Name
    BY <1>0, <1>1, <2>1
  <2>4. Named(s, k)
    BY <1>8
  <2> HIDE DEF s
  <2>5. /\ Len(Append(s, x)) = h + (k + 1)
        /\ \A j \in 1 .. h + k : Append(s, x)[j] = s[j]
        /\ Append(s, x)[h + (k + 1)] = x
    <3>1. /\ Len(Append(s, x)) = Len(s) + 1
          /\ \A j \in 1 .. Len(s) : Append(s, x)[j] = s[j]
          /\ Append(s, x)[Len(s) + 1] = x
      BY <2>3, AppendProperties
    <3>2. Len(s) = h + k /\ (h + k) + 1 = h + (k + 1)
      BY <1>6, <2>1, <2>4
    <3>. QED BY <3>1, <3>2
  <2>6. \A j \in 1 .. h : j \in 1 .. h + k
    BY <1>6, <2>1
  <2>7. \A j \in 1 .. k + 1 : (j \in 1 .. k /\ h + j \in 1 .. h + k) \/ j = k + 1
    BY <1>6, <2>1
  <2>8. Named(Append(s, x), k + 1)
    <3>1. \A j \in 1 .. h : Append(s, x)[j] = base[j]
      BY <2>4, <2>5, <2>6
    <3>2. \A j \in 1 .. k + 1 : Append(s, x)[h + j] = parts[u + j]
      BY <2>4, <2>5, <2>7
    <3>. QED BY <2>5, <3>1, <3>2
  <2>. QED BY <2>1, <2>2, <2>8
<1> HIDE DEF Descended, Named
<1>9. n - u \in Descended
  <2>1. n - u \in Nat /\ n - u \in 0 .. n - u
    BY <1>0, <1>2
  <2>2. \A k \in 0 .. (n - u) - 1 : k \in Descended => k + 1 \in Descended
    BY <1>8
  <2>3. \A k \in 0 .. n - u : k \in Descended
    BY <1>7, <2>1, <2>2, InductionUpTo
  <2>. QED BY <2>1, <2>3
<1>10. Named(target, n - u)
  <2>1. u + (n - u) = n
    BY <1>0, <1>2
  <2>. QED BY <1>1, <1>9, <2>1 DEF Descended
<1>11. target \in Seq(Name) /\ n - u \in Nat \ {0}
  <2>1. n \in 0 .. n
    BY <1>0
  <2>. QED BY <1>0, <1>1, <1>2, <2>1
<1>. QED BY <1>6, <1>10, <1>11 DEF TargetClimbs, Named, base, parts, target, n, m, h

-----------------------------------------------------------------------------
\* The walk of miscasedImport, one segment.
Stopped(hits) == [at |-> <<>>, over |-> TRUE, hits |-> hits]
WalkTo(parts, s, i) ==
    LET part == parts[i]
        names == NamesIn(s.at)
        last == i = Len(parts)
    IN IF s.over THEN s
       ELSE CASE part = Up -> IF s.at = <<>> THEN Stopped({}) ELSE [s EXCEPT !.at = Front(@)]
         [] part # Up /\ ~last /\ part \in names -> [s EXCEPT !.at = Append(@, part)]
         [] part # Up /\ ~last /\ part \notin names -> Stopped({n \in names : Fold(n) = Fold(part)})
         [] part # Up /\ last /\ Completed(part) \cap names # {} -> Stopped({})
         [] OTHER -> Stopped({n \in names : Fold(n) \in Completed(Fold(part))})

Walks == [at : Seq(Name), over : BOOLEAN, hits : SUBSET Name]

IsWalking(start, parts, seq, g) ==
    g = [T \in SUBSET DOMAIN seq |->
            IF T = {} THEN start ELSE WalkTo(parts, g[T \ {Max(T)}], seq[Max(T)])]

FilesAreNamed == tree \subseteq Seq(Name) \ {<<>>}

LEMMA NamesAreNames ==
  ASSUME FilesAreNamed, NEW at \in Seq(Name) PROVE NamesIn(at) \subseteq Name
<1>1. ASSUME NEW p \in tree, Len(p) > Len(at) PROVE p[Len(at) + 1] \in Name
  <2>1. p \in Seq(Name) /\ Len(p) \in Nat /\ Len(at) \in Nat
    BY LenProperties DEF FilesAreNamed
  <2>2. Len(at) + 1 \in 1 .. Len(p)
    BY <1>1, <2>1
  <2>. QED BY <2>1, <2>2, ElementOfSeq
<1>. QED BY <1>1 DEF NamesIn

\* Where each branch goes.
WalksOn(parts, s, i) ==
    LET part == parts[i]
        names == NamesIn(s.at)
        next == WalkTo(parts, s, i)
    IN  /\ part = Up /\ s.at = <<>> => next = Stopped({})
        /\ part = Up /\ s.at # <<>> => next = [s EXCEPT !.at = Front(s.at)]
        /\ part # Up /\ i # Len(parts) /\ part \in names => next = [s EXCEPT !.at = Append(s.at, part)]
        /\ part # Up /\ i # Len(parts) /\ part \notin names =>
              next = Stopped({n \in names : Fold(n) = Fold(part)})
        /\ part # Up /\ i = Len(parts) /\ Completed(part) \cap names # {} => next = Stopped({})
        /\ part # Up /\ i = Len(parts) /\ Completed(part) \cap names = {} =>
              next = Stopped({n \in names : Fold(n) \in Completed(Fold(part))})

LEMMA WalkGoes ==
  ASSUME NEW parts, NEW s \in Walks, NEW i, ~s.over PROVE WalksOn(parts, s, i)
<1> DEFINE part == parts[i]
           names == NamesIn(s.at)
           next == WalkTo(parts, s, i)
           exact == Completed(part) \cap names # {}
           near == {n \in names : Fold(n) = Fold(part)}
           nearer == {n \in names : Fold(n) \in Completed(Fold(part))}
           back == [s EXCEPT !.at = Front(@)]
           deeper == [s EXCEPT !.at = Append(@, part)]
<1>1. next = CASE part = Up -> IF s.at = <<>> THEN Stopped({}) ELSE back
               [] part # Up /\ i # Len(parts) /\ part \in names -> deeper
               [] part # Up /\ i # Len(parts) /\ part \notin names -> Stopped(near)
               [] part # Up /\ i = Len(parts) /\ exact -> Stopped({})
               [] OTHER -> Stopped(nearer)
  BY DEF WalkTo
<1>2. back = [s EXCEPT !.at = Front(s.at)] /\ deeper = [s EXCEPT !.at = Append(s.at, part)]
  BY DEF Walks
<1> HIDE DEF part, names, next, exact, near, nearer, back, deeper
<1>3. /\ part = Up /\ s.at = <<>> => next = Stopped({})
      /\ part = Up /\ s.at # <<>> => next = back
      /\ part # Up /\ i # Len(parts) /\ part \in names => next = deeper
      /\ part # Up /\ i # Len(parts) /\ part \notin names => next = Stopped(near)
      /\ part # Up /\ i = Len(parts) /\ exact => next = Stopped({})
      /\ part # Up /\ i = Len(parts) /\ ~exact => next = Stopped(nearer)
  BY <1>1
<1>. QED BY <1>2, <1>3 DEF WalksOn, part, names, next, exact, near, nearer

LEMMA WalkStays ==
  ASSUME FilesAreNamed, NEW parts \in Seq(Name), NEW s \in Walks, NEW i \in 1 .. Len(parts)
  PROVE  WalkTo(parts, s, i) \in Walks
<1>1. s.at \in Seq(Name) /\ parts[i] \in Name
  BY ElementOfSeq DEF Walks
<1>2. NamesIn(s.at) \subseteq Name
  BY <1>1, NamesAreNames
<1>3. \A hits \in SUBSET Name : Stopped(hits) \in Walks
  <2>1. <<>> \in Seq(Name)
    BY EmptySeq
  <2>. QED BY <2>1 DEF Stopped, Walks
<1>4. Front(s.at) \in Seq(Name) /\ Append(s.at, parts[i]) \in Seq(Name)
  BY <1>1, FrontIsShorter, AppendProperties
<1>5. [s EXCEPT !.at = Front(s.at)] \in Walks /\ [s EXCEPT !.at = Append(s.at, parts[i])] \in Walks
  BY <1>4 DEF Walks
<1>6. CASE s.over
  BY <1>6 DEF WalkTo
<1>7. CASE ~s.over
  <2> DEFINE near == {n \in NamesIn(s.at) : Fold(n) = Fold(parts[i])}
             nearer == {n \in NamesIn(s.at) : Fold(n) \in Completed(Fold(parts[i]))}
  <2>1. {} \in SUBSET Name /\ near \in SUBSET Name /\ nearer \in SUBSET Name
    BY <1>2
  <2>2. Stopped({}) \in Walks /\ Stopped(near) \in Walks /\ Stopped(nearer) \in Walks
    BY <1>3, <2>1
  <2> DEFINE next == WalkTo(parts, s, i)
             back == [s EXCEPT !.at = Front(s.at)]
             deeper == [s EXCEPT !.at = Append(s.at, parts[i])]
  <2>3. next \in {Stopped({}), back, deeper, Stopped(near), Stopped(nearer)}
    <3> DEFINE part == parts[i]
               names == NamesIn(s.at)
               exact == Completed(part) \cap names # {}
    <3>0. WalksOn(parts, s, i)
      BY <1>7, WalkGoes
    <3>1. /\ part = Up /\ s.at = <<>> => next = Stopped({})
          /\ part = Up /\ s.at # <<>> => next = back
          /\ part # Up /\ i # Len(parts) /\ part \in names => next = deeper
          /\ part # Up /\ i # Len(parts) /\ part \notin names => next = Stopped(near)
          /\ part # Up /\ i = Len(parts) /\ exact => next = Stopped({})
          /\ part # Up /\ i = Len(parts) /\ ~exact => next = Stopped(nearer)
      BY <3>0 DEF WalksOn
    <3> HIDE DEF part, names, exact, next, back, deeper, near, nearer
    <3>. QED BY <3>1
  <2> HIDE DEF next, near, nearer
  <2>. QED BY <1>5, <2>2, <2>3 DEF next
<1>. QED BY <1>6, <1>7

LEMMA WalkRow ==
  ASSUME FilesAreNamed, NEW source, NEW spec, WalksFrom(source, spec) \in Seq(Name), spec.parts \in Seq(Name)
  PROVE  \E F \in [0 .. Len(spec.parts) -> Walks] :
            /\ F[0] = [at |-> WalksFrom(source, spec), over |-> FALSE, hits |-> {}]
            /\ F[Len(spec.parts)].hits = MiscasedImport(source, spec)
            /\ \A k \in 1 .. Len(spec.parts) : F[k] = WalkTo(spec.parts, F[k - 1], k)
<1> DEFINE parts == spec.parts
           n == Len(parts)
           start == [at |-> WalksFrom(source, spec), over |-> FALSE, hits |-> {}]
           seq == [i \in DOMAIN parts |-> i]
           step == [q \in Walks \X (1 .. n) |-> WalkTo(parts, q[1], q[2])]
           G == CHOOSE g : IsWalking(start, parts, seq, g)
<1>0. n \in Nat /\ DOMAIN parts = 1 .. n
  BY LenProperties
<1>01. seq \in Seq(1 .. n) /\ Len(seq) = n /\ DOMAIN seq = 1 .. n /\ \A i \in 1 .. n : seq[i] = i
  BY <1>0
<1>02. start \in Walks
  BY DEF Walks
<1>1. ASSUME NEW s \in Walks, NEW i \in 1 .. n
      PROVE  WalkTo(parts, s, i) \in Walks /\ step[<<s, i>>] = WalkTo(parts, s, i)
  BY WalkStays
<1>2. Foldable(Walks, 1 .. n, step, start, seq)
  <2>1. step \in [Walks \X (1 .. n) -> Walks]
    BY <1>1
  <2>. QED BY <1>01, <1>02, <2>1 DEF Foldable
<1>3. MiscasedImport(source, spec) = G[DOMAIN seq].hits
  BY Zenon DEF MiscasedImport, FoldLeft, MapThenFoldSet, IsWalking, WalkTo, Stopped
<1> HIDE DEF step, start, seq
<1>4. IsWalking(start, parts, seq, G)
  <2>1. PICK g \in [SUBSET (1 .. n) -> Walks] : Folds(g, n, step, start, seq)
    BY <1>01, <1>2, FoldsExist
  <2>2. ASSUME NEW T \in SUBSET DOMAIN seq
        PROVE  g[T] = IF T = {} THEN start ELSE WalkTo(parts, g[T \ {Max(T)}], seq[Max(T)])
    <3>1. CASE T = {}
      BY <1>01, <2>1, <3>1 DEF Folds
    <3>2. CASE T # {}
      <4>1. T \in SUBSET (1 .. n) /\ T \ {Max(T)} \in SUBSET (1 .. n)
        BY <1>01
      <4>2. Max(T) \in T
        BY <1>0, <1>01, <3>2, GreatestUpTo
      <4>3. g[T \ {Max(T)}] \in Walks /\ seq[Max(T)] \in 1 .. n
        BY <1>01, <2>1, <4>1, <4>2
      <4>4. g[T] = step[<<g[T \ {Max(T)}], seq[Max(T)]>>]
        BY <2>1, <3>2, <4>1 DEF Folds
      <4>. QED BY <1>1, <3>2, <4>3, <4>4
    <3>. QED BY <3>1, <3>2
  <2>3. IsWalking(start, parts, seq, g)
    BY <1>01, <2>1, <2>2 DEF IsWalking
  <2>. QED BY <2>3
<1>5. Follows(G, n, Walks, step, start, seq)
  <2>1. ASSUME NEW T \in SUBSET (1 .. n)
        PROVE  G[T] = IF T = {} THEN start ELSE WalkTo(parts, G[T \ {Max(T)}], seq[Max(T)])
    BY <1>01, <1>4, Zenon DEF IsWalking
  <2>2. ASSUME NEW T \in (SUBSET (1 .. n)) \ {{}}, G[T \ {Max(T)}] \in Walks
        PROVE  G[T] = step[<<G[T \ {Max(T)}], seq[Max(T)]>>]
    <3>1. Max(T) \in T
      BY <1>0, GreatestUpTo
    <3>2. seq[Max(T)] \in 1 .. n
      BY <1>01, <3>1
    <3>. QED BY <1>1, <2>1, <2>2, <3>2
  <2>3. G[{}] = start
    BY <2>1
  <2>. QED BY <2>2, <2>3 DEF Follows
<1> HIDE DEF G
<1> DEFINE F == Row(G, n)
<1>6. /\ F \in [0 .. n -> Walks] /\ F[0] = start /\ F[n] = G[DOMAIN seq]
      /\ \A k \in 1 .. n : F[k] = step[<<F[k - 1], seq[k]>>]
  BY <1>01, <1>2, <1>5, RowOfAFold DEF IsRow
<1> HIDE DEF F, n
<1>7. ASSUME NEW k \in 1 .. n PROVE F[k] = WalkTo(parts, F[k - 1], k)
  <2>1. k - 1 \in 0 .. n
    BY <1>0
  <2>2. F[k - 1] \in Walks /\ seq[k] = k
    BY <1>01, <1>6, <2>1
  <2>. QED BY <1>1, <1>6, <2>2
<1>. QED BY <1>3, <1>6, <1>7 DEF start, n

-----------------------------------------------------------------------------
\* What is in the tree, file or folder.

LEMMA EntryHolds ==
  ASSUME FilesAreNamed, NEW e \in Entries
  PROVE  /\ e \in Seq(Name) /\ Len(e) \in Nat \ {0}
         /\ \A L \in 0 .. Len(e) - 1 : \A at \in Seq(Name) :
               Len(at) = L /\ (\A j \in 1 .. L : at[j] = e[j]) => e[L + 1] \in NamesIn(at)
         /\ \A L \in 1 .. Len(e) : SubSeq(e, 1, L) \in Entries
<1>0. PICK p \in tree : \E k \in 1 .. Len(p) : e = SubSeq(p, 1, k)
  BY DEF Entries
<1>1. PICK n \in 1 .. Len(p) : e = SubSeq(p, 1, n)
  BY <1>0
<1>2. p \in Seq(Name) /\ Len(p) \in Nat /\ n \in Nat \ {0} /\ n \in 0 .. Len(p)
  BY <1>1, LenProperties DEF FilesAreNamed
<1>3. e \in Seq(Name) /\ Len(e) = n /\ \A j \in 1 .. n : e[j] = p[j]
  BY <1>1, <1>2, PrefixOfSeq
<1>4. ASSUME NEW L \in 0 .. n - 1, NEW at \in Seq(Name), Len(at) = L, \A j \in 1 .. L : at[j] = e[j]
      PROVE  e[L + 1] \in NamesIn(at)
  <2>1. L \in 0 .. Len(p) /\ L + 1 \in 1 .. n /\ Len(p) > Len(at) /\ 1 .. L \subseteq 1 .. n
    BY <1>1, <1>2, <1>4
  <2>2. SubSeq(p, 1, L) \in Seq(Name) /\ Len(SubSeq(p, 1, L)) = L /\ \A j \in 1 .. L : SubSeq(p, 1, L)[j] = p[j]
    BY <1>2, <2>1, PrefixOfSeq
  <2>3. \A j \in 1 .. L : SubSeq(p, 1, L)[j] = at[j]
    BY <1>3, <1>4, <2>1, <2>2
  <2>4. SubSeq(p, 1, Len(at)) = at
    BY <1>4, <2>2, <2>3, SameElements
  <2>5. e[L + 1] = p[Len(at) + 1]
    BY <1>3, <1>4, <2>1
  <2>. QED BY <1>1, <2>1, <2>4, <2>5 DEF NamesIn
<1>5. ASSUME NEW L \in 1 .. n PROVE SubSeq(e, 1, L) \in Entries
  <2>1. L \in 0 .. Len(p) /\ L \in 0 .. Len(e) /\ L \in 1 .. Len(p) /\ 1 .. L \subseteq 1 .. n
    BY <1>1, <1>2, <1>3
  <2>2. SubSeq(p, 1, L) \in Seq(Name) /\ Len(SubSeq(p, 1, L)) = L /\ \A j \in 1 .. L : SubSeq(p, 1, L)[j] = p[j]
    BY <1>2, <2>1, PrefixOfSeq
  <2>3. SubSeq(e, 1, L) \in Seq(Name) /\ Len(SubSeq(e, 1, L)) = L /\ \A j \in 1 .. L : SubSeq(e, 1, L)[j] = e[j]
    BY <1>3, <2>1, PrefixOfSeq
  <2>4. \A j \in 1 .. L : SubSeq(e, 1, L)[j] = SubSeq(p, 1, L)[j]
    BY <1>3, <2>1, <2>2, <2>3
  <2>5. SubSeq(e, 1, L) = SubSeq(p, 1, L)
    BY <2>2, <2>3, <2>4, SameElements
  <2>. QED BY <1>1, <2>1, <2>5 DEF Entries
<1>. QED BY <1>2, <1>3, <1>4, <1>5

LEMMA NamedIsEntry ==
  ASSUME FilesAreNamed, NEW at \in Seq(Name), NEW name \in NamesIn(at)
  PROVE  Append(at, name) \in Entries
<1>1. PICK p \in tree : Len(p) > Len(at) /\ SubSeq(p, 1, Len(at)) = at /\ name = p[Len(at) + 1]
  BY DEF NamesIn
<1> DEFINE n == Len(at) + 1
<1>2. p \in Seq(Name) /\ Len(p) \in Nat /\ Len(at) \in Nat /\ name \in Name
  BY LenProperties, NamesAreNames DEF FilesAreNamed
<1>3. n \in 1 .. Len(p) /\ n \in 0 .. Len(p) /\ Len(at) \in 0 .. Len(p)
  BY <1>1, <1>2
<1>4. SubSeq(p, 1, n) \in Seq(Name) /\ Len(SubSeq(p, 1, n)) = n /\ \A j \in 1 .. n : SubSeq(p, 1, n)[j] = p[j]
  BY <1>2, <1>3, PrefixOfSeq
<1>5. \A j \in 1 .. Len(at) : at[j] = p[j]
  BY <1>1, <1>2, <1>3, PrefixOfSeq
<1>6. /\ Append(at, name) \in Seq(Name) /\ Len(Append(at, name)) = n
      /\ \A j \in 1 .. Len(at) : Append(at, name)[j] = at[j]
      /\ Append(at, name)[n] = name
  BY <1>2, AppendProperties
<1>7. \A j \in 1 .. n : j \in 1 .. Len(at) \/ j = n
  BY <1>2
<1>8. \A j \in 1 .. n : Append(at, name)[j] = SubSeq(p, 1, n)[j]
  BY <1>1, <1>4, <1>5, <1>6, <1>7
<1> HIDE DEF n
<1>9. Append(at, name) = SubSeq(p, 1, n)
  BY <1>4, <1>6, <1>8, SameElements
<1>. QED BY <1>1, <1>3, <1>9 DEF Entries

\* An entry that is the target, to the letter or but for the case.
ExactHit(target, e) ==
    /\ e \in Entries /\ Len(e) = Len(target)
    /\ \A j \in 1 .. Len(target) - 1 : e[j] = target[j]
    /\ e[Len(target)] \in Completed(target[Len(target)])
FoldedHit(target, e) ==
    /\ e \in Entries /\ Len(e) = Len(target)
    /\ \A j \in 1 .. Len(target) - 1 : Fold(e[j]) = Fold(target[j])
    /\ \E last \in Completed(target[Len(target)]) : Fold(e[Len(target)]) = Fold(last)

LEMMA CompletedAreNames ==
  ASSUME NEW part \in Name, NEW name \in Completed(part) PROVE name \in Name
<1>1. CASE name = part
  BY <1>1
<1>2. CASE name # part
  <2>1. PICK ext \in ImportExt : name = [part EXCEPT !.ext = ext]
    BY <1>2 DEF Completed
  <2>. QED BY <2>1 DEF Name, ImportExt
<1>. QED BY <1>1, <1>2

LEMMA WithItsLast ==
  ASSUME NEW target \in Seq(Name), target # <<>>, NEW last \in Completed(Last(target))
  PROVE  LET named == Append(Front(target), last)
         IN  /\ Len(target) \in Nat \ {0} /\ Last(target) = target[Len(target)]
             /\ named \in Seq(Name) /\ Len(named) = Len(target) /\ named[Len(target)] = last
             /\ \A j \in 1 .. Len(target) - 1 : named[j] = target[j]
<1>1. /\ Front(target) \in Seq(Name) /\ Len(target) \in Nat \ {0} /\ Len(Front(target)) = Len(target) - 1
      /\ \A k \in 1 .. Len(target) - 1 : Front(target)[k] = target[k]
  BY FrontIsShorter
<1>2. Last(target) = target[Len(target)] /\ target[Len(target)] \in Name
  BY <1>1, ElementOfSeq DEF Last
<1>3. last \in Name
  BY <1>2, CompletedAreNames
<1>4. /\ Append(Front(target), last) \in Seq(Name)
      /\ Len(Append(Front(target), last)) = Len(Front(target)) + 1
      /\ \A k \in 1 .. Len(Front(target)) : Append(Front(target), last)[k] = Front(target)[k]
      /\ Append(Front(target), last)[Len(Front(target)) + 1] = last
  BY <1>1, <1>3, AppendProperties
<1>5. Len(Front(target)) + 1 = Len(target)
  BY <1>1
<1>. QED BY <1>1, <1>2, <1>4, <1>5

LEMMA ExactResolves ==
  ASSUME FilesAreNamed, NEW i, Target(i.source, i.spec) \in Seq(Name), Target(i.source, i.spec) # <<>>
  PROVE  Resolves(i, Exactly) <=> \E e \in Entries : ExactHit(Target(i.source, i.spec), e)
<1> DEFINE target == Target(i.source, i.spec)
           Same(p, q) == [n \in DOMAIN p |-> p[n]] = [n \in DOMAIN q |-> q[n]]
<1>1. Resolves(i, Exactly) <=>
        \E e \in Entries : \E last \in Completed(Last(target)) : Same(e, Append(Front(target), last))
  BY DEF Resolves, Exactly
<1> HIDE DEF target
<1>2. target \in Seq(Name) /\ target # <<>>
  BY DEF target
<1>3. ASSUME NEW e \in Entries, NEW last \in Completed(Last(target))
      PROVE  Same(e, Append(Front(target), last)) <=>
                /\ Len(e) = Len(target) /\ \A j \in 1 .. Len(target) - 1 : e[j] = target[j]
                /\ e[Len(target)] = last
  <2> DEFINE named == Append(Front(target), last)
  <2>1. /\ Len(target) \in Nat \ {0} /\ named \in Seq(Name) /\ Len(named) = Len(target) /\ named[Len(target)] = last
        /\ \A j \in 1 .. Len(target) - 1 : named[j] = target[j]
    BY <1>2, WithItsLast
  <2>2. e \in Seq(Name) /\ Len(e) \in Nat
    BY EntryHolds
  <2> HIDE DEF named
  <2>3. e = [n \in DOMAIN e |-> e[n]] /\ named = [n \in DOMAIN named |-> named[n]]
    BY <2>1, <2>2, LenProperties
  <2>4. Same(e, named) <=> e = named
    BY <2>3
  <2>5. ASSUME Len(e) = Len(target), \A j \in 1 .. Len(target) - 1 : e[j] = target[j], e[Len(target)] = last
        PROVE  e = named
    <3>1. \A j \in 1 .. Len(target) : j \in 1 .. Len(target) - 1 \/ j = Len(target)
      BY <2>1
    <3>2. \A j \in 1 .. Len(e) : e[j] = named[j]
      BY <2>1, <2>5, <3>1
    <3>. QED BY <2>1, <2>2, <2>5, <3>2, SameElements
  <2>. QED BY <2>1, <2>4, <2>5 DEF named
<1>4. Last(target) = target[Len(target)]
  BY DEF Last
<1> HIDE DEF Same
<1>. QED BY <1>1, <1>3, <1>4 DEF ExactHit, target

LEMMA FoldedResolves ==
  ASSUME FilesAreNamed, NEW i, Target(i.source, i.spec) \in Seq(Name), Target(i.source, i.spec) # <<>>,
         Resolves(i, Fold)
  PROVE  \E e \in Entries : FoldedHit(Target(i.source, i.spec), e)
<1> DEFINE target == Target(i.source, i.spec)
<1>1. PICK e \in Entries, last \in Completed(Last(target)) :
         [n \in DOMAIN e |-> Fold(e[n])] =
         [n \in DOMAIN Append(Front(target), last) |-> Fold(Append(Front(target), last)[n])]
  BY DEF Resolves
<1> HIDE DEF target
<1>2. target \in Seq(Name) /\ target # <<>>
  BY DEF target
<1> DEFINE named == Append(Front(target), last)
<1>3. /\ Len(target) \in Nat \ {0} /\ named \in Seq(Name) /\ Len(named) = Len(target) /\ named[Len(target)] = last
      /\ Last(target) = target[Len(target)]
      /\ \A j \in 1 .. Len(target) - 1 : named[j] = target[j]
  BY <1>2, WithItsLast
<1>4. e \in Seq(Name) /\ Len(e) \in Nat
  BY EntryHolds
<1>5. DOMAIN e = DOMAIN named /\ \A n \in DOMAIN e : Fold(e[n]) = Fold(named[n])
  BY <1>1
<1> HIDE DEF named
<1>6. DOMAIN e = 1 .. Len(e) /\ DOMAIN named = 1 .. Len(named)
  BY <1>3, <1>4, LenProperties
<1>7. Len(e) = Len(target)
  <2>1. 1 .. Len(e) = 1 .. Len(target) /\ Len(e) \in Nat /\ Len(target) \in Nat
    BY <1>3, <1>4, <1>5, <1>6
  <2>2. \A m, n \in Nat : m < n => n \in 1 .. n /\ n \notin 1 .. m
    OBVIOUS
  <2>3. ~(Len(e) < Len(target)) /\ ~(Len(target) < Len(e))
    BY <2>1, <2>2
  <2>. QED BY <2>1, <2>3
<1>8. \A n \in 1 .. Len(target) : Fold(e[n]) = Fold(named[n])
  BY <1>3, <1>5, <1>6
<1>9. 1 .. Len(target) - 1 \subseteq 1 .. Len(target) /\ Len(target) \in 1 .. Len(target)
  BY <1>3
<1>10. \A j \in 1 .. Len(target) - 1 : Fold(e[j]) = Fold(target[j])
  BY <1>3, <1>8, <1>9
<1>11. Fold(e[Len(target)]) = Fold(last) /\ last \in Completed(target[Len(target)])
  BY <1>3, <1>8, <1>9
<1>12. FoldedHit(target, e)
  BY <1>7, <1>10, <1>11 DEF FoldedHit
<1>. QED BY <1>12 DEF target

-----------------------------------------------------------------------------
\* One segment down, the walk is still on the target, or it has its verdict.

Anchored(at) == at = <<>> \/ at \in Entries

Verdict(target, hits) ==
    /\ (\E e \in Entries : ExactHit(target, e)) => hits = {}
    /\ Portable /\ (\E e \in Entries : FoldedHit(target, e)) /\ ~(\E e \in Entries : ExactHit(target, e)) =>
          hits # {}

OnTarget(target, s) ==
    /\ s.at \in Seq(Name) /\ Len(s.at) \in Nat /\ s.hits = {} /\ Anchored(s.at)
    /\ \A j \in 1 .. Len(s.at) : s.at[j] = target[j]

\* Where a tree can be checked out that folds, what folds to it is below it.
LEMMA FoldedIsBelow ==
  ASSUME FilesAreNamed, Portable, NEW target \in Seq(Name), NEW s, OnTarget(target, s),
         Len(s.at) < Len(target), NEW e \in Entries, FoldedHit(target, e)
  PROVE  e[Len(s.at) + 1] \in NamesIn(s.at)
<1> DEFINE at == s.at
           L == Len(at)
<1>0. /\ at \in Seq(Name) /\ L \in Nat /\ Anchored(at) /\ \A j \in 1 .. L : at[j] = target[j]
      /\ L < Len(target)
  BY DEF OnTarget
<1>1. /\ e \in Seq(Name) /\ Len(e) = Len(target) /\ Len(e) \in Nat
      /\ \A j \in 1 .. Len(target) - 1 : Fold(e[j]) = Fold(target[j])
  BY EntryHolds DEF FoldedHit
<1>2. L \in 0 .. Len(e) - 1 /\ L \in 0 .. Len(e)
  BY <1>0, <1>1
<1>3. \A j \in 1 .. L : at[j] = e[j]
  <2>1. CASE at = <<>>
    <3>1. L = 0
      BY <2>1
    <3>. QED BY <3>1
  <2>2. CASE at # <<>>
    <3>1. at \in Entries /\ L \in 1 .. Len(e)
      <4>1. L # 0
        BY <1>0, <2>2, EmptySeq
      <4>. QED BY <1>0, <1>1, <2>2, <4>1 DEF Anchored
    <3> DEFINE top == SubSeq(e, 1, L)
    <3>2. top \in Entries
      BY <3>1, EntryHolds
    <3>3. top \in Seq(Name) /\ Len(top) = L /\ \A j \in 1 .. L : top[j] = e[j]
      BY <1>1, <1>2, PrefixOfSeq
    <3> HIDE DEF top, at, L
    <3>4. DOMAIN at = 1 .. L /\ DOMAIN top = 1 .. L
      BY <1>0, <3>3, LenProperties DEF L
    <3>5. \A j \in 1 .. L : Fold(at[j]) = Fold(top[j])
      <4>1. 1 .. L \subseteq 1 .. Len(target) - 1
        BY <1>1, <1>2
      <4>. QED BY <1>0, <1>1, <3>3, <4>1
    <3>6. FoldPath(at) = FoldPath(top)
      BY <3>4, <3>5 DEF FoldPath
    <3>7. at = top
      BY <3>1, <3>2, <3>6 DEF Portable
    <3>. QED BY <3>3, <3>7
  <2>. QED BY <2>1, <2>2
<1> HIDE DEF at, L
<1>4. e[L + 1] \in NamesIn(at)
  BY <1>0, <1>2, <1>3, EntryHolds DEF L
<1>. QED BY <1>4 DEF at, L

LEMMA ExactIsBelow ==
  ASSUME FilesAreNamed, NEW target \in Seq(Name), NEW s, OnTarget(target, s),
         Len(s.at) < Len(target), NEW e \in Entries, ExactHit(target, e)
  PROVE  e[Len(s.at) + 1] \in NamesIn(s.at)
<1> DEFINE at == s.at
           L == Len(at)
<1>0. /\ at \in Seq(Name) /\ L \in Nat /\ \A j \in 1 .. L : at[j] = target[j] /\ L < Len(target)
  BY DEF OnTarget
<1>1. /\ e \in Seq(Name) /\ Len(e) = Len(target) /\ Len(e) \in Nat /\ L < Len(target)
      /\ \A j \in 1 .. Len(target) - 1 : e[j] = target[j]
  BY EntryHolds DEF ExactHit
<1>2. L \in 0 .. Len(e) - 1 /\ 1 .. L \subseteq 1 .. Len(target) - 1
  BY <1>0, <1>1
<1>3. \A j \in 1 .. L : at[j] = e[j]
  BY <1>0, <1>1, <1>2
<1> HIDE DEF at, L
<1>4. e[L + 1] \in NamesIn(at)
  BY <1>0, <1>2, <1>3, EntryHolds DEF L
<1>. QED BY <1>4 DEF at, L

\* and what is found at its end is the target
LEMMA FoundIsExact ==
  ASSUME FilesAreNamed, NEW target \in Seq(Name), NEW s, OnTarget(target, s), Len(target) = Len(s.at) + 1,
         NEW name \in NamesIn(s.at), name \in Completed(target[Len(target)])
  PROVE  \E e \in Entries : ExactHit(target, e)
<1> DEFINE at == s.at
           L == Len(at)
<1>0. at \in Seq(Name) /\ L \in Nat /\ \A j \in 1 .. L : at[j] = target[j]
  BY DEF OnTarget
<1>1. Append(at, name) \in Entries /\ name \in Name
  BY <1>0, NamedIsEntry, NamesAreNames
<1>2. /\ Len(Append(at, name)) = L + 1 /\ Append(at, name)[L + 1] = name
      /\ \A j \in 1 .. L : Append(at, name)[j] = at[j]
  BY <1>0, <1>1, AppendProperties
<1>3. Len(target) = L + 1 /\ Len(target) - 1 = L
  BY <1>0
<1>4. ExactHit(target, Append(at, name))
  BY <1>0, <1>1, <1>2, <1>3 DEF ExactHit
<1>. QED BY <1>1, <1>4

Lands(target, parts, s, i) ==
    LET next == WalkTo(parts, s, i)
    IN  IF next.over THEN Verdict(target, next.hits)
        ELSE i # Len(parts) /\ OnTarget(target, next) /\ Len(next.at) = Len(s.at) + 1

LEMMA OneDown ==
  ASSUME FilesAreNamed, NEW target \in Seq(Name), NEW parts \in Seq(Name), NEW s \in Walks, ~s.over,
         OnTarget(target, s), NEW i \in 1 .. Len(parts), parts[i] # Up,
         Len(target) = Len(s.at) + ((Len(parts) - i) + 1), target[Len(s.at) + 1] = parts[i]
  PROVE  Lands(target, parts, s, i)
<1> DEFINE L == Len(s.at)
           part == parts[i]
           names == NamesIn(s.at)
           next == WalkTo(parts, s, i)
           n == Len(parts)
           near == {m \in names : Fold(m) = Fold(part)}
           nearer == {m \in names : Fold(m) \in Completed(Fold(part))}
           exact == Completed(part) \cap names # {}
<1> SUFFICES IF next.over THEN Verdict(target, next.hits)
             ELSE i # n /\ OnTarget(target, next) /\ Len(next.at) = L + 1
  BY DEF Lands
<1>0. L \in Nat /\ n \in Nat /\ i \in Nat /\ i <= n /\ Len(target) = L + ((n - i) + 1)
  BY LenProperties DEF OnTarget
<1>1. /\ L < Len(target) /\ (i = n <=> Len(target) = L + 1)
      /\ i # n => L + 1 \in 1 .. Len(target) - 1
  <2> DEFINE z == Len(target)
  <2> HIDE DEF L, n, z
  <2>0. L \in Nat /\ n \in Nat /\ i \in Nat /\ i <= n /\ z = L + ((n - i) + 1)
    BY <1>0 DEF z
  <2>1. L < z
    BY <2>0
  <2>2. i = n <=> z = L + 1
    BY <2>0
  <2>3. ASSUME i # n PROVE L + 1 \in 1 .. z - 1
    BY <2>0, <2>3
  <2>. QED BY <2>1, <2>2, <2>3 DEF z
<1>2. part \in Name /\ target[L + 1] = part /\ s.at \in Seq(Name)
  BY ElementOfSeq DEF OnTarget
<1>3. \A hits : Stopped(hits).over /\ Stopped(hits).hits = hits
  BY DEF Stopped
<1>4. /\ i # n /\ part \in names => next = [s EXCEPT !.at = Append(s.at, part)]
      /\ i # n /\ part \notin names => next = Stopped(near)
      /\ i = n /\ exact => next = Stopped({})
      /\ i = n /\ ~exact => next = Stopped(nearer)
  <2>1. WalksOn(parts, s, i)
    BY WalkGoes
  <2>. QED BY <2>1 DEF WalksOn
<1>5. \A e \in Entries : ExactHit(target, e) => e[L + 1] \in names
  BY <1>1, ExactIsBelow
<1>6. Portable => \A e \in Entries : FoldedHit(target, e) => e[L + 1] \in names
  BY <1>1, FoldedIsBelow
<1>7. CASE i # n /\ part \in names
  <2>1. next = [s EXCEPT !.at = Append(s.at, part)]
    BY <1>4, <1>7
  <2>2. next.at = Append(s.at, part) /\ next.over = s.over /\ next.hits = s.hits
    BY <2>1 DEF Walks
  <2>3. /\ next.at \in Seq(Name) /\ Len(next.at) = L + 1 /\ next.at[L + 1] = part
        /\ \A j \in 1 .. L : next.at[j] = s.at[j]
    BY <1>2, <2>2, AppendProperties
  <2>4. next.at \in Entries
    BY <1>2, <1>7, <2>2, NamedIsEntry
  <2> HIDE DEF next, L, part, n
  <2>5. \A j \in 1 .. L + 1 : j \in 1 .. L \/ j = L + 1
    BY <1>0
  <2>6. \A j \in 1 .. L : s.at[j] = target[j]
    BY DEF OnTarget, L
  <2>7. \A j \in 1 .. L + 1 : next.at[j] = target[j]
    BY <1>2, <2>3, <2>5, <2>6
  <2>8. s.hits = {}
    BY DEF OnTarget
  <2>9. Len(next.at) \in Nat
    BY <1>0, <2>3
  <2>10. OnTarget(target, next)
    BY <2>2, <2>3, <2>4, <2>7, <2>8, <2>9 DEF OnTarget, Anchored
  <2>. QED BY <1>7, <2>2, <2>3, <2>10 DEF next, L, n
<1>8. CASE i # n /\ part \notin names
  <2>1. next.over /\ next.hits = near
    BY <1>3, <1>4, <1>8
  <2>2. L + 1 \in 1 .. Len(target) - 1
    BY <1>1, <1>8
  <2>3. ~(\E e \in Entries : ExactHit(target, e))
    <3>1. ASSUME NEW e \in Entries, ExactHit(target, e) PROVE FALSE
      <4>1. e[L + 1] \in names
        BY <1>5, <3>1
      <4>2. e[L + 1] = target[L + 1]
        BY <2>2, <3>1 DEF ExactHit
      <4>. QED BY <1>2, <1>8, <4>1, <4>2
    <3>. QED BY <3>1
  <2>4. ASSUME Portable, NEW e \in Entries, FoldedHit(target, e) PROVE near # {}
    <3>1. e[L + 1] \in names
      BY <1>6, <2>4
    <3>2. Fold(e[L + 1]) = Fold(target[L + 1])
      BY <2>2, <2>4 DEF FoldedHit
    <3>. QED BY <1>2, <3>1, <3>2
  <2>5. Verdict(target, near)
    BY <2>3, <2>4 DEF Verdict
  <2>. QED BY <2>1, <2>5
<1>9. CASE i = n /\ exact
  <2>1. next.over /\ next.hits = {}
    BY <1>3, <1>4, <1>9
  <2>2. PICK name \in names : name \in Completed(part)
    BY <1>9
  <2>3. Len(target) = L + 1 /\ target[Len(target)] = part
    BY <1>1, <1>2, <1>9
  <2>4. \E e \in Entries : ExactHit(target, e)
    BY <2>2, <2>3, FoundIsExact
  <2>5. Verdict(target, {})
    BY <2>4 DEF Verdict
  <2>. QED BY <2>1, <2>5
<1>10. CASE i = n /\ ~exact
  <2>1. next.over /\ next.hits = nearer
    BY <1>3, <1>4, <1>10
  <2>2. Len(target) = L + 1 /\ target[Len(target)] = part
    BY <1>1, <1>2, <1>10
  <2>3. ~(\E e \in Entries : ExactHit(target, e))
    <3>1. ASSUME NEW e \in Entries, ExactHit(target, e) PROVE FALSE
      <4>1. e[L + 1] \in names
        BY <1>5, <3>1
      <4>2. e[L + 1] \in Completed(part)
        BY <2>2, <3>1 DEF ExactHit
      <4>. QED BY <1>10, <4>1, <4>2
    <3>. QED BY <3>1
  <2>4. ASSUME Portable, NEW e \in Entries, FoldedHit(target, e) PROVE nearer # {}
    <3>1. e[L + 1] \in names
      BY <1>6, <2>4
    <3>2. PICK last \in Completed(part) : Fold(e[L + 1]) = Fold(last)
      BY <2>2, <2>4 DEF FoldedHit
    <3>3. Fold(last) \in Completed(Fold(part))
      <4>1. CASE last = part
        BY <4>1 DEF Completed
      <4>2. CASE last # part
        <5>1. PICK ext \in ImportExt : last = [part EXCEPT !.ext = ext] /\ part.ext = ""
          BY <3>2, <4>2 DEF Completed
        <5>2. Fold(last) = [Fold(part) EXCEPT !.ext = ext] /\ Fold(part).ext = ""
          BY <1>2, <5>1 DEF Fold, Name
        <5>. QED BY <5>1, <5>2 DEF Completed
      <4>. QED BY <4>1, <4>2
    <3>. QED BY <3>1, <3>2, <3>3
  <2>5. Verdict(target, nearer)
    BY <2>3, <2>4 DEF Verdict
  <2>. QED BY <2>1, <2>5
<1>. QED BY <1>7, <1>8, <1>9, <1>10

\* What the folder of a source is.
LEMMA BaseIs ==
  ASSUME FilesAreNamed, NEW source \in tree, NEW spec
  PROVE  LET base == Base(source, spec)
         IN  /\ base \in Seq(Name) /\ Len(base) \in Nat /\ WalksFrom(source, spec) = base
             /\ \A at \in Seq(Name) :
                   Len(at) <= Len(base) /\ (\A j \in 1 .. Len(at) : at[j] = base[j]) => Anchored(at)
<1> DEFINE base == Base(source, spec)
<1>1. source \in Seq(Name) /\ source # <<>>
  BY DEF FilesAreNamed
<1>2. /\ Front(source) \in Seq(Name) /\ Len(source) \in Nat \ {0} /\ Len(Front(source)) = Len(source) - 1
      /\ \A k \in 1 .. Len(source) - 1 : Front(source)[k] = source[k]
  BY <1>1, FrontIsShorter
<1>3. base \in Seq(Name) /\ WalksFrom(source, spec) = base
  BY <1>2, EmptySeq DEF Base, WalksFrom
<1>4. Len(base) \in Nat
  BY <1>3, LenProperties
<1>5. ASSUME NEW at \in Seq(Name), Len(at) <= Len(base), \A j \in 1 .. Len(at) : at[j] = base[j], at # <<>>
      PROVE  at \in Entries
  <2>1. Len(at) \in Nat /\ Len(at) # 0
    BY <1>5, LenProperties, EmptySeq
  <2>2. ~spec.alias
    <3>1. Len(base) # 0
      BY <1>4, <1>5, <2>1
    <3>2. base # <<>>
      BY <3>1
    <3>. QED BY <3>2 DEF Base
  <2>3. base = Front(source)
    BY <2>2 DEF Base
  <2> HIDE DEF base
  <2>4. Len(at) \in 1 .. Len(source) /\ Len(at) \in 0 .. Len(source) /\ 1 .. Len(at) \subseteq 1 .. Len(source) - 1
    BY <1>2, <1>5, <2>1, <2>3
  <2>5. /\ SubSeq(source, 1, Len(at)) \in Seq(Name) /\ Len(SubSeq(source, 1, Len(at))) = Len(at)
        /\ \A j \in 1 .. Len(at) : SubSeq(source, 1, Len(at))[j] = source[j]
    BY <1>1, <2>4, PrefixOfSeq
  <2>6. \A j \in 1 .. Len(at) : at[j] = SubSeq(source, 1, Len(at))[j]
    BY <1>2, <1>5, <2>3, <2>4, <2>5
  <2>7. at = SubSeq(source, 1, Len(at))
    BY <2>5, <2>6, SameElements
  <2>8. SubSeq(source, 1, Len(at)) \in Entries
    BY <2>4 DEF Entries
  <2>. QED BY <2>7, <2>8
<1>. QED BY <1>3, <1>4, <1>5 DEF Anchored

\* The walk climbs as far as the specifier does.
IsWalk(parts, base, F) ==
    /\ F \in [0 .. Len(parts) -> Walks] /\ F[0] = [at |-> base, over |-> FALSE, hits |-> {}]
    /\ \A k \in 1 .. Len(parts) : F[k] = WalkTo(parts, F[k - 1], k)
IsAbove(base, u, s) ==
    /\ ~s.over /\ s.hits = {} /\ s.at \in Seq(Name) /\ Len(s.at) = Len(base) - u
    /\ \A j \in 1 .. Len(base) - u : s.at[j] = base[j]

LEMMA WalkClimbs ==
  ASSUME FilesAreNamed, NEW parts \in Seq(Name), NEW base \in Seq(Name), NEW F, IsWalk(parts, base, F),
         NEW u \in 0 .. Len(parts) - 1, u <= Len(base), \A i \in DOMAIN parts : parts[i] = Up <=> i <= u
  PROVE  IsAbove(base, u, F[u])
<1>. /\ F \in [0 .. Len(parts) -> Walks] /\ F[0] = [at |-> base, over |-> FALSE, hits |-> {}]
    /\ \A k \in 1 .. Len(parts) : F[k] = WalkTo(parts, F[k - 1], k)
  BY DEF IsWalk
<1> DEFINE n == Len(parts)
           m == Len(base)
           Climbed == {k \in 0 .. u :
                         /\ ~F[k].over /\ F[k].hits = {} /\ F[k].at \in Seq(Name) /\ Len(F[k].at) = m - k
                         /\ \A j \in 1 .. m - k : F[k].at[j] = base[j]}
<1>0. n \in Nat /\ m \in Nat /\ DOMAIN parts = 1 .. n
  BY LenProperties
<1> HIDE DEF n, m
<1>1. u \in Nat /\ u <= m /\ u < n
  <2>1. u \in 0 .. n - 1 /\ u <= m
    BY DEF n, m
  <2>. QED BY <1>0, <2>1
<1>2. 0 \in Climbed
  <2>1. F[0].at = base /\ F[0].over = FALSE /\ F[0].hits = {}
    OBVIOUS
  <2>2. m - 0 = m /\ 0 \in 0 .. u
    BY <1>0, <1>1
  <2>. QED BY <2>1, <2>2 DEF m
<1>3. ASSUME NEW k \in 0 .. u - 1, k \in Climbed PROVE k + 1 \in Climbed
  <2>1. /\ k + 1 \in 1 .. n /\ (k + 1) - 1 = k /\ k + 1 <= u /\ k \in 0 .. n /\ k + 1 \in 0 .. u /\ k \in Nat
        /\ k + 1 \in 1 .. Len(parts)
    BY <1>0, <1>1 DEF n
  <2>2. F[k] \in Walks
    BY <2>1 DEF n
  <2>3. /\ ~F[k].over /\ F[k].hits = {} /\ F[k].at \in Seq(Name) /\ Len(F[k].at) = m - k
        /\ \A j \in 1 .. m - k : F[k].at[j] = base[j]
    BY <1>3
  <2>4. F[k].at # <<>>
    <3>1. Len(F[k].at) # 0
      BY <1>0, <1>1, <2>1, <2>3
    <3>. QED BY <2>3, <3>1, EmptySeq
  <2>5. F[k + 1] = [F[k] EXCEPT !.at = Front(F[k].at)]
    <3>1. parts[k + 1] = Up
      BY <1>0, <2>1
    <3>2. WalksOn(parts, F[k], k + 1)
      BY <2>2, <2>3, WalkGoes
    <3>3. WalkTo(parts, F[k], k + 1) = [F[k] EXCEPT !.at = Front(F[k].at)]
      BY <2>4, <3>1, <3>2 DEF WalksOn
    <3>. QED BY <2>1, <3>3
  <2>6. F[k + 1].at = Front(F[k].at) /\ F[k + 1].over = F[k].over /\ F[k + 1].hits = F[k].hits
    BY <2>2, <2>5 DEF Walks
  <2>7. /\ Front(F[k].at) \in Seq(Name) /\ Len(Front(F[k].at)) = Len(F[k].at) - 1
        /\ \A j \in 1 .. Len(F[k].at) - 1 : Front(F[k].at)[j] = F[k].at[j]
    BY <2>3, <2>4, FrontIsShorter
  <2>8. Len(F[k].at) - 1 = m - (k + 1) /\ 1 .. m - (k + 1) \subseteq 1 .. m - k
    BY <1>0, <2>1, <2>3
  <2>9. Len(F[k + 1].at) = m - (k + 1) /\ \A j \in 1 .. m - (k + 1) : F[k + 1].at[j] = base[j]
    BY <2>3, <2>6, <2>7, <2>8
  <2>. QED BY <2>1, <2>3, <2>6, <2>7, <2>9
<1> HIDE DEF Climbed
<1>4. u \in Climbed
  <2>1. \A k \in 0 .. u : k \in Climbed
    BY <1>1, <1>2, <1>3, InductionUpTo
  <2>. QED BY <1>1, <2>1
<1>. QED BY <1>4 DEF Climbed, m, IsAbove

\* An import is left in peace, or reported, as its target says.
LEMMA ImportIsJudged ==
  ASSUME FilesAreNamed, NEW source \in tree, NEW spec, spec.parts \in Seq(Name), ClimbsFirst(spec.parts),
         ~LeavesTheApp(source, spec)
  PROVE  /\ Target(source, spec) \in Seq(Name) /\ Target(source, spec) # <<>>
         /\ Verdict(Target(source, spec), MiscasedImport(source, spec))
<1> DEFINE parts == spec.parts
           n == Len(parts)
           base == Base(source, spec)
           target == Target(source, spec)
<1>1. /\ base \in Seq(Name) /\ Len(base) \in Nat /\ WalksFrom(source, spec) = base
      /\ \A at \in Seq(Name) :
            Len(at) <= Len(base) /\ (\A j \in 1 .. Len(at) : at[j] = base[j]) => Anchored(at)
  BY BaseIs
<1>2. PICK u \in 0 .. n - 1 :
         /\ \A i \in DOMAIN parts : parts[i] = Up <=> i <= u
         /\ Cardinality({i \in DOMAIN parts : parts[i] = Up}) = u
  BY Climbs
<1>0. n \in Nat /\ u \in Nat /\ u < n /\ DOMAIN parts = 1 .. n
  BY LenProperties
<1>3. u <= Len(base)
  BY <1>0, <1>1, <1>2 DEF LeavesTheApp
<1> DEFINE above == Len(base) - u
           below == n - u
<1>4. /\ target \in Seq(Name) /\ Len(target) = above + below /\ above \in Nat /\ below \in Nat \ {0}
      /\ \A j \in 1 .. above : target[j] = base[j]
      /\ \A j \in 1 .. below : target[above + j] = parts[u + j]
  <2>1. TargetClimbs(source, spec, u)
    BY <1>1, <1>2, <1>3, TargetIs
  <2>. QED BY <2>1 DEF TargetClimbs
<1>5. PICK F \in [0 .. n -> Walks] :
         /\ F[0] = [at |-> base, over |-> FALSE, hits |-> {}]
         /\ F[n].hits = MiscasedImport(source, spec)
         /\ \A k \in 1 .. n : F[k] = WalkTo(parts, F[k - 1], k)
  <2>1. WalksFrom(source, spec) \in Seq(Name)
    BY <1>1
  <2>2. \E F \in [0 .. Len(spec.parts) -> Walks] :
            /\ F[0] = [at |-> WalksFrom(source, spec), over |-> FALSE, hits |-> {}]
            /\ F[Len(spec.parts)].hits = MiscasedImport(source, spec)
            /\ \A k \in 1 .. Len(spec.parts) : F[k] = WalkTo(spec.parts, F[k - 1], k)
    BY <2>1, WalkRow
  <2>. QED BY <1>1, <2>2
<1>6. /\ ~F[u].over /\ F[u].hits = {} /\ F[u].at \in Seq(Name) /\ Len(F[u].at) = above
      /\ \A j \in 1 .. above : F[u].at[j] = base[j]
  <2>1. parts \in Seq(Name) /\ base \in Seq(Name) /\ u \in 0 .. Len(parts) - 1 /\ u <= Len(base)
    BY <1>1, <1>3
  <2>2. IsWalk(parts, base, F) /\ \A i \in DOMAIN parts : parts[i] = Up <=> i <= u
    BY <1>2, <1>5 DEF IsWalk
  <2> HIDE DEF parts, base, target, n
  <2>3. IsAbove(base, u, F[u])
    BY <2>1, <2>2, WalkClimbs, Zenon
  <2>. QED BY <2>3 DEF IsAbove
<1>7. parts \in Seq(Name) /\ below = n - u /\ above <= Len(base)
  BY <1>0, <1>1
<1> HIDE DEF parts, n, base, target, above, below
<1> DEFINE Going(s, k) == IF s.over THEN Verdict(target, s.hits)
                          ELSE k < below /\ OnTarget(target, s) /\ Len(s.at) = above + k
           Descended == {k \in 0 .. below : Going(F[u + k], k)}
<1>8. 0 \in Descended
  <2>1. u + 0 = u /\ above + 0 = above /\ 0 < below /\ 0 \in 0 .. below
    BY <1>0, <1>4
  <2>2. Anchored(F[u].at)
    BY <1>1, <1>6, <1>7
  <2>3. OnTarget(target, F[u])
    BY <1>4, <1>6, <2>2 DEF OnTarget
  <2>. QED BY <1>6, <2>1, <2>3
<1>9. ASSUME NEW k \in 0 .. below - 1, k \in Descended PROVE k + 1 \in Descended
  <2> DEFINE i == u + (k + 1)
             s == F[u + k]
             next == WalkTo(parts, s, i)
  <2>1. /\ k \in Nat /\ i \in 1 .. n /\ i - 1 = u + k /\ ~(i <= u) /\ u + k \in 0 .. n /\ k + 1 \in 0 .. below
        /\ k + 1 \in 1 .. below
    <3>1. u \in Nat /\ n \in Nat /\ u < n /\ k \in 0 .. (n - u) - 1
      BY <1>0, <1>7, Zenon
    <3>2. below = n - u
      BY <1>7
    <3> HIDE DEF s, next
    <3>. QED BY <3>1, <3>2, OneFurther, Zenon
  <2>2. F[i] = next /\ s \in Walks /\ Going(s, k)
    BY <1>5, <1>9, <2>1
  <2>3. parts[i] # Up /\ i \in 1 .. Len(parts)
    BY <1>0, <1>2, <2>1 DEF n
  <2> HIDE DEF s, next
  <2>4. CASE s.over
    <3>1. next = s
      BY <2>4 DEF next, WalkTo
    <3>. QED BY <2>1, <2>2, <2>4, <3>1
  <2>5. CASE ~s.over
    <3>1. OnTarget(target, s) /\ Len(s.at) = above + k
      BY <2>2, <2>5
    <3>2. Len(target) = Len(s.at) + ((Len(parts) - i) + 1)
      <4>1. Len(target) = above + (n - u) /\ Len(s.at) = above + k /\ above \in Nat
        BY <1>4, <1>7, <3>1
      <4>. QED BY <1>0, <2>1, <4>1 DEF n
    <3>3. target[Len(s.at) + 1] = parts[i]
      <4>1. Len(s.at) + 1 = above + (k + 1)
        BY <1>4, <2>1, <3>1
      <4>. QED BY <1>4, <2>1, <4>1
    <3> HIDE DEF i
    <3>4. IF next.over THEN Verdict(target, next.hits)
          ELSE i # Len(parts) /\ OnTarget(target, next) /\ Len(next.at) = Len(s.at) + 1
      <4>1. target \in Seq(Name) /\ s \in Walks /\ ~s.over
        BY <1>4, <2>2, <2>5
      <4>2. Lands(target, parts, s, i)
        BY <1>7, <2>3, <3>1, <3>2, <3>3, <4>1, OneDown
      <4>. QED BY <4>2 DEF Lands, next
    <3>5. i # n => k + 1 < below
      BY <1>0, <1>7, <2>1 DEF i
    <3>6. Len(s.at) + 1 = above + (k + 1)
      BY <1>4, <2>1, <3>1
    <3>7. Going(next, k + 1)
      BY <3>4, <3>5, <3>6 DEF n
    <3>. QED BY <2>1, <2>2, <3>7 DEF i
  <2>. QED BY <2>4, <2>5
<1> HIDE DEF Descended, Going
<1>10. below \in Descended
  <2>1. \A k \in 0 .. below - 1 : k \in Descended => k + 1 \in Descended
    BY <1>9
  <2>2. \A k \in 0 .. below : k \in Descended
    BY <1>4, <1>8, <2>1, InductionUpTo
  <2>. QED BY <1>4, <2>2
<1>11. Verdict(target, F[n].hits)
  <2>1. u + below = n /\ ~(below < below)
    BY <1>0, <1>4, <1>7
  <2>2. Going(F[n], below)
    BY <1>10, <2>1 DEF Descended
  <2>. QED BY <2>1, <2>2 DEF Going
<1>12. target # <<>>
  <2>1. Len(target) # 0
    BY <1>4
  <2>. QED BY <2>1
<1>. QED BY <1>4, <1>5, <1>11, <1>12 DEF target

-----------------------------------------------------------------------------
\* A specifier climbs before it descends. Of `./lib/../app` the walk asks that
\* lib be there, and a resolver that takes the two away does not: nothing is
\* said of those here.
SpecsClimbFirst == \A spec \in Specs : ClimbsFirst(spec.parts)

SourcesInv ==
    /\ tree \subseteq Paths
    /\ imports \subseteq [source : Paths, spec : Specs] /\ links \subseteq [source : Paths, url : Urls]
    /\ \A i \in imports : i.source \in tree /\ Last(i.source).ext \in CodeExt

LEMMA NamedFiles == SourcesInv => FilesAreNamed
  BY SourceChecksAssumption DEF SourcesInv, FilesAreNamed

LEMMA SameExtension ==
  ASSUME NEW p \in Paths, NEW q \in Paths, FoldPath(p) = FoldPath(q)
  PROVE  Last(p).ext = Last(q).ext
<1>1. p \in Seq(Name) /\ q \in Seq(Name) /\ p # <<>>
  BY SourceChecksAssumption
<1>2. Len(p) \in Nat /\ Len(q) \in Nat /\ DOMAIN p = 1 .. Len(p) /\ DOMAIN q = 1 .. Len(q) /\ Len(p) # 0
  BY <1>1, LenProperties, EmptySeq
<1>3. DOMAIN p = DOMAIN q /\ \A i \in DOMAIN p : Fold(p[i]) = Fold(q[i])
  BY DEF FoldPath
<1>4. Len(p) = Len(q)
  <2>1. \A m, n \in Nat : m < n => n \in 1 .. n /\ n \notin 1 .. m
    OBVIOUS
  <2>2. ~(Len(p) < Len(q)) /\ ~(Len(q) < Len(p))
    BY <1>2, <1>3, <2>1
  <2>3. Len(p) \in Nat /\ Len(q) \in Nat
    BY <1>2
  <2>. QED BY <2>2, <2>3
<1>5. Len(p) \in 1 .. Len(p)
  BY <1>2
<1>6. p[Len(p)] \in Name /\ q[Len(p)] \in Name
  BY <1>1, <1>4, <1>5, ElementOfSeq
<1>7. \A name \in Name : Fold(name).ext = name.ext
  BY DEF Fold, Name
<1>8. Fold(p[Len(p)]) = Fold(q[Len(p)])
  BY <1>2, <1>3, <1>5
<1>9. p[Len(p)].ext = q[Len(p)].ext
  BY <1>6, <1>7, <1>8
<1>. QED BY <1>4, <1>9 DEF Last

LEMMA SourcesStep ==
  ASSUME SourcesInv, [SourceChecksNext]_checksVars PROVE SourcesInv'
<1>1. ASSUME UNCHANGED <<tree, imports, links>> PROVE SourcesInv'
  BY <1>1 DEF SourcesInv
<1>2. ASSUME NEW p \in Paths, WritesFile(p) PROVE SourcesInv'
  BY <1>2 DEF WritesFile, SourcesInv
<1>3. ASSUME NEW p \in Paths, NEW q \in Paths, Respells(p, q) PROVE SourcesInv'
  <2>1. /\ tree' = (tree \ {p}) \cup {q}
        /\ imports' = {[i EXCEPT !.source = IF @ = p THEN q ELSE @] : i \in imports}
        /\ links' = {[l EXCEPT !.source = IF @ = p THEN q ELSE @] : l \in links}
        /\ FoldPath(p) = FoldPath(q)
    BY <1>3 DEF Respells
  <2>2. ASSUME NEW i \in imports
        PROVE  LET moved == [i EXCEPT !.source = IF @ = p THEN q ELSE @]
               IN  /\ moved \in [source : Paths, spec : Specs]
                   /\ moved.source \in tree' /\ Last(moved.source).ext \in CodeExt
    <3> DEFINE moved == [i EXCEPT !.source = IF @ = p THEN q ELSE @]
    <3>1. i \in [source : Paths, spec : Specs] /\ i.source \in tree /\ Last(i.source).ext \in CodeExt
      BY DEF SourcesInv
    <3>2. moved \in [source : Paths, spec : Specs] /\ moved.source = IF i.source = p THEN q ELSE i.source
      BY <3>1
    <3>3. moved.source \in tree'
      BY <2>1, <3>1, <3>2
    <3>4. Last(moved.source).ext \in CodeExt
      <4>1. CASE i.source = p
        BY <2>1, <3>1, <3>2, <4>1, SameExtension
      <4>2. CASE i.source # p
        BY <3>1, <3>2, <4>2
      <4>. QED BY <4>1, <4>2
    <3>. QED BY <3>2, <3>3, <3>4
  <2>3. \A j \in imports' : /\ j \in [source : Paths, spec : Specs]
                            /\ j.source \in tree' /\ Last(j.source).ext \in CodeExt
    BY <2>1, <2>2
  <2>4. \A l \in links' : l \in [source : Paths, url : Urls]
    <3>1. ASSUME NEW l \in links
          PROVE  [l EXCEPT !.source = IF @ = p THEN q ELSE @] \in [source : Paths, url : Urls]
      BY DEF SourcesInv
    <3>. QED BY <2>1, <3>1
  <2>5. tree' \subseteq Paths
    BY <2>1 DEF SourcesInv
  <2>. QED BY <2>3, <2>4, <2>5 DEF SourcesInv
<1>4. ASSUME NEW source \in Paths, NEW spec \in Specs, Imports(source, spec) PROVE SourcesInv'
  <2>1. /\ imports' = imports \cup {[source |-> source, spec |-> spec]} /\ UNCHANGED <<tree, links>>
        /\ source \in tree /\ Last(source).ext \in CodeExt
    BY <1>4 DEF Imports
  <2>. QED BY <2>1 DEF SourcesInv
<1>5. ASSUME NEW source \in Paths, NEW url \in Urls, Links(source, url) PROVE SourcesInv'
  <2>1. links' = links \cup {[source |-> source, url |-> url]} /\ UNCHANGED <<tree, imports>>
    BY <1>5 DEF Links
  <2>. QED BY <2>1 DEF SourcesInv
<1>6. ASSUME NEW kind, NEW url \in Urls, NamesBeside(kind, url) PROVE SourcesInv'
  BY <1>1, <1>6 DEF NamesBeside
<1>7. CASE Build \/ Start \/ Stop \/ UNCHANGED checksVars
  BY <1>1, <1>7 DEF Build, Start, Stop, checksVars
<1>. QED BY <1>2, <1>3, <1>4, <1>5, <1>6, <1>7 DEF SourceChecksNext

\* What is only folded into public/ is there under another case.
LEMMA LinksAreFolded ==
  ASSUME SourcesInv, NEW l \in CaseOnlyMismatches
  PROVE  \E p \in tree : FoldPath(p) = FoldPath(<<Public>> \o l.url)
<1>1. l.url \in Seq(Name)
  BY SourceChecksAssumption DEF CaseOnlyMismatches, CollectAssetRefs, SourcesInv
<1>2. PICK q \in tree : Len(q) > 1 /\ q[1] = Public /\ FoldPath(Tail(q)) = FoldPath(l.url)
  BY DEF CaseOnlyMismatches, PublicAssetUrls
<1> DEFINE url == l.url
           full == <<Public>> \o url
           rest == Tail(q)
<1>3. q \in Seq(Name) /\ q # <<>> /\ Public \in Name
  BY NamedFiles, SourceChecksAssumption DEF FilesAreNamed
<1>4. /\ rest \in Seq(Name) /\ Len(rest) = Len(q) - 1 /\ Len(q) \in Nat
      /\ \A k \in 1 .. Len(rest) : rest[k] = q[k + 1]
  BY <1>3, HeadTailProperties, LenProperties
<1>5. DOMAIN rest = DOMAIN url /\ \A k \in DOMAIN rest : Fold(rest[k]) = Fold(url[k])
  BY <1>2 DEF FoldPath
<1>6. DOMAIN rest = 1 .. Len(rest) /\ DOMAIN url = 1 .. Len(url) /\ Len(url) \in Nat /\ Len(rest) \in Nat
  BY <1>1, <1>4, LenProperties
<1>7. Len(rest) = Len(url)
  <2>1. \A m, n \in Nat : m < n => n \in 1 .. n /\ n \notin 1 .. m
    OBVIOUS
  <2>2. ~(Len(rest) < Len(url)) /\ ~(Len(url) < Len(rest))
    BY <1>5, <1>6, <2>1
  <2>. QED BY <1>6, <2>2
<1>8. /\ full \in Seq(Name) /\ Len(full) = 1 + Len(url) /\ full[1] = Public
      /\ \A k \in 1 .. Len(url) : full[k + 1] = url[k]
  <2>1. <<Public>> \in Seq(Name) /\ Len(<<Public>>) = 1 /\ <<Public>>[1] = Public
    BY <1>3
  <2>2. /\ full \in Seq(Name) /\ Len(full) = 1 + Len(url)
        /\ \A k \in 1 .. 1 + Len(url) : full[k] = IF k <= 1 THEN <<Public>>[k] ELSE url[k - 1]
    BY <1>1, <2>1, ConcatProperties
  <2> HIDE DEF full, url
  <2>3. full[1] = Public
    BY <1>6, <2>1, <2>2
  <2>4. ASSUME NEW k \in 1 .. Len(url) PROVE full[k + 1] = url[k]
    <3>1. k + 1 \in 1 .. 1 + Len(url) /\ ~(k + 1 <= 1) /\ (k + 1) - 1 = k
      BY <1>6
    <3>. QED BY <2>2, <3>1
  <2>. QED BY <2>2, <2>3, <2>4
<1> HIDE DEF full, url, rest
<1>9. DOMAIN q = 1 .. Len(q) /\ DOMAIN full = 1 .. Len(q)
  <2>1. Len(full) = Len(q)
    BY <1>4, <1>6, <1>7, <1>8
  <2>. QED BY <1>3, <1>8, <2>1, LenProperties
<1>10. ASSUME NEW k \in 1 .. Len(q) PROVE Fold(q[k]) = Fold(full[k])
  <2>1. CASE k = 1
    BY <1>2, <1>8, <2>1
  <2>2. CASE k # 1
    <3>1. k - 1 \in 1 .. Len(rest) /\ (k - 1) + 1 = k
      BY <1>4, <2>2
    <3>2. rest[k - 1] = q[k] /\ full[k] = url[k - 1]
      BY <1>4, <1>7, <1>8, <3>1
    <3>3. Fold(rest[k - 1]) = Fold(url[k - 1])
      BY <1>5, <1>6, <3>1
    <3>. QED BY <3>2, <3>3
  <2>. QED BY <2>1, <2>2
<1>11. FoldPath(q) = FoldPath(full)
  BY <1>9, <1>10 DEF FoldPath
<1>. QED BY <1>11 DEF full, url

LEMMA ReportsAreRight ==
  ASSUME SpecsClimbFirst, SourcesInv PROVE OnlyFoldingIsReported
<1>1. FilesAreNamed
  BY NamedFiles
<1>2. ASSUME NEW i \in imports, i.source \in WalkSources, ~LeavesTheApp(i.source, i.spec)
      PROVE  /\ Resolves(i, Exactly) => i \notin MiscasedImports
             /\ Portable /\ Resolves(i, Fold) /\ ~Resolves(i, Exactly) => i \in MiscasedImports
  <2> DEFINE target == Target(i.source, i.spec)
  <2>1. i.source \in tree /\ i.spec \in Specs /\ Last(i.source).ext \in CodeExt
    BY DEF SourcesInv
  <2>2. i.spec.parts \in Seq(Name) /\ ClimbsFirst(i.spec.parts)
    BY <2>1, SourceChecksAssumption DEF SpecsClimbFirst
  <2>3. target \in Seq(Name) /\ target # <<>> /\ Verdict(target, MiscasedImport(i.source, i.spec))
    BY <1>1, <1>2, <2>1, <2>2, ImportIsJudged
  <2>4. Resolves(i, Exactly) <=> \E e \in Entries : ExactHit(target, e)
    BY <1>1, <2>3, ExactResolves
  <2>5. Resolves(i, Fold) => \E e \in Entries : FoldedHit(target, e)
    BY <1>1, <2>3, FoldedResolves
  <2>6. i \in MiscasedImports <=> MiscasedImport(i.source, i.spec) # {}
    BY <1>2, <2>1 DEF MiscasedImports
  <2> HIDE DEF target
  <2>. QED BY <2>3, <2>4, <2>5, <2>6 DEF Verdict
<1>3. MiscasedConventions \cap {Head(p) : p \in tree} = {}
  <2>1. ASSUME NEW p \in tree PROVE Head(p) \in NamesIn(<<>>)
    <3>1. p \in Seq(Name) /\ Len(p) \in Nat /\ Len(p) > 0
      BY <1>1, LenProperties, EmptySeq DEF FilesAreNamed
    <3>2. SubSeq(p, 1, 0) = <<>> /\ Len(<<>>) = 0
      OBVIOUS
    <3>3. Head(p) = p[1]
      BY <3>1, HeadTailProperties
    <3>4. p \in {q \in tree : Len(q) > Len(<<>>) /\ SubSeq(q, 1, Len(<<>>)) = <<>>} /\ Len(<<>>) + 1 = 1
      BY <3>1, <3>2
    <3>. QED BY <3>3, <3>4 DEF NamesIn
  <2>. QED BY <2>1 DEF MiscasedConventions
<1>. QED BY <1>2, <1>3, LinksAreFolded DEF OnlyFoldingIsReported

\* Where every specifier climbs first, an import that resolves as it is spelled
\* is never reported, and one that resolves on a machine that folds and not on
\* one that does not is, wherever it starts; a link and a name borgo opens are
\* held to the same; and no site is served that asks for a file beside its
\* source (build.ts 386, 645).
THEOREM RefusalsHold == ASSUME SpecsClimbFirst PROVE SourceChecksSpec => []RefusalsAreRight
<1>1. SourceChecksInit => SourcesInv
  BY DEF SourceChecksInit, SourcesInv
<1>2. SourcesInv => OnlyFoldingIsReported
  BY ReportsAreRight
<1>. QED BY <1>1, <1>2, SourcesStep, RefusedStaysDown, PTL DEF SourceChecksSpec, RefusalsAreRight

-----------------------------------------------------------------------------
(* The props a tab has asked for ahead.  What is kept was asked for since   *)
(* the last post, and nobody has taken it or let it go.                     *)

Requests == [page : TabPages, body : {"flying", "open", "read", "failed"}, saw : Nat, posts : Nat,
             drained : BOOLEAN, taken : BOOLEAN]

Posts == [stage : {"none", "sent", "ran", "refused"}, to : TabPages, heard : BOOLEAN]

TabTyped ==
    /\ asked \in Seq(Requests) /\ posts \in Nat /\ world \in Nat
    /\ propsCache \subseteq DOMAIN asked /\ Cardinality(propsCache) <= PropsMax
    /\ post \in Posts

KeptIsUntouched ==
    /\ \A r, t \in propsCache : asked[r].page = asked[t].page => r = t
    /\ \A r \in propsCache : ~asked[r].taken /\ asked[r].body # "read" /\ asked[r].posts = posts

UnreadIsHeldOrGone ==
    \A r \in DOMAIN asked : asked[r].body # "read" =>
        (r \in propsCache \/ asked[r].taken <=> ~asked[r].drained)

UnderwayIsOfNow ==
    Underway => going.by \in DOMAIN asked \ propsCache /\ asked[going.by].posts = posts

TabInv == TabTyped /\ KeptIsUntouched /\ UnreadIsHeldOrGone /\ UnderwayIsOfNow

\* Letting go of some says so of those, and changes nothing else.
LEMMA DrainedAre ==
    ASSUME NEW q \in Seq(Requests), NEW gone
    PROVE  /\ Drained(q, gone) \in Seq(Requests) /\ DOMAIN Drained(q, gone) = DOMAIN q
           /\ Len(Drained(q, gone)) = Len(q)
           /\ \A r \in DOMAIN q :
                /\ Drained(q, gone)[r].page = q[r].page /\ Drained(q, gone)[r].body = q[r].body
                /\ Drained(q, gone)[r].posts = q[r].posts
                /\ Drained(q, gone)[r].taken <=> q[r].taken
                /\ Drained(q, gone)[r].drained <=> q[r].drained \/ r \in gone
  <1> DEFINE D == Drained(q, gone)
  <1>1. D = [r \in 1 .. Len(q) |-> IF r \in gone THEN [q[r] EXCEPT !.drained = TRUE] ELSE q[r]]
    BY LenProperties DEF Drained
  <1>2. ASSUME NEW r \in 1 .. Len(q)
        PROVE  /\ D[r] \in Requests
               /\ D[r].page = q[r].page /\ D[r].body = q[r].body /\ D[r].posts = q[r].posts
               /\ D[r].taken <=> q[r].taken
               /\ D[r].drained <=> q[r].drained \/ r \in gone
    <2>1. q[r] \in Requests
      BY ElementOfSeq
    <2>2. CASE r \notin gone
      BY <1>1, <2>1, <2>2
    <2>3. CASE r \in gone
      <3>1. PICK e : e = [q[r] EXCEPT !.drained = TRUE]
        OBVIOUS
      <3>2. D[r] = e
        BY <1>1, <2>3, <3>1
      <3>3. e \in Requests /\ e.drained
        BY <2>1, <3>1 DEF Requests
      <3>4. e.page = q[r].page /\ e.body = q[r].body /\ e.posts = q[r].posts /\ (e.taken <=> q[r].taken)
        BY <2>1, <3>1 DEF Requests
      <3>. QED BY <2>3, <3>2, <3>3, <3>4
    <2>. QED BY <2>2, <2>3
  <1>3. D \in Seq(Requests) /\ Len(D) = Len(q) /\ DOMAIN D = DOMAIN q
    <2>1. Len(q) \in Nat /\ DOMAIN q = 1 .. Len(q)
      BY LenProperties
    <2>2. D \in [1 .. Len(q) -> Requests]
      BY <1>1, <1>2
    <2>3. D \in Seq(Requests)
      BY <2>1, <2>2, SeqDef
    <2>. QED BY <2>1, <2>2, <2>3, LenProperties
  <1> HIDE DEF D
  <1>4. DOMAIN q = 1 .. Len(q)
    BY LenProperties
  <1>. QED BY <1>2, <1>3, <1>4 DEF D

\* A request of this moment, sent last.
LEMMA SentIsLast ==
    ASSUME NEW q \in Seq(Requests), NEW e \in Requests
    PROVE  /\ Append(q, e) \in Seq(Requests) /\ Len(Append(q, e)) = Len(q) + 1 /\ Len(q) \in Nat
           /\ DOMAIN Append(q, e) = DOMAIN q \cup {Len(q) + 1} /\ Len(q) + 1 \notin DOMAIN q
           /\ Append(q, e)[Len(q) + 1] = e
           /\ \A r \in DOMAIN q : Append(q, e)[r] = q[r]
  <1>1. /\ DOMAIN q = 1 .. Len(q) /\ Len(q) \in Nat
        /\ DOMAIN Append(q, e) = 1 .. Len(Append(q, e))
    BY LenProperties, AppendProperties
  <1>. QED BY <1>1, AppendProperties

LEMMA RequestIsOfNow ==
    ASSUME posts \in Nat, NEW page \in TabPages
    PROVE  /\ Request(page) \in Requests /\ Request(page).page = page /\ Request(page).posts = posts
           /\ Request(page).body = "flying" /\ ~Request(page).drained /\ ~Request(page).taken
  BY DEF Request, Requests

\* Of some requests, one was sent first.
LEMMA SentFirst ==
    ASSUME NEW T, T \subseteq Nat, T # {}
    PROVE  \E n \in T : \A m \in T : n <= m
  <1>1. PICK n \in T : \A m \in T : <<m, n>> \notin OpToRel(<, Nat)
    BY WFMin, NatLessThanWellFounded, Zenon
  <1>2. \A m \in T : ~(m < n)
    BY <1>1, Zenon DEF OpToRel
  <1>. QED BY <1>2

\* Of what is kept, as many as may be stay.
LEMMA TrimmedIsBounded ==
    ASSUME NEW kept, kept \subseteq Nat, IsFiniteSet(kept)
    PROVE  LastOf(kept) \subseteq kept /\ Cardinality(LastOf(kept)) <= PropsMax
  <1>1. LastOf(kept) \subseteq kept
    BY DEF LastOf
  <1>2. CASE LastOf(kept) = {}
    BY <1>2, FS_EmptySet, PropsCacheAssumption
  <1>3. CASE LastOf(kept) # {}
    <2>1. LastOf(kept) \subseteq Nat
      BY <1>1
    <2>2. PICK n \in LastOf(kept) : \A m \in LastOf(kept) : n <= m
      BY <1>3, <2>1, SentFirst
    <2>3. LastOf(kept) \subseteq {k \in kept : k >= n}
      BY <1>1, <2>1, <2>2
    <2>4. Cardinality({k \in kept : k >= n}) <= PropsMax
      BY <2>2 DEF LastOf
    <2>5. IsFiniteSet({k \in kept : k >= n})
      BY FS_Subset
    <2>6. /\ Cardinality(LastOf(kept)) <= Cardinality({k \in kept : k >= n})
          /\ Cardinality(LastOf(kept)) \in Nat /\ Cardinality({k \in kept : k >= n}) \in Nat
      BY <2>3, <2>5, FS_Subset, FS_CardinalityType
    <2>. QED BY <1>1, <2>4, <2>6, PropsCacheAssumption
  <1>. QED BY <1>1, <1>2, <1>3

\* What arrives, or does not, is neither kept nor dropped by it.
LEMMA BodyChanges ==
    ASSUME TabInv, NEW r \in DOMAIN asked, NEW to \in {"open", "failed", "read"}, asked[r].body # "read",
           NEW e, e.page = asked[r].page, e.posts = asked[r].posts, e.drained = asked[r].drained,
           e.taken = asked[r].taken, e.body = to, e \in Requests,
           asked' = [asked EXCEPT ![r] = e], UNCHANGED <<posts, propsCache>>,
           to = "read" => r \notin propsCache
    PROVE  /\ asked' \in Seq(Requests) /\ DOMAIN asked' = DOMAIN asked
           /\ \A k \in DOMAIN asked : asked'[k].posts = asked[k].posts
           /\ KeptIsUntouched' /\ UnreadIsHeldOrGone'
  <1>1. /\ asked' \in Seq(Requests) /\ DOMAIN asked' = DOMAIN asked
        /\ asked'[r] = e /\ \A k \in DOMAIN asked \ {r} : asked'[k] = asked[k]
    BY ExceptSeq DEF TabInv, TabTyped
  <1>2. \A k \in DOMAIN asked : asked'[k].posts = asked[k].posts /\ asked'[k].page = asked[k].page
    BY <1>1
  <1>3. propsCache \subseteq DOMAIN asked
    BY DEF TabInv, TabTyped
  <1>4. KeptIsUntouched'
    BY <1>1, <1>2, <1>3 DEF TabInv, KeptIsUntouched
  <1>5. UnreadIsHeldOrGone'
    BY <1>1 DEF TabInv, UnreadIsHeldOrGone
  <1>. QED BY <1>1, <1>2, <1>4, <1>5

LEMMA BodiesKeep ==
    ASSUME TabInv, NEW r \in DOMAIN asked, LoaderRuns(r) \/ FetchFails(r) PROVE TabInv'
  <1>1. asked[r] \in Requests /\ world \in Nat /\ asked[r].body = "flying"
    BY ElementOfSeq, LenProperties DEF TabInv, TabTyped, LoaderRuns, FetchFails
  <1>2. UNCHANGED <<posts, propsCache, going, post, world>>
    BY DEF LoaderRuns, FetchFails
  <1>4. /\ asked' \in Seq(Requests) /\ DOMAIN asked' = DOMAIN asked
        /\ \A k \in DOMAIN asked : asked'[k].posts = asked[k].posts
        /\ KeptIsUntouched' /\ UnreadIsHeldOrGone'
    <2>1. CASE LoaderRuns(r)
      <3>1. PICK e : e = [asked[r] EXCEPT !.body = "open", !.saw = world]
        OBVIOUS
      <3>2. asked' = [asked EXCEPT ![r] = e]
        BY <2>1, <3>1 DEF LoaderRuns
      <3>3. e \in Requests /\ e.page = asked[r].page /\ e.posts = asked[r].posts /\ e.body = "open"
        BY <1>1, <3>1 DEF Requests
      <3>4. e.drained = asked[r].drained /\ e.taken = asked[r].taken
        BY <1>1, <3>1 DEF Requests
      <3>. QED BY <1>1, <1>2, <3>2, <3>3, <3>4, BodyChanges
    <2>2. CASE FetchFails(r)
      <3>1. PICK e : e = [asked[r] EXCEPT !.body = "failed"]
        OBVIOUS
      <3>2. asked' = [asked EXCEPT ![r] = e]
        BY <2>2, <3>1 DEF FetchFails
      <3>3. e \in Requests /\ e.page = asked[r].page /\ e.posts = asked[r].posts /\ e.body = "failed"
        BY <1>1, <3>1 DEF Requests
      <3>4. e.drained = asked[r].drained /\ e.taken = asked[r].taken
        BY <1>1, <3>1 DEF Requests
      <3>. QED BY <1>1, <1>2, <3>2, <3>3, <3>4, BodyChanges
    <2>. QED BY <2>1, <2>2
  <1>5. TabTyped' /\ UnderwayIsOfNow'
    BY <1>2, <1>4 DEF TabInv, TabTyped, UnderwayIsOfNow, Underway
  <1>. QED BY <1>4, <1>5 DEF TabInv

\* What a navigation renders is of after the last post, and read.
LEMMA ArrivesKeeps ==
    ASSUME TabInv, Arrives
    PROVE  TabInv' /\ asked'[propsShown'].posts = posts
  <1> DEFINE r == going.by
  <1>1. /\ r \in DOMAIN asked /\ r \notin propsCache /\ asked[r].posts = posts
        /\ asked[r].body = "open" /\ going' = NotGoing /\ propsShown' = r
        /\ UNCHANGED <<posts, propsCache, post, world>>
        /\ asked' = [asked EXCEPT ![r].body = "read"]
    BY DEF TabInv, UnderwayIsOfNow, Arrives
  <1> HIDE DEF r
  <1>2. asked[r] \in Requests
    BY <1>1, ElementOfSeq, LenProperties DEF TabInv, TabTyped
  <1>3. PICK e : e = [asked[r] EXCEPT !.body = "read"]
    OBVIOUS
  <1>4. asked' = [asked EXCEPT ![r] = e]
    BY <1>1, <1>3
  <1>5. e \in Requests /\ e.page = asked[r].page /\ e.posts = asked[r].posts /\ e.body = "read"
    BY <1>2, <1>3 DEF Requests
  <1>6. e.drained = asked[r].drained /\ e.taken = asked[r].taken
    BY <1>2, <1>3 DEF Requests
  <1>7. /\ asked' \in Seq(Requests) /\ DOMAIN asked' = DOMAIN asked
        /\ \A k \in DOMAIN asked : asked'[k].posts = asked[k].posts
        /\ KeptIsUntouched' /\ UnreadIsHeldOrGone'
    BY <1>1, <1>4, <1>5, <1>6, BodyChanges
  <1>8. TabTyped' /\ UnderwayIsOfNow'
    BY <1>1, <1>7 DEF TabInv, TabTyped, UnderwayIsOfNow, Underway
  <1>. QED BY <1>1, <1>7, <1>8 DEF TabInv

\* A hover: what was kept for the page is let go of, and what is too much.
LEMMA PrefetchKeeps ==
    ASSUME TabInv, NEW page \in TabPages, Prefetch(page) PROVE TabInv'
  <1> DEFINE q == Drained(asked, CachedFor(page))
             new == Len(asked) + 1
             sent == Append(q, Request(page))
             kept == Without(page) \cup {new}
  <1>1. asked \in Seq(Requests) /\ posts \in Nat /\ propsCache \subseteq DOMAIN asked
    BY DEF TabInv, TabTyped
  <1>2. /\ q \in Seq(Requests) /\ DOMAIN q = DOMAIN asked /\ Len(q) = Len(asked)
        /\ \A r \in DOMAIN asked :
             /\ q[r].page = asked[r].page /\ q[r].body = asked[r].body /\ q[r].posts = asked[r].posts
             /\ q[r].taken <=> asked[r].taken
             /\ q[r].drained <=> asked[r].drained \/ r \in CachedFor(page)
    BY <1>1, DrainedAre
  <1> HIDE DEF q
  <1>3. /\ Request(page) \in Requests /\ Request(page).page = page /\ Request(page).posts = posts
        /\ Request(page).body = "flying" /\ ~Request(page).drained /\ ~Request(page).taken
    BY <1>1, RequestIsOfNow
  <1>4. /\ sent \in Seq(Requests) /\ Len(sent) = new /\ new \in Nat
        /\ DOMAIN sent = DOMAIN asked \cup {new} /\ new \notin DOMAIN asked
        /\ sent[new] = Request(page) /\ \A r \in DOMAIN asked : sent[r] = q[r]
    BY <1>2, <1>3, SentIsLast
  <1> HIDE DEF new
  <1>5. asked' = Drained(sent, kept \ LastOf(kept)) /\ propsCache' = LastOf(kept)
    BY <1>4 DEF Prefetch, TrimProps, q
  <1>6. UNCHANGED <<going, post, posts, world>>
    BY DEF Prefetch
  <1> HIDE DEF sent
  <1>7. /\ asked' \in Seq(Requests) /\ DOMAIN asked' = DOMAIN sent
        /\ \A r \in DOMAIN sent :
             /\ asked'[r].page = sent[r].page /\ asked'[r].body = sent[r].body /\ asked'[r].posts = sent[r].posts
             /\ asked'[r].taken <=> sent[r].taken
             /\ asked'[r].drained <=> sent[r].drained \/ r \in kept \ LastOf(kept)
    <2> DEFINE gone == kept \ LastOf(kept)
    <2> HIDE DEF gone
    <2>1. /\ Drained(sent, gone) \in Seq(Requests) /\ DOMAIN Drained(sent, gone) = DOMAIN sent
          /\ \A r \in DOMAIN sent :
               /\ Drained(sent, gone)[r].page = sent[r].page /\ Drained(sent, gone)[r].body = sent[r].body
               /\ Drained(sent, gone)[r].posts = sent[r].posts
               /\ Drained(sent, gone)[r].taken <=> sent[r].taken
               /\ Drained(sent, gone)[r].drained <=> sent[r].drained \/ r \in gone
      BY <1>4, DrainedAre
    <2>2. asked' = Drained(sent, gone)
      BY <1>5 DEF gone
    <2>3. /\ asked' \in Seq(Requests) /\ DOMAIN asked' = DOMAIN sent
          /\ \A r \in DOMAIN sent :
             /\ asked'[r].page = sent[r].page /\ asked'[r].body = sent[r].body /\ asked'[r].posts = sent[r].posts
             /\ asked'[r].taken <=> sent[r].taken
             /\ asked'[r].drained <=> sent[r].drained \/ r \in gone
      BY <2>1, <2>2
    <2>. QED BY <2>3 DEF gone
  <1>8. kept \subseteq DOMAIN sent /\ kept \subseteq Nat /\ IsFiniteSet(kept)
    <2>1. propsCache \subseteq 1 .. Len(asked) /\ Len(asked) \in Nat
      BY <1>1, LenProperties
    <2>2. IsFiniteSet(propsCache)
      <3>1. IsFiniteSet(1 .. Len(asked))
        BY <2>1, FS_Interval
      <3>. QED BY <2>1, <3>1, FS_Subset
    <2>3. IsFiniteSet(Without(page))
      BY <2>2, FS_Subset DEF Without
    <2>4. IsFiniteSet(kept)
      BY <2>3, FS_AddElement
    <2>. QED BY <1>1, <1>4, <2>1, <2>4 DEF Without
  <1>9. LastOf(kept) \subseteq kept /\ Cardinality(LastOf(kept)) <= PropsMax
    BY <1>8, TrimmedIsBounded
  <1>10. TabTyped'
    BY <1>5, <1>6, <1>7, <1>8, <1>9 DEF TabInv, TabTyped
  <1>11. \A r \in kept : r = new \/ (r \in propsCache /\ asked[r].page # page)
    BY <1>1 DEF Without, CachedFor
  <1>12. KeptIsUntouched'
    <2>1. ASSUME NEW r \in propsCache'
          PROVE  /\ ~asked'[r].taken /\ asked'[r].body # "read" /\ asked'[r].posts = posts
                 /\ r = new => asked'[r].page = page
                 /\ r # new => r \in propsCache /\ asked'[r].page = asked[r].page /\ asked[r].page # page
      <3>1. r \in kept /\ r \in DOMAIN sent
        BY <1>5, <1>8, <1>9
      <3>2. /\ asked'[r].page = sent[r].page /\ asked'[r].body = sent[r].body /\ asked'[r].posts = sent[r].posts
            /\ asked'[r].taken <=> sent[r].taken
        BY <1>7, <3>1
      <3>3. CASE r = new
        BY <1>3, <1>4, <3>2, <3>3
      <3>4. CASE r # new
        <4>1. r \in propsCache /\ asked[r].page # page /\ r \in DOMAIN asked
          BY <1>1, <1>11, <3>1, <3>4
        <4>2. /\ sent[r].page = asked[r].page /\ sent[r].body = asked[r].body /\ sent[r].posts = asked[r].posts
              /\ sent[r].taken <=> asked[r].taken
          BY <1>2, <1>4, <4>1
        <4>3. ~asked[r].taken /\ asked[r].body # "read" /\ asked[r].posts = posts
          BY <4>1 DEF TabInv, KeptIsUntouched
        <4>. QED BY <3>2, <3>4, <4>1, <4>2, <4>3
      <3>. QED BY <3>3, <3>4
    <2>. QED BY <1>6, <2>1 DEF TabInv, KeptIsUntouched
  <1>13. UnreadIsHeldOrGone'
    <2> SUFFICES ASSUME NEW r \in DOMAIN asked', asked'[r].body # "read"
                 PROVE  r \in propsCache' \/ asked'[r].taken <=> ~asked'[r].drained
      BY DEF UnreadIsHeldOrGone
    <2>1. CASE r = new
      BY <1>3, <1>4, <1>5, <1>7, <2>1
    <2>2. CASE r # new
      <3>1. r \in DOMAIN asked /\ asked[r].body # "read"
        BY <1>2, <1>4, <1>7, <2>2
      <3>2. r \in propsCache \/ asked[r].taken <=> ~asked[r].drained
        BY <3>1 DEF TabInv, UnreadIsHeldOrGone
      <3>3. asked'[r].taken <=> asked[r].taken
        BY <1>2, <1>4, <1>7, <3>1
      <3>4. asked'[r].drained <=> asked[r].drained \/ r \in CachedFor(page) \/ r \in kept \ LastOf(kept)
        BY <1>2, <1>4, <1>7, <3>1
      <3>5. r \in propsCache => ~asked[r].taken
        BY DEF TabInv, KeptIsUntouched
      <3>6. r \in propsCache <=> r \in CachedFor(page) \/ r \in kept
        BY <2>2 DEF Without, CachedFor
      <3>7. r \in kept => r \notin CachedFor(page)
        BY <1>11, <2>2 DEF CachedFor
      <3>. QED BY <1>5, <1>9, <3>2, <3>3, <3>4, <3>5, <3>6, <3>7
    <2>. QED BY <2>1, <2>2
  <1>14. UnderwayIsOfNow'
    <2> SUFFICES ASSUME Underway PROVE going.by \in DOMAIN asked' \ propsCache' /\ asked'[going.by].posts = posts
      BY <1>6 DEF UnderwayIsOfNow, Underway
    <2>1. going.by \in DOMAIN asked /\ going.by \notin propsCache /\ asked[going.by].posts = posts
      BY DEF TabInv, UnderwayIsOfNow
    <2>2. going.by \in DOMAIN sent /\ going.by \notin kept
      BY <1>4, <1>11, <2>1
    <2>3. asked'[going.by].posts = posts
      BY <1>2, <1>4, <1>7, <2>1, <2>2
    <2>. QED BY <1>5, <1>7, <1>9, <2>2, <2>3
  <1>. QED BY <1>10, <1>12, <1>13, <1>14 DEF TabInv

\* A click: the response kept for the page is taken, or one is sent for.
LEMMA TakesKeeps ==
    ASSUME TabInv, NEW page \in TabPages, Takes(page), propsCache' = Without(page), post' \in Posts,
           UNCHANGED <<posts, world>>
    PROVE  TabInv'
  <1>1. asked \in Seq(Requests) /\ posts \in Nat /\ propsCache \subseteq DOMAIN asked /\ DOMAIN asked = 1 .. Len(asked)
    BY LenProperties DEF TabInv, TabTyped
  <1>2. /\ propsCache' \subseteq propsCache
        /\ \A r \in propsCache : r \in CachedFor(page) <=> r \notin propsCache'
        /\ CachedFor(page) \subseteq propsCache
    BY DEF Without, CachedFor
  <1>3. Cardinality(propsCache') <= PropsMax
    <2>1. IsFiniteSet(1 .. Len(asked))
      BY <1>1, FS_Interval, LenProperties
    <2>2. IsFiniteSet(propsCache)
      BY <1>1, <2>1, FS_Subset
    <2>3. Cardinality(propsCache') <= Cardinality(propsCache)
      BY <1>2, <2>2, FS_Subset
    <2>4. Cardinality(propsCache') \in Nat /\ Cardinality(propsCache) \in Nat
      BY <1>2, <2>2, FS_Subset, FS_CardinalityType
    <2>. QED BY <2>3, <2>4, PropsCacheAssumption DEF TabInv, TabTyped
  <1>4. ASSUME NEW r \in Usable(page), asked' = [asked EXCEPT ![r].taken = TRUE],
               going' = [to |-> page, by |-> r, told |-> told']
        PROVE  TabInv'
    <2>1. r \in propsCache /\ r \in CachedFor(page) /\ r \notin propsCache' /\ r \in DOMAIN asked
          /\ asked[r].page = page
      BY <1>1, <1>2, <1>4 DEF Usable, CachedFor
    <2>2. ~asked[r].taken /\ asked[r].body # "read" /\ asked[r].posts = posts /\ asked[r] \in Requests
      BY <1>1, <2>1, ElementOfSeq DEF TabInv, KeptIsUntouched
    <2>3. PICK e : e = [asked[r] EXCEPT !.taken = TRUE]
      OBVIOUS
    <2>4. e \in Requests /\ e.taken /\ e.page = page /\ e.body = asked[r].body /\ e.posts = posts
      BY <2>1, <2>2, <2>3 DEF Requests
    <2>5. e.drained <=> asked[r].drained
      BY <2>2, <2>3 DEF Requests
    <2>6. asked' = [asked EXCEPT ![r] = e]
      BY <1>4, <2>3
    <2>7. /\ asked' \in Seq(Requests) /\ DOMAIN asked' = DOMAIN asked
          /\ asked'[r] = e /\ \A k \in DOMAIN asked \ {r} : asked'[k] = asked[k]
      BY <1>1, <2>1, <2>4, <2>6, ExceptSeq
    <2>8. TabTyped'
      BY <1>1, <1>2, <1>3, <2>7 DEF TabInv, TabTyped
    <2>9. KeptIsUntouched'
      BY <1>1, <1>2, <2>1, <2>7 DEF TabInv, KeptIsUntouched
    <2>10. UnreadIsHeldOrGone'
      <3> SUFFICES ASSUME NEW k \in DOMAIN asked, asked'[k].body # "read"
                   PROVE  k \in propsCache' \/ asked'[k].taken <=> ~asked'[k].drained
        BY <2>7 DEF UnreadIsHeldOrGone
      <3>1. CASE k = r
        <4>1. r \in propsCache \/ asked[r].taken <=> ~asked[r].drained
          BY <2>1, <2>2 DEF TabInv, UnreadIsHeldOrGone
        <4>. QED BY <2>1, <2>4, <2>5, <2>7, <3>1, <4>1
      <3>2. CASE k # r
        <4>1. asked'[k] = asked[k]
          BY <2>7, <3>2
        <4>2. k \in propsCache \/ asked[k].taken <=> ~asked[k].drained
          BY <4>1 DEF TabInv, UnreadIsHeldOrGone
        <4>3. k \in CachedFor(page) => k = r
          BY <2>1 DEF TabInv, KeptIsUntouched, CachedFor
        <4>4. k \in propsCache <=> k \in propsCache'
          BY <1>2, <3>2, <4>3
        <4>. QED BY <4>1, <4>2, <4>4
      <3>. QED BY <3>1, <3>2
    <2>11. UnderwayIsOfNow'
      BY <1>4, <2>1, <2>2, <2>4, <2>7 DEF UnderwayIsOfNow
    <2>. QED BY <2>8, <2>9, <2>10, <2>11 DEF TabInv
  <1>5. ASSUME asked' = Append(Drained(asked, CachedFor(page)), [Request(page) EXCEPT !.taken = TRUE]),
               going' = [to |-> page, by |-> Len(asked) + 1, told |-> told']
        PROVE  TabInv'
    <2> DEFINE q == Drained(asked, CachedFor(page))
               new == Len(asked) + 1
    <2>1. /\ q \in Seq(Requests) /\ DOMAIN q = DOMAIN asked /\ Len(q) = Len(asked)
          /\ \A r \in DOMAIN asked :
               /\ q[r].page = asked[r].page /\ q[r].body = asked[r].body /\ q[r].posts = asked[r].posts
               /\ q[r].taken <=> asked[r].taken
               /\ q[r].drained <=> asked[r].drained \/ r \in CachedFor(page)
      BY <1>1, DrainedAre
    <2> HIDE DEF q
    <2>2. PICK e : e = [Request(page) EXCEPT !.taken = TRUE]
      OBVIOUS
    <2>3. e \in Requests /\ e.taken /\ ~e.drained /\ e.posts = posts
      <3>1. PICK f : f = Request(page)
        OBVIOUS
      <3>2. f \in Requests /\ f.posts = posts /\ ~f.drained
        BY <1>1, <3>1, RequestIsOfNow
      <3>3. e = [f EXCEPT !.taken = TRUE]
        BY <2>2, <3>1
      <3>. QED BY <3>2, <3>3 DEF Requests
    <2>4. asked' = Append(q, e)
      BY <1>5, <2>2 DEF q
    <2>5. /\ asked' \in Seq(Requests) /\ DOMAIN asked' = DOMAIN asked \cup {new} /\ new \notin DOMAIN asked
          /\ asked'[new] = e /\ \A r \in DOMAIN asked : asked'[r] = q[r]
      BY <2>1, <2>3, <2>4, SentIsLast
    <2>6. going'.by = new
      BY <1>5
    <2> HIDE DEF new
    <2>7. TabTyped'
      BY <1>1, <1>2, <1>3, <2>5 DEF TabInv, TabTyped
    <2>8. KeptIsUntouched'
      BY <1>1, <1>2, <2>1, <2>5 DEF TabInv, KeptIsUntouched
    <2>9. UnreadIsHeldOrGone'
      <3> SUFFICES ASSUME NEW k \in DOMAIN asked', asked'[k].body # "read"
                   PROVE  k \in propsCache' \/ asked'[k].taken <=> ~asked'[k].drained
        BY DEF UnreadIsHeldOrGone
      <3>1. CASE k = new
        BY <2>3, <2>5, <3>1
      <3>2. CASE k # new
        <4>1. k \in DOMAIN asked /\ asked[k].body # "read"
          BY <2>1, <2>5, <3>2
        <4>2. asked'[k].taken <=> asked[k].taken
          BY <2>1, <2>5, <4>1
        <4>3. asked'[k].drained <=> asked[k].drained \/ k \in CachedFor(page)
          BY <2>1, <2>5, <4>1
        <4>4. k \in propsCache \/ asked[k].taken <=> ~asked[k].drained
          BY <4>1 DEF TabInv, UnreadIsHeldOrGone
        <4>5. k \in propsCache => ~asked[k].taken
          BY DEF TabInv, KeptIsUntouched
        <4>. QED BY <1>2, <4>2, <4>3, <4>4, <4>5
      <3>. QED BY <3>1, <3>2
    <2>10. UnderwayIsOfNow'
      BY <1>1, <1>2, <2>3, <2>5, <2>6 DEF UnderwayIsOfNow
    <2>. QED BY <2>7, <2>8, <2>9, <2>10 DEF TabInv
  <1>. QED BY <1>4, <1>5 DEF Takes

\* A post lets go of all that was asked for ahead of it.
LEMMA SubmitKeeps ==
    ASSUME TabInv, NEW page \in TabPages, Submit(page) PROVE TabInv'
  <1>1. asked \in Seq(Requests) /\ posts \in Nat
    BY DEF TabInv, TabTyped
  <1>2. /\ propsCache' = {} /\ asked' = Drained(asked, propsCache) /\ posts' = posts + 1
        /\ going' = NotGoing /\ world' = world /\ post' \in Posts
    <2>1. propsCache' = {} /\ propsCache \ propsCache' = propsCache
      BY DEF Submit, ClearProps
    <2>. QED BY <2>1 DEF Submit, Posts
  <1>3. /\ asked' \in Seq(Requests) /\ DOMAIN asked' = DOMAIN asked
        /\ \A r \in DOMAIN asked :
             /\ asked'[r].body = asked[r].body
             /\ asked'[r].taken <=> asked[r].taken
             /\ asked'[r].drained <=> asked[r].drained \/ r \in propsCache
    BY <1>1, <1>2, DrainedAre
  <1>4. Cardinality({}) = 0
    BY FS_EmptySet
  <1>5. TabTyped' /\ KeptIsUntouched' /\ UnderwayIsOfNow'
    BY <1>1, <1>2, <1>3, <1>4, PropsCacheAssumption
       DEF TabInv, TabTyped, KeptIsUntouched, UnderwayIsOfNow, Underway
  <1>6. UnreadIsHeldOrGone'
    <2> SUFFICES ASSUME NEW k \in DOMAIN asked, asked'[k].body # "read"
                 PROVE  asked'[k].taken <=> ~asked'[k].drained
      BY <1>2, <1>3 DEF UnreadIsHeldOrGone
    <2>1. k \in propsCache \/ asked[k].taken <=> ~asked[k].drained
      BY <1>3 DEF TabInv, UnreadIsHeldOrGone
    <2>2. k \in propsCache => ~asked[k].taken
      BY DEF TabInv, KeptIsUntouched
    <2>. QED BY <1>3, <2>1, <2>2
  <1>. QED BY <1>5, <1>6 DEF TabInv

\* What an action renders is read at once, and is of this post.
LEMMA RendersKeeps ==
    ASSUME TabInv, ActionRenders
    PROVE  TabInv' /\ asked'[propsShown'].posts = posts
  <1> DEFINE new == Len(asked) + 1
             e == [Request(post.to) EXCEPT !.body = "read", !.saw = world]
  <1>1. asked \in Seq(Requests) /\ posts \in Nat /\ world \in Nat /\ post.to \in TabPages
        /\ propsCache \subseteq DOMAIN asked
    BY DEF TabInv, TabTyped, Posts
  <1>2. e \in Requests /\ e.body = "read" /\ e.posts = posts
    <2>1. PICK f : f = Request(post.to)
      OBVIOUS
    <2>2. f \in Requests /\ f.posts = posts
      BY <1>1, <2>1, RequestIsOfNow
    <2>3. e = [f EXCEPT !.body = "read", !.saw = world]
      BY <2>1
    <2>. QED BY <1>1, <2>2, <2>3 DEF Requests
  <1>3. asked' = Append(asked, e) /\ propsShown' = new /\ post' = NoPost /\ UNCHANGED <<posts, world, propsCache, going>>
    BY DEF ActionRenders
  <1> HIDE DEF e
  <1>4. /\ asked' \in Seq(Requests) /\ DOMAIN asked' = DOMAIN asked \cup {new} /\ new \notin DOMAIN asked
        /\ asked'[new] = e /\ \A r \in DOMAIN asked : asked'[r] = asked[r]
    BY <1>1, <1>2, <1>3, SentIsLast
  <1> HIDE DEF new
  <1>5. TabTyped'
    BY <1>1, <1>3, <1>4, PropsCacheAssumption DEF TabInv, TabTyped, NoPost, Posts
  <1>6. KeptIsUntouched'
    BY <1>1, <1>3, <1>4 DEF TabInv, KeptIsUntouched
  <1>7. UnreadIsHeldOrGone'
    BY <1>2, <1>3, <1>4 DEF TabInv, UnreadIsHeldOrGone
  <1>8. UnderwayIsOfNow'
    BY <1>3, <1>4 DEF TabInv, UnderwayIsOfNow, Underway
  <1>. QED BY <1>2, <1>3, <1>4, <1>5, <1>6, <1>7, <1>8 DEF TabInv

\* The rest leaves the requests and what is kept of them as they are.
LEMMA RestKeeps ==
    ASSUME TabInv, UNCHANGED <<asked, propsCache, posts>>, going' = going, world' \in Nat, post' \in Posts
    PROVE  TabInv'
  <1>1. TabTyped'
    BY DEF TabInv, TabTyped
  <1>2. KeptIsUntouched' /\ UnreadIsHeldOrGone' /\ UnderwayIsOfNow'
    BY DEF TabInv, KeptIsUntouched, UnreadIsHeldOrGone, UnderwayIsOfNow, Underway
  <1>. QED BY <1>1, <1>2 DEF TabInv

LEMMA TabStep ==
    ASSUME TabInv, [PropsCacheNext]_tabVars
    PROVE  TabInv' /\ (propsShown' # propsShown => asked'[propsShown'].posts = posts)
  <1>1. world \in Nat /\ world + 1 \in Nat /\ post \in Posts /\ NoPost \in Posts
    BY PropsCacheAssumption DEF TabInv, TabTyped, NoPost, Posts
  <1>2. ASSUME NEW page \in TabPages, Prefetch(page) PROVE TabInv' /\ propsShown' = propsShown
    BY <1>2, PrefetchKeeps DEF Prefetch
  <1>3. ASSUME NEW page \in TabPages, Navigate(page) PROVE TabInv' /\ propsShown' = propsShown
    <2>1. post' \in Posts
      BY <1>1, <1>3 DEF Navigate, Posts
    <2>2. Takes(page) /\ propsCache' = Without(page) /\ UNCHANGED <<posts, world, propsShown>>
      BY <1>3 DEF Navigate
    <2>. QED BY <1>1, <2>1, <2>2, TakesKeeps
  <1>4. ASSUME NEW page \in TabPages, ActionRedirects(page) PROVE TabInv' /\ propsShown' = propsShown
    <2>1. /\ post' = NoPost
          /\ Takes(page) /\ propsCache' = Without(page) /\ UNCHANGED <<posts, world, propsShown>>
      BY <1>4 DEF ActionRedirects
    <2>. QED BY <1>1, <2>1, TakesKeeps
  <1>5. ASSUME NEW page \in TabPages, Submit(page) PROVE TabInv' /\ propsShown' = propsShown
    BY <1>5, SubmitKeeps DEF Submit
  <1>6. ASSUME NEW r \in DOMAIN asked, LoaderRuns(r) \/ FetchFails(r) PROVE TabInv' /\ propsShown' = propsShown
    BY <1>6, BodiesKeep DEF LoaderRuns, FetchFails
  <1>7. CASE TimePasses \/ AssignsLocation
    BY <1>1, <1>7, RestKeeps DEF TimePasses, AssignsLocation
  <1>8. CASE ActionRuns \/ ActionRefused
    <2>1. post' \in Posts /\ world' \in Nat /\ UNCHANGED <<asked, propsCache, posts, going, propsShown>>
      BY <1>1, <1>8 DEF ActionRuns, ActionRefused, Posts
    <2>. QED BY <1>1, <2>1, RestKeeps
  <1>9. CASE Superseded \/ ActionLeaves \/ TooLarge
    BY <1>1, <1>9, RestKeeps DEF Superseded, ActionLeaves, TooLarge
  <1>10. CASE UNCHANGED tabVars
    BY <1>1, <1>10, RestKeeps DEF tabVars
  <1>. QED BY <1>2, <1>3, <1>4, <1>5, <1>6, <1>7, <1>8, <1>9, <1>10, ArrivesKeeps, RendersKeeps DEF PropsCacheNext

\* No navigation shows what was asked for before a post that was sent since;
\* what is kept is within its limit, and what nobody will read is let go of
\* (runtime.ts 243, 473).
THEOREM PrefetchesHold == PropsCacheSpec => PrefetchesAreSound
  <1>1. PropsCacheInit => TabInv
    <2> SUFFICES ASSUME PropsCacheInit PROVE TabInv
      OBVIOUS
    <2>1. asked = <<>> /\ DOMAIN asked = {} /\ asked \in Seq(Requests) /\ Cardinality({}) = 0
      BY EmptySeq, FS_EmptySet DEF PropsCacheInit
    <2>2. TabTyped
      BY <2>1, PropsCacheAssumption DEF PropsCacheInit, TabTyped, NoPost, Posts
    <2>. QED BY <2>1, <2>2 DEF TabInv, PropsCacheInit, KeptIsUntouched, UnreadIsHeldOrGone, UnderwayIsOfNow, Underway
  <1>2. TabInv => PrefetchesAreLetGo
    BY DEF TabInv, TabTyped, UnreadIsHeldOrGone, PrefetchesAreLetGo
  <1>3. TabInv /\ [PropsCacheNext]_tabVars => TabInv'
    BY TabStep
  <1>4. TabInv /\ [PropsCacheNext]_tabVars => [propsShown' # propsShown => asked'[propsShown'].posts = posts]_tabVars
    BY TabStep
  <1>5. PropsCacheSpec => []PrefetchesAreLetGo
    BY <1>1, <1>2, <1>3, PTL DEF PropsCacheSpec
  <1>6. PropsCacheSpec => NoneFromBeforeThePost
    BY <1>1, <1>3, <1>4, PTL DEF PropsCacheSpec, NoneFromBeforeThePost
  <1>. QED BY <1>5, <1>6, PTL DEF PrefetchesAreSound

-----------------------------------------------------------------------------
(* An export.  Until its end it has changed nothing but its stage.          *)

\* before the plan nothing is picked, and then three ports that are nobody else's
KeepsInv ==
    /\ exportStep \in {"plans", "builds", "boots", "lists", "renders", "copies", "done"}
    /\ pushed = {}
    /\ exportStep = "plans" => api = "none" /\ ~bin /\ stage = NoFiles
    /\ exportStep \notin {"plans", "done"} => ports.front \notin {ports.api, ports.render, ShellPort}
    /\ exportStep = "done" => api = "none" /\ ~bin /\ stage = NoFiles
    /\ exportStep # "done" => site = before /\ failures \in Nat
    /\ exportStep = "done" /\ exportCode # 0 => site = before

\* a command that failed has published nothing
FailuresPublishNothing == exportStep = "done" /\ exportCode # 0 => site = before

\* Three ports bound together are three.
LEMMA FrontIsNobody ==
    ASSUME NEW q \in FreePorts(LocalPorts)
    PROVE  q["front"] \notin {q["api"], q["render"], ShellPort}
  <1>1. /\ q \in [{"api", "front", "render"} -> LocalPorts]
        /\ Cardinality({q["api"], q["front"], q["render"]}) = 3
    BY DEF FreePorts
  <1>2. ASSUME NEW a, NEW b, {q["api"], q["front"], q["render"]} = {a, b} PROVE FALSE
    <2>1. Cardinality({a}) = 1 /\ IsFiniteSet({a})
      BY FS_Singleton
    <2>2. Cardinality({a} \cup {b}) <= 2
      <3>1. CASE b \in {a}
        <4>1. {a} \cup {b} = {a}
          BY <3>1
        <4>. QED BY <2>1, <4>1
      <3>2. CASE b \notin {a}
        BY <2>1, <3>2, FS_AddElement
      <3>. QED BY <3>1, <3>2
    <2>3. {a} \cup {b} = {a, b}
      OBVIOUS
    <2>. QED BY <1>1, <1>2, <2>2, <2>3
  <1>3. q["front"] # q["api"]
    <2>1. q["front"] = q["api"] => {q["api"], q["front"], q["render"]} = {q["api"], q["render"]}
      OBVIOUS
    <2>. QED BY <1>2, <2>1
  <1>4. q["front"] # q["render"]
    <2>1. q["front"] = q["render"] => {q["api"], q["front"], q["render"]} = {q["api"], q["render"]}
      OBVIOUS
    <2>. QED BY <1>2, <2>1
  <1>5. q["front"] \in LocalPorts /\ ShellPort \notin LocalPorts
    BY <1>1, ExportAssumption
  <1>. QED BY <1>3, <1>4, <1>5

\* What ends a command ends the api, and takes its binary and its stage with it.
LEMMA FinallyCleans ==
    ASSUME Finally PROVE api' = "none" /\ ~bin' /\ stage' = NoFiles
  BY DEF Finally, Cleans, RemovesBin

LEMMA KeepsStep ==
    ASSUME KeepsInv, [ExportNext]_exportVars
    PROVE  KeepsInv'
  <1>1. CASE NothingExportable
    BY <1>1 DEF NothingExportable, KeepsInv, processes, fixed
  <1>2. CASE Plan
    <2>1. PICK q \in FreePorts(LocalPorts) :
             ports' = [api |-> q["api"], front |-> q["front"], render |-> q["render"]]
      BY <1>2 DEF Plan
    <2>2. ports'.front \notin {ports'.api, ports'.render, ShellPort}
      BY <2>1, FrontIsNobody
    <2>3. exportStep' \in {"builds", "lists"} /\ exportStep = "plans" /\ UNCHANGED <<pushed, site, before, failures>>
      BY <1>2 DEF Plan, fixed
    <2>. QED BY <2>2, <2>3 DEF KeepsInv
  <1>3. CASE GivesUp /\ exportStep # "done"
    BY <1>3, FinallyCleans DEF GivesUp, KeepsInv, fixed
  <1>4. CASE EndsExport
    <2>1. exportCode' # 0 => site' = site
      BY <1>4 DEF EndsExport, Publishes
    <2>. QED BY <1>4, <2>1, FinallyCleans DEF EndsExport, KeepsInv, fixed
  <1>5. CASE Rendered
    <2>1. exportStep = "renders" /\ exportStep' = "renders" /\ UNCHANGED <<ports, site, before, failures>>
      BY <1>5 DEF Rendered, fixed
    <2>2. Pushes \/ pushed' = pushed
      BY <1>5 DEF Rendered
    <2>3. pushed' = {}
      BY <2>1, <2>2 DEF Pushes, KeepsInv
    <2>. QED BY <2>1, <2>3 DEF KeepsInv
  <1>6. CASE ApiExits
    <2>1. exportStep \notin {"plans", "done"}
      BY <1>6 DEF ApiExits, KeepsInv
    <2>. QED BY <1>6, <2>1 DEF ApiExits, KeepsInv, fixed
  <1>7. CASE BuildsApi \/ ApiAnswers \/ ListsPage \/ Stages \/ NotRendered \/ Rendered404 \/ NotRendered404 \/ No404
    <2>1. /\ exportStep \in {"builds", "boots", "lists", "renders"}
          /\ exportStep' \in {"boots", "lists", "renders", "copies"}
          /\ UNCHANGED <<ports, pushed, site, before>> /\ failures' \in {failures, failures + 1}
      BY <1>7 DEF BuildsApi, ApiAnswers, ListsPage, Listing, Stages, NotRendered, Rendered404, NotRendered404, No404,
                  Asks404, processes, fixed
    <2>. QED BY <2>1 DEF KeepsInv
  <1>8. CASE UNCHANGED exportVars
    BY <1>8 DEF exportVars, KeepsInv, plan, processes, fixed
  <1>. QED BY <1>1, <1>2, <1>3, <1>4, <1>5, <1>6, <1>7, <1>8
           DEF ExportNext, BuildFails, ApiNeverAnswered, ListFails, Listing

\* Nothing runs, and nothing is left, once an export has ended, none of its
\* loaders has pushed to anybody, and one that failed left the site as it was
\* (export.ts 380, 407, 591).
THEOREM ExportsKeepToThemselves == ExportSpec => [](KeepsToItself /\ FailuresPublishNothing)
  <1>1. ExportInit => KeepsInv
    BY DEF ExportInit, KeepsInv
  <1>2. KeepsInv => KeepsToItself /\ FailuresPublishNothing
    BY DEF KeepsInv, KeepsToItself, FailuresPublishNothing
  <1>. QED BY <1>1, <1>2, KeepsStep, PTL DEF ExportSpec

-----------------------------------------------------------------------------
(* The files of an export.  Every path that is still to be fetched is one   *)
(* an author's page was listed for, answered by that page and covered by no *)
(* guard; every path that was listed is fetched or still to be fetched; and *)
(* a file is the render of the page its path is answered by.                *)

DotNames == {"", ".", ".."}

\* A path of proper names is where it says it is.
StepInto(dir, n) == CASE n \in {"", "."} -> dir
                      [] n = ".." -> IF dir = <<>> THEN dir ELSE Front(dir)
                      [] OTHER -> Append(dir, n)

IsLocating(names, g) ==
    g = [T \in SUBSET DOMAIN names |->
            IF T = {} THEN <<>> ELSE StepInto(g[T \ {Max(T)}], names[Max(T)])]

LEMMA ProperPathStays ==
  ASSUME NEW S, S \cap DotNames = {}, NEW names \in Seq(S)
  PROVE  Located(names) = names
<1> DEFINE n == Len(names)
           step == [p \in Seq(S) \X S |-> Append(p[1], p[2])]
           G == CHOOSE g : IsLocating(names, g)
<1>0. n \in Nat /\ names \in [1 .. n -> S] /\ DOMAIN names = 1 .. n
  BY LenProperties
<1>1. Foldable(Seq(S), S, step, <<>>, names)
  BY AppendProperties DEF Foldable
<1>2. ASSUME NEW dir \in Seq(S), NEW x \in S
      PROVE  StepInto(dir, x) = Append(dir, x) /\ step[<<dir, x>>] = Append(dir, x)
  BY DEF StepInto, DotNames
<1> HIDE DEF step
<1>3. Located(names) = G[DOMAIN names]
  BY Zenon DEF Located, FoldLeft, MapThenFoldSet, IsLocating, StepInto
<1>4. IsLocating(names, G)
  <2>1. PICK g \in [SUBSET (1 .. n) -> Seq(S)] : Folds(g, n, step, <<>>, names)
    BY <1>1, FoldsExist
  <2>2. ASSUME NEW T \in SUBSET DOMAIN names
        PROVE  g[T] = IF T = {} THEN <<>> ELSE StepInto(g[T \ {Max(T)}], names[Max(T)])
    <3>1. CASE T = {}
      BY <1>0, <2>1, <3>1 DEF Folds
    <3>2. CASE T # {}
      <4>1. T \in SUBSET (1 .. n) /\ T \ {Max(T)} \in SUBSET (1 .. n)
        BY <1>0
      <4>2. Max(T) \in T
        BY <1>0, <3>2, GreatestUpTo
      <4>3. g[T \ {Max(T)}] \in Seq(S) /\ names[Max(T)] \in S
        BY <1>0, <2>1, <4>1, <4>2
      <4>4. g[T] = step[<<g[T \ {Max(T)}], names[Max(T)]>>]
        BY <2>1, <3>2, <4>1 DEF Folds
      <4>. QED BY <1>2, <3>2, <4>3, <4>4
    <3>. QED BY <3>1, <3>2
  <2>3. IsLocating(names, g)
    BY <1>0, <2>1, <2>2 DEF IsLocating
  <2>. QED BY <2>3
<1>5. Follows(G, n, Seq(S), step, <<>>, names)
  <2>1. ASSUME NEW T \in SUBSET (1 .. n)
        PROVE  G[T] = IF T = {} THEN <<>> ELSE StepInto(G[T \ {Max(T)}], names[Max(T)])
    BY <1>0, <1>4, Zenon DEF IsLocating
  <2>2. ASSUME NEW T \in (SUBSET (1 .. n)) \ {{}}, G[T \ {Max(T)}] \in Seq(S)
        PROVE  G[T] = step[<<G[T \ {Max(T)}], names[Max(T)]>>]
    <3>1. Max(T) \in T
      BY <1>0, GreatestUpTo
    <3>2. names[Max(T)] \in S
      BY <1>0, <3>1
    <3>. QED BY <1>2, <2>1, <2>2, <3>2
  <2>3. G[{}] = <<>>
    BY <2>1
  <2>. QED BY <2>2, <2>3 DEF Follows
<1> HIDE DEF G
<1> DEFINE F == Row(G, n)
<1>6. /\ F \in [0 .. n -> Seq(S)] /\ F[0] = <<>> /\ F[n] = G[DOMAIN names]
      /\ \A k \in 1 .. n : F[k] = step[<<F[k - 1], names[k]>>]
  BY <1>1, <1>5, RowOfAFold DEF IsRow
<1> HIDE DEF F, n
<1> DEFINE Good == {k \in 0 .. n : Len(F[k]) = k /\ \A i \in 1 .. k : F[k][i] = names[i]}
<1>7. 0 \in Good
  BY <1>0, <1>6
<1>8. ASSUME NEW k \in 0 .. n - 1, k \in Good PROVE k + 1 \in Good
  <2>1. k + 1 \in 1 .. n /\ k + 1 \in 0 .. n /\ k \in 0 .. n /\ (k + 1) - 1 = k
    BY <1>0
  <2>2. F[k + 1] = Append(F[k], names[k + 1])
    <3>1. F[k] \in Seq(S) /\ names[k + 1] \in S
      BY <1>0, <1>6, <2>1
    <3>. QED BY <1>2, <1>6, <2>1, <3>1
  <2>3. F[k] \in Seq(S) /\ names[k + 1] \in S
    BY <1>0, <1>6, <2>1
  <2>4. Len(F[k]) = k /\ \A i \in 1 .. k : F[k][i] = names[i]
    BY <1>8
  <2>5. /\ Len(F[k + 1]) = k + 1
        /\ \A i \in 1 .. k : F[k + 1][i] = F[k][i]
        /\ F[k + 1][k + 1] = names[k + 1]
    BY <2>2, <2>3, <2>4, AppendProperties
  <2>6. \A i \in 1 .. k + 1 : F[k + 1][i] = names[i]
    BY <2>1, <2>4, <2>5
  <2>. QED BY <2>1, <2>5, <2>6
<1> HIDE DEF Good
<1>9. n \in Good
  BY <1>0, <1>7, <1>8, InductionUpTo
<1>10. Located(names) \in Seq(S) /\ Len(Located(names)) = Len(names)
       /\ \A i \in 1 .. Len(names) : Located(names)[i] = names[i]
  BY <1>0, <1>3, <1>6, <1>9 DEF Good, n
<1>. QED BY <1>10, SeqEqual

-----------------------------------------------------------------------------
\* What a page's own path is answered with.

\* the paths of a page, as they are put on the queue
OpenOf(i) ==
    IF Dynamic(i) THEN {p \in Range(PathsOf(i)) : ~GuardOfPath(p)} ELSE {AsIs(Page(i).pattern)}

\* where it is written, that its page answers, and that nobody guards it
Fair(p) ==
    /\ File(p) = Names(p) /\ Answers(p) # 0
    /\ ~GoGuard(Names(p)) /\ ~Covers(exported.matcher, AsIs(Names(p)))

\* p is spelled after a pattern
After(p, pattern) ==
    /\ pattern \in Seq(STRING \ DotNames)
    /\ DOMAIN p = DOMAIN pattern
    /\ \A k \in DOMAIN p : p[k].name \notin DotNames /\ pattern[k] \in {Param, p[k].name}

\* The pages of an app are a sequence, and their patterns are.
LEMMA PagesAreSequences ==
  ASSUME exported \in ExportApps
  PROVE  /\ Len(exported.pages) \in Nat /\ DOMAIN exported.pages = 1 .. Len(exported.pages)
         /\ \A i \in DOMAIN exported.pages :
               /\ Page(i) \in Range(exported.pages)
               /\ Page(i).pattern \in Seq(STRING \ DotNames)
               /\ \A sets \in Page(i).lists : sets \in Seq(Range(sets))
<1>1. exported.pages \in Seq(Range(exported.pages))
  BY ExportAssumption
<1>2. Len(exported.pages) \in Nat /\ DOMAIN exported.pages = 1 .. Len(exported.pages)
  BY <1>1, LenProperties
<1>3. \A i \in DOMAIN exported.pages : Page(i) \in Range(exported.pages)
  BY DEF Page, Range
<1>4. \A page \in Range(exported.pages) :
        page.pattern \in Seq(STRING \ DotNames) /\ \A sets \in page.lists : sets \in Seq(Range(sets))
  BY ExportAssumption DEF DotNames
<1>. QED BY <1>2, <1>3, <1>4

\* The sets a page lists, where it lists any, are a sequence.
LEMMA PathsAreASequence ==
  ASSUME exported \in ExportApps, NEW i \in Plans, Dynamic(i)
  PROVE  /\ PathsOf(i) \in Seq(Range(PathsOf(i)))
         /\ \E s \in Page(i).lists :
               PathsOf(i) = [k \in DOMAIN s |-> FillPattern(Page(i).pattern, s[k])]
<1> DEFINE sets == CHOOSE s \in Page(i).lists : TRUE
<1>1. sets \in Page(i).lists /\ i \in DOMAIN exported.pages
  BY DEF Plans, Plannable
<1>2. sets \in Seq(Range(sets))
  BY <1>1, PagesAreSequences
<1>3. Len(sets) \in Nat /\ DOMAIN sets = 1 .. Len(sets)
  BY <1>2, LenProperties
<1>4. PathsOf(i) = [k \in DOMAIN sets |-> FillPattern(Page(i).pattern, sets[k])]
  BY DEF PathsOf
<1> HIDE DEF sets
<1>5. PathsOf(i) \in [1 .. Len(sets) -> Range(PathsOf(i))]
  BY <1>3, <1>4 DEF Range
<1>6. PathsOf(i) \in Seq(Range(PathsOf(i)))
  BY <1>3, <1>5
<1>. QED BY <1>1, <1>4, <1>6

\* The paths of a page are spelled after its pattern.
LEMMA PathsAreAfter ==
  ASSUME exported \in ExportApps, NEW i \in Plans, Dynamic(i) => Fillable(i), NEW p \in OpenOf(i)
  PROVE  After(p, Page(i).pattern) /\ ~GoGuard(Names(p))
<1> DEFINE pattern == Page(i).pattern
<1>0. pattern \in Seq(STRING \ DotNames) /\ i \in DOMAIN exported.pages
  BY PagesAreSequences DEF Plans
<1>1. DOMAIN pattern = 1 .. Len(pattern) /\ \A k \in DOMAIN pattern : pattern[k] \notin DotNames
  BY <1>0, LenProperties
<1>2. CASE ~Dynamic(i)
  <2>1. p = AsIs(pattern) /\ ~GoGuard(pattern)
    BY <1>2 DEF OpenOf, Plans
  <2>2. DOMAIN p = DOMAIN pattern /\ \A k \in DOMAIN pattern : p[k].name = pattern[k]
    BY <2>1 DEF AsIs
  <2>3. Names(p) = pattern
    BY <1>0, <1>1, <2>2 DEF Names
  <2>. QED BY <1>0, <1>1, <2>1, <2>2, <2>3 DEF After
<1>3. CASE Dynamic(i)
  <2>1. p \in Range(PathsOf(i)) /\ ~GoGuard(Names(p))
    BY <1>3 DEF OpenOf, GuardOfPath
  <2>2. PICK s \in Page(i).lists : PathsOf(i) = [k \in DOMAIN s |-> FillPattern(pattern, s[k])]
    BY <1>3, PathsAreASequence
  <2>3. PICK k \in DOMAIN s : p = FillPattern(pattern, s[k])
    BY <2>1, <2>2 DEF Range
  <2>4. CanFill(pattern, s[k])
    BY <1>3 DEF Fillable
  <2>5. DOMAIN p = DOMAIN pattern
    BY <2>3 DEF FillPattern
  <2>6. ASSUME NEW m \in DOMAIN pattern
        PROVE  p[m].name \notin DotNames /\ pattern[m] \in {Param, p[m].name}
    <3>1. CASE pattern[m] = Param
      <4>1. m \in Params(pattern)
        BY <3>1 DEF Params
      <4>2. s[k][m] \notin Unsafe
        BY <2>4, <4>1 DEF CanFill
      <4>3. p[m] = Encoded(s[k][m])
        BY <2>3, <3>1 DEF FillPattern
      <4>4. p[m].name = s[k][m]
        BY <4>3 DEF Encoded
      <4>. QED BY <3>1, <4>2, <4>4, ExportAssumption DEF DotNames
    <3>2. CASE pattern[m] # Param
      <4>1. p[m] = AsIs(pattern)[m]
        BY <2>3, <3>2 DEF FillPattern
      <4>2. p[m].name = pattern[m]
        BY <4>1 DEF AsIs
      <4>. QED BY <1>1, <4>2
    <3>. QED BY <3>1, <3>2
  <2>. QED BY <1>0, <2>1, <2>5, <2>6 DEF After
<1>. QED BY <1>2, <1>3

\* A path with no slash at its end is what the router looks at.
LEMMA NothingIsStripped ==
  ASSUME NEW S, NEW p \in Seq(S), p = <<>> \/ Last(p) # Empty
  PROVE  Stripped(p) = p
<1> DEFINE Bare(q) == /\ \A i \in Len(q) + 1 .. Len(p) : p[i] = Empty
                      /\ q = <<>> \/ Last(q) # Empty
           Cut == {SubSeq(p, 1, n) : n \in 0 .. Len(p)}
<1>0. Len(p) \in Nat
  BY LenProperties
<1>1. SubSeq(p, 1, Len(p)) = p
  BY SubSeqFull
<1>2. p \in Cut /\ Bare(p)
  <2>1. Len(p) \in 0 .. Len(p) /\ Len(p) + 1 .. Len(p) = {}
    BY <1>0
  <2>. QED BY <1>1, <2>1
<1>3. ASSUME NEW q \in Cut, Bare(q) PROVE q = p
  <2>1. PICK n \in 0 .. Len(p) : q = SubSeq(p, 1, n)
    OBVIOUS
  <2>2. Len(q) = n
    <3>1. n \in Nat /\ \A k \in 1 .. n : p[k] \in S
      BY <1>0, ElementOfSeq
    <3>. QED BY <2>1, <3>1, SubSeqProperties
  <2>3. CASE n = Len(p)
    BY <1>1, <2>1, <2>3
  <2>4. CASE n # Len(p)
    <3>1. n \in Nat /\ n < Len(p)
      BY <1>0, <2>4
    <3>2. Len(p) \in Len(q) + 1 .. Len(p)
      BY <1>0, <2>2, <3>1
    <3>3. p[Len(p)] = Empty
      BY <1>3, <3>2
    <3>4. p # <<>>
      BY <3>1
    <3>. QED BY <3>3, <3>4 DEF Last
  <2>. QED BY <2>3, <2>4
<1>4. Stripped(p) = CHOOSE q \in Cut : Bare(q)
  BY DEF Stripped
<1> HIDE DEF Cut, Bare
<1>. QED BY <1>2, <1>3, <1>4

\* The first page that fits is one that fits.
LEMMA AHitIsAnswered ==
  ASSUME NEW q, NEW patterns, NEW n \in Nat, DOMAIN patterns = 1 .. n,
         NEW i \in 1 .. n, MatchPattern(patterns[i], Stripped(q))
  PROVE  MatchRoute(q, patterns) \in 1 .. n
<1> DEFINE hits == {j \in DOMAIN patterns : MatchPattern(patterns[j], Stripped(q))}
<1>1. hits \subseteq Nat /\ i \in hits /\ hits \subseteq 1 .. n
  OBVIOUS
<1>2. PICK j \in hits : \A m \in hits : j <= m
  BY <1>1, LeastNatural
<1>3. MatchRoute(q, patterns) = CHOOSE k \in hits : \A m \in hits : k <= m
  BY <1>1 DEF MatchRoute
<1> HIDE DEF hits
<1>. QED BY <1>1, <1>2, <1>3

LEMMA SpelledAfter ==
  ASSUME NEW p, NEW pattern, After(p, pattern)
  PROVE  LET d == Names(p)
         IN  /\ d \in Seq(Range(d)) /\ Len(d) = Len(pattern) /\ Len(pattern) \in Nat
             /\ DOMAIN d = 1 .. Len(pattern) /\ Range(d) \cap DotNames = {}
             /\ \A k \in DOMAIN d : d[k] = p[k].name /\ d[k] # "" /\ pattern[k] \in {Param, d[k]}
             /\ AsIs(d) \in Seq(Range(AsIs(d))) /\ Len(AsIs(d)) = Len(pattern)
             /\ \A k \in DOMAIN d : AsIs(d)[k].name = d[k]
<1> DEFINE d == Names(p)
           n == Len(pattern)
<1>1. n \in Nat /\ DOMAIN p = 1 .. n
  BY LenProperties DEF After
<1>2. DOMAIN d = 1 .. n /\ \A k \in 1 .. n : d[k] = p[k].name
  BY <1>1 DEF Names
<1>3. d \in [1 .. n -> Range(d)]
  BY <1>1 DEF Names, Range
<1>4. d \in Seq(Range(d)) /\ Len(d) = n
  BY <1>1, <1>3
<1>5. AsIs(d) \in [1 .. n -> Range(AsIs(d))] /\ \A k \in 1 .. n : AsIs(d)[k].name = d[k]
  BY <1>2 DEF AsIs, Range
<1>6. AsIs(d) \in Seq(Range(AsIs(d))) /\ Len(AsIs(d)) = n
  BY <1>1, <1>5
<1>7. \A k \in 1 .. n : d[k] \notin DotNames /\ pattern[k] \in {Param, d[k]}
  BY <1>1, <1>2 DEF After
<1>8. Range(d) \cap DotNames = {}
  BY <1>2, <1>7 DEF Range
<1> HIDE DEF d, n
<1>9. \A k \in 1 .. n : d[k] # ""
  BY <1>7 DEF DotNames
<1>. QED BY <1>1, <1>2, <1>4, <1>5, <1>6, <1>7, <1>8, <1>9 DEF d, n

\* The page of a path answers it, where it says it is.
LEMMA ItsPageAnswers ==
  ASSUME exported \in ExportApps, NEW i \in DOMAIN exported.pages, NEW p,
         After(p, Page(i).pattern)
  PROVE  File(p) = Names(p) /\ Answers(p) # 0
<1> DEFINE d == Names(p)
           pattern == Page(i).pattern
<1>1. /\ d \in Seq(Range(d)) /\ Len(d) = Len(pattern) /\ Len(pattern) \in Nat
      /\ DOMAIN d = 1 .. Len(pattern) /\ Range(d) \cap DotNames = {}
      /\ \A k \in DOMAIN d : d[k] = p[k].name /\ d[k] # "" /\ pattern[k] \in {Param, d[k]}
      /\ AsIs(d) \in Seq(Range(AsIs(d))) /\ Len(AsIs(d)) = Len(pattern)
      /\ \A k \in DOMAIN d : AsIs(d)[k].name = d[k]
  BY SpelledAfter
<1>2. Located(d) = d
  BY <1>1, ProperPathStays
<1>3. AsIs(d) = <<>> \/ Last(AsIs(d)) # Empty
  <2>1. CASE Len(pattern) = 0
    BY <1>1, <2>1
  <2>2. CASE Len(pattern) # 0
    <3>1. Len(pattern) \in Nat /\ DOMAIN d = 1 .. Len(pattern) /\ Len(AsIs(d)) = Len(pattern)
      BY <1>1
    <3>2. Len(pattern) \in DOMAIN d
      BY <2>2, <3>1
    <3>3. AsIs(d)[Len(pattern)].name # ""
      BY <1>1, <3>2
    <3>4. Empty.name = ""
      BY DEF Empty
    <3>5. Last(AsIs(d)) = AsIs(d)[Len(pattern)]
      BY <3>1 DEF Last
    <3>. QED BY <3>3, <3>4, <3>5
  <2>. QED BY <2>1, <2>2
<1>4. Stripped(AsIs(d)) = AsIs(d)
  BY <1>1, <1>3, NothingIsStripped
<1>5. MatchPattern(pattern, AsIs(d))
  <2>1. DOMAIN AsIs(d) = DOMAIN d
    BY DEF AsIs
  <2>. QED BY <1>1, <2>1 DEF MatchPattern, Fits
<1>6. DOMAIN PagePatterns = 1 .. Len(exported.pages) /\ PagePatterns[i] = pattern /\ Len(exported.pages) \in Nat
  BY PagesAreSequences DEF PagePatterns
<1>7. MatchRoute(AsIs(d), PagePatterns) \in 1 .. Len(exported.pages)
  BY <1>4, <1>5, <1>6, PagesAreSequences, AHitIsAnswered
<1>8. Answers(p) = MatchRoute(AsIs(d), PagePatterns)
  BY <1>2 DEF Answers
<1>. QED BY <1>2, <1>6, <1>7, <1>8 DEF File, OutputPath

LEMMA FrontOfSeq ==
  ASSUME NEW S, NEW s \in Seq(S), s # <<>>
  PROVE  Front(s) \in Seq(S) /\ Len(Front(s)) = Len(s) - 1
         /\ \A k \in 1 .. Len(s) - 1 : Front(s)[k] = s[k]
<1>1. Len(s) \in Nat /\ s \in [1 .. Len(s) -> S] /\ Len(s) # 0
  BY LenProperties, EmptySeq
<1>2. \A k \in 1 .. Len(s) - 1 : s[k] \in S
  BY <1>1
<1>. QED BY <1>1, <1>2, SubSeqProperties DEF Front

\* A matcher that covers a path may run for its page.
LEMMA CoveredIsGuarded ==
  ASSUME NEW p, NEW pattern, After(p, pattern),
         NEW matcher \in SUBSET Seq(STRING), Covers(matcher, AsIs(Names(p)))
  PROVE  GuardsRoute(matcher, pattern)
<1> DEFINE d == Names(p)
<1>1. /\ Len(pattern) \in Nat /\ DOMAIN d = 1 .. Len(pattern)
      /\ \A k \in DOMAIN d : d[k] # "" /\ pattern[k] \in {Param, d[k]}
      /\ Len(AsIs(d)) = Len(pattern)
      /\ \A k \in DOMAIN d : AsIs(d)[k].name = d[k]
  BY SpelledAfter
<1>2. PICK entry \in matcher : MatchEntry(entry, AsIs(d))
  BY DEF Covers
<1> DEFINE rest == Fixed(entry)
<1>3. rest \in Seq(STRING)
  <2>1. entry \in Seq(STRING)
    OBVIOUS
  <2>2. entry # <<>> => Front(entry) \in Seq(STRING)
    BY <2>1, FrontOfSeq
  <2>. QED BY <2>1, <2>2 DEF Fixed, HasRest
<1>4. Len(rest) \in Nat /\ DOMAIN rest = 1 .. Len(rest)
  BY <1>3, LenProperties
<1>5. /\ IF HasRest(entry) THEN Len(rest) <= Len(pattern) ELSE Len(rest) = Len(pattern)
      /\ \A k \in DOMAIN rest : Fits(rest[k], AsIs(d)[k].name)
  BY <1>1, <1>2 DEF MatchEntry
<1> HIDE DEF rest
<1>6. ASSUME NEW k \in DOMAIN rest PROVE pattern[k] = rest[k] \/ Param \in {pattern[k], rest[k]}
  <2>0. DOMAIN d = 1 .. Len(pattern) /\ Len(pattern) \in Nat
    BY <1>1
  <2>3. Len(rest) <= Len(pattern)
    BY <1>4, <1>5, <2>0
  <2>1. k \in DOMAIN d
    BY <1>4, <2>0, <2>3
  <2>2. rest[k] \in {Param, d[k]} /\ pattern[k] \in {Param, d[k]}
    BY <1>1, <1>5, <2>1 DEF Fits
  <2>. QED BY <2>2
<1>. QED BY <1>5, <1>6 DEF GuardsRoute, PatternsOverlap, rest

\* What a planned page lists may be a file.
LEMMA OpenIsFair ==
  ASSUME exported \in ExportApps, NEW i \in Plans, Dynamic(i) => Fillable(i), NEW p \in OpenOf(i)
  PROVE  Fair(p)
<1>1. After(p, Page(i).pattern) /\ ~GoGuard(Names(p))
  BY PathsAreAfter
<1>2. i \in DOMAIN exported.pages /\ ~GuardsRoute(exported.matcher, Page(i).pattern)
  BY DEF Plans, Plannable
<1>3. exported.matcher \in SUBSET Seq(STRING)
  BY ExportAssumption
<1>. QED BY <1>1, <1>2, <1>3, ItsPageAnswers, CoveredIsGuarded DEF Fair

\* One segment deeper than every page: no page answers.
LEMMA NobodyAnswersTheProbe ==
  ASSUME exported \in ExportApps
  PROVE  Answers(AsIs(NotFoundProbe)) = 0
<1> DEFINE n == Len(exported.pages)
           lengths == [j \in 1 .. n |-> Len(Page(j).pattern)]
           probe == NotFoundProbe
<1>1. n \in Nat /\ DOMAIN exported.pages = 1 .. n /\ DOMAIN PagePatterns = 1 .. n
  BY PagesAreSequences DEF PagePatterns
<1>2. CASE n = 0
  BY <1>1, <1>2 DEF Answers, MatchRoute
<1>3. CASE n # 0
  <2> DEFINE m == 1 + Max({lengths[j] : j \in 1 .. n})
  <2>1. lengths \in [1 .. n -> Nat]
    BY <1>1, PagesAreSequences, LenProperties
  <2>2. m \in Nat /\ m # 0 /\ \A j \in 1 .. n : lengths[j] < m
    <3> DEFINE top == Max({lengths[j] : j \in 1 .. n})
    <3> HIDE DEF lengths
    <3>1. n \in Nat \ {0}
      BY <1>1, <1>3
    <3>2. top \in Nat /\ \A j \in 1 .. n : lengths[j] <= top
      BY <2>1, <3>1, GreatestOfRow
    <3>3. \A j \in 1 .. n : lengths[j] \in Nat
      BY <2>1
    <3>4. m = 1 + top
      OBVIOUS
    <3> HIDE DEF m, top, n
    <3>. QED BY <3>2, <3>3, <3>4
  <2>3. {lengths[j] : j \in 1 .. n} = {Len(Page(j).pattern) : j \in DOMAIN exported.pages}
    BY <1>1
  <2>4. probe = [k \in 1 .. m |-> "probe"]
    BY <2>3 DEF NotFoundProbe
  <2> HIDE DEF m, lengths, probe
  <2>5. probe \in Seq({"probe"}) /\ Len(probe) = m /\ DOMAIN probe = 1 .. m
    BY <2>2, <2>4
  <2>6. AsIs(probe) \in Seq(Range(AsIs(probe))) /\ Len(AsIs(probe)) = m
        /\ \A k \in 1 .. m : AsIs(probe)[k].name = "probe"
    <3>1. AsIs(probe) \in [1 .. m -> Range(AsIs(probe))]
          /\ \A k \in 1 .. m : AsIs(probe)[k].name = "probe"
      BY <2>4, <2>5 DEF AsIs, Range
    <3>. QED BY <2>2, <3>1
  <2>7. Names(AsIs(probe)) = probe
    BY <2>4, <2>5 DEF Names, AsIs
  <2>8. Located(probe) = probe
    BY <2>5, ProperPathStays DEF DotNames
  <2>9. Stripped(AsIs(probe)) = AsIs(probe)
    <3>1. Last(AsIs(probe)).name = "probe" /\ Empty.name = ""
      BY <2>2, <2>6 DEF Last, Empty
    <3>2. Last(AsIs(probe)) # Empty
      BY <3>1
    <3>. QED BY <2>6, <3>2, NothingIsStripped
  <2>10. ASSUME NEW j \in DOMAIN PagePatterns PROVE ~MatchPattern(PagePatterns[j], Stripped(AsIs(probe)))
    <3>1. Len(PagePatterns[j]) < m /\ Len(PagePatterns[j]) \in Nat
      BY <1>1, <2>1, <2>2 DEF PagePatterns, lengths
    <3>. QED BY <2>2, <2>6, <2>9, <3>1 DEF MatchPattern
  <2>11. Answers(AsIs(probe)) = MatchRoute(AsIs(probe), PagePatterns)
    BY <2>7, <2>8 DEF Answers
  <2>. QED BY <2>10, <2>11 DEF MatchRoute, probe
<1>. QED BY <1>1, <1>2, <1>3

\* What an author asks for is what is put on the queue.
LEMMA AskedForIsOpen ==
  ASSUME exported \in ExportApps
  PROVE  AskedFor = {Names(p) : p \in UNION {OpenOf(i) : i \in Plans}}
<1>0. \A i \in Plans : Names(AsIs(Page(i).pattern)) = Page(i).pattern
  <2>. TAKE i \in Plans
  <2>1. Page(i).pattern \in Seq(STRING \ DotNames)
    BY PagesAreSequences DEF Plans
  <2>2. Page(i).pattern = [k \in DOMAIN Page(i).pattern |-> Page(i).pattern[k]]
    BY <2>1, LenProperties
  <2>. QED BY <2>2 DEF Names, AsIs
<1>1. ASSUME NEW d \in AskedFor PROVE d \in {Names(p) : p \in UNION {OpenOf(i) : i \in Plans}}
  <2>1. CASE d \in {Page(i).pattern : i \in {j \in Plans : ~Dynamic(j)}}
    <3>1. PICK i \in Plans : ~Dynamic(i) /\ d = Page(i).pattern
      BY <2>1
    <3>2. AsIs(Page(i).pattern) \in OpenOf(i)
      BY <3>1 DEF OpenOf
    <3>. QED BY <1>0, <3>1, <3>2
  <2>2. CASE ~(d \in {Page(i).pattern : i \in {j \in Plans : ~Dynamic(j)}})
    <3>1. PICK i \in Plans : Dynamic(i) /\ d \in {Names(PathsOf(i)[k]) : k \in DOMAIN PathsOf(i)} /\ ~GoGuard(d)
      BY <2>2 DEF AskedFor
    <3>2. PICK k \in DOMAIN PathsOf(i) : d = Names(PathsOf(i)[k])
      BY <3>1
    <3>3. PathsOf(i)[k] \in OpenOf(i)
      BY <3>1, <3>2 DEF OpenOf, Range, GuardOfPath
    <3>. QED BY <3>2, <3>3
  <2>. QED BY <2>1, <2>2
<1>2. ASSUME NEW i \in Plans, NEW p \in OpenOf(i) PROVE Names(p) \in AskedFor
  <2>1. CASE Dynamic(i)
    <3>1. p \in Range(PathsOf(i)) /\ ~GoGuard(Names(p))
      BY <2>1 DEF OpenOf, GuardOfPath
    <3>2. PICK k \in DOMAIN PathsOf(i) : p = PathsOf(i)[k]
      BY <3>1 DEF Range
    <3>3. Names(p) \in {d \in {Names(PathsOf(i)[j]) : j \in DOMAIN PathsOf(i)} : ~GoGuard(d)}
      BY <3>1, <3>2
    <3>. QED BY <2>1, <3>3 DEF AskedFor
  <2>2. CASE ~Dynamic(i)
    <3>1. Names(p) = Page(i).pattern
      BY <1>0, <2>2 DEF OpenOf
    <3>. QED BY <2>2, <3>1 DEF AskedFor
  <2>. QED BY <2>1, <2>2
<1>. QED BY <1>1, <1>2

-----------------------------------------------------------------------------
\* The loop over what prerenderPaths gave.

LEMMA OneMore ==
  ASSUME NEW S, NEW s \in Seq(S), NEW x \in S
  PROVE  Append(s, x) \in Seq(S) /\ Range(Append(s, x)) = Range(s) \cup {x}
<1>1. /\ Append(s, x) \in Seq(S) /\ Len(Append(s, x)) = Len(s) + 1 /\ Len(s) \in Nat
      /\ \A k \in 1 .. Len(s) : Append(s, x)[k] = s[k]
      /\ Append(s, x)[Len(s) + 1] = x
      /\ DOMAIN Append(s, x) = 1 .. Len(s) + 1 /\ DOMAIN s = 1 .. Len(s)
  BY AppendProperties, LenProperties
<1>2. ASSUME NEW y \in Range(Append(s, x)) PROVE y \in Range(s) \cup {x}
  <2>1. PICK k \in 1 .. Len(s) + 1 : y = Append(s, x)[k]
    BY <1>1 DEF Range
  <2>2. k \in 1 .. Len(s) \/ k = Len(s) + 1
    BY <1>1
  <2>. QED BY <1>1, <2>1, <2>2 DEF Range
<1>3. ASSUME NEW y \in Range(s) PROVE y \in Range(Append(s, x))
  <2>1. PICK k \in 1 .. Len(s) : y = s[k]
    BY <1>1 DEF Range
  <2>2. k \in 1 .. Len(s) + 1
    BY <1>1
  <2>. QED BY <1>1, <2>1, <2>2 DEF Range
<1>4. x \in Range(Append(s, x))
  <2>1. Len(s) + 1 \in 1 .. Len(s) + 1
    BY <1>1
  <2>. QED BY <1>1, <2>1 DEF Range
<1>. QED BY <1>1, <1>2, <1>3, <1>4

LEMMA HeadAndRest ==
  ASSUME NEW S, NEW s \in Seq(S), s # <<>>
  PROVE  Tail(s) \in Seq(S) /\ Head(s) \in Range(s) /\ Range(s) = {Head(s)} \cup Range(Tail(s))
<1>1. /\ Head(s) = s[1] /\ Tail(s) \in Seq(S) /\ Len(Tail(s)) = Len(s) - 1
      /\ \A k \in 1 .. Len(Tail(s)) : Tail(s)[k] = s[k + 1]
      /\ Len(s) \in Nat \ {0} /\ DOMAIN s = 1 .. Len(s) /\ DOMAIN Tail(s) = 1 .. Len(s) - 1
  <2>1. Len(s) \in Nat \ {0}
    BY LenProperties, EmptySeq
  <2>2. /\ Head(s) = s[1] /\ Tail(s) \in Seq(S) /\ Len(Tail(s)) = Len(s) - 1
        /\ \A k \in 1 .. Len(Tail(s)) : Tail(s)[k] = s[k + 1]
    BY HeadTailProperties
  <2>. QED BY <2>1, <2>2, LenProperties
<1>2. ASSUME NEW y \in Range(s) PROVE y \in {Head(s)} \cup Range(Tail(s))
  <2>1. PICK k \in 1 .. Len(s) : y = s[k]
    BY <1>1 DEF Range
  <2>2. CASE k = 1
    BY <1>1, <2>1, <2>2
  <2>3. CASE k # 1
    <3>1. k - 1 \in 1 .. Len(s) - 1 /\ (k - 1) + 1 = k
      BY <1>1, <2>3
    <3>2. y = Tail(s)[k - 1]
      BY <1>1, <2>1, <3>1
    <3>. QED BY <1>1, <3>1, <3>2 DEF Range
  <2>. QED BY <2>2, <2>3
<1>3. ASSUME NEW y \in Range(Tail(s)) PROVE y \in Range(s)
  <2>1. PICK k \in 1 .. Len(s) - 1 : y = Tail(s)[k]
    BY <1>1 DEF Range
  <2>2. k + 1 \in 1 .. Len(s) /\ y = s[k + 1]
    BY <1>1, <2>1
  <2>. QED BY <1>1, <2>2 DEF Range
<1>4. Head(s) \in Range(s)
  <2>1. 1 \in 1 .. Len(s)
    BY <1>1
  <2>. QED BY <1>1, <2>1 DEF Range
<1>. QED BY <1>1, <1>2, <1>3, <1>4

LEMMA OfItsRange ==
  ASSUME NEW S, NEW s \in Seq(S)
  PROVE  s \in Seq(Range(s)) /\ Range(s) \subseteq S
<1>1. Len(s) \in Nat /\ s \in [1 .. Len(s) -> S] /\ DOMAIN s = 1 .. Len(s)
  BY LenProperties
<1>2. s \in [1 .. Len(s) -> Range(s)] /\ Range(s) \subseteq S
  BY <1>1 DEF Range
<1>. QED BY <1>1, <1>2

IsListing(start, paths, g) ==
    g = [T \in SUBSET DOMAIN paths |->
            IF T = {} THEN start ELSE ListsPath(g[T \ {Max(T)}], paths[Max(T)])]

\* No path that is listed is lost, and none is put on the queue that was not.
LEMMA ListsPaths ==
  ASSUME NEW All, NEW seen \in SUBSET All, NEW open \in Seq(All), NEW paths \in Seq(All),
         \A p \in seen : GuardOfPath(p) \/ p \in Range(open)
  PROVE  LET found == FoldLeft(ListsPath, [seen |-> seen, open |-> open], paths)
         IN  /\ found.open \in Seq(All)
             /\ Range(open) \subseteq Range(found.open)
             /\ Range(found.open) \subseteq Range(open) \cup {p \in Range(paths) : ~GuardOfPath(p)}
             /\ Range(paths) \subseteq found.seen
             /\ \A p \in found.seen : GuardOfPath(p) \/ p \in Range(found.open)
<1> DEFINE n == Len(paths)
           St == [seen : SUBSET All, open : Seq(All)]
           step == [q \in St \X All |-> ListsPath(q[1], q[2])]
           start == [seen |-> seen, open |-> open]
           G == CHOOSE g : IsListing(start, paths, g)
<1>0. n \in Nat /\ paths \in [1 .. n -> All] /\ DOMAIN paths = 1 .. n /\ start \in St
  BY LenProperties
<1>1. ASSUME NEW st \in St, NEW x \in All
      PROVE  ListsPath(st, x) \in St /\ step[<<st, x>>] = ListsPath(st, x)
  <2>1. st.seen \cup {x} \in SUBSET All /\ Append(st.open, x) \in Seq(All)
    BY AppendProperties
  <2>. QED BY <2>1 DEF ListsPath
<1>2. Foldable(St, All, step, start, paths)
  <2>1. step \in [St \X All -> St]
    BY <1>1
  <2>. QED BY <1>0, <2>1 DEF Foldable
<1> HIDE DEF step, St, start
<1>3. FoldLeft(ListsPath, start, paths) = G[DOMAIN paths]
  BY Zenon DEF FoldLeft, MapThenFoldSet, IsListing, ListsPath
<1>4. IsListing(start, paths, G)
  <2>1. PICK g \in [SUBSET (1 .. n) -> St] : Folds(g, n, step, start, paths)
    BY <1>2, FoldsExist
  <2>2. ASSUME NEW T \in SUBSET DOMAIN paths
        PROVE  g[T] = IF T = {} THEN start ELSE ListsPath(g[T \ {Max(T)}], paths[Max(T)])
    <3>1. CASE T = {}
      BY <1>0, <2>1, <3>1 DEF Folds
    <3>2. CASE T # {}
      <4>1. T \in SUBSET (1 .. n) /\ T \ {Max(T)} \in SUBSET (1 .. n)
        BY <1>0
      <4>2. Max(T) \in T
        BY <1>0, <3>2, GreatestUpTo
      <4>3. g[T \ {Max(T)}] \in St /\ paths[Max(T)] \in All
        BY <1>0, <2>1, <4>1, <4>2
      <4>4. g[T] = step[<<g[T \ {Max(T)}], paths[Max(T)]>>]
        BY <2>1, <3>2, <4>1 DEF Folds
      <4>. QED BY <1>1, <3>2, <4>3, <4>4
    <3>. QED BY <3>1, <3>2
  <2>3. IsListing(start, paths, g)
    BY <1>0, <2>1, <2>2 DEF IsListing
  <2>. QED BY <2>3
<1>5. Follows(G, n, St, step, start, paths)
  <2>1. ASSUME NEW T \in SUBSET (1 .. n)
        PROVE  G[T] = IF T = {} THEN start ELSE ListsPath(G[T \ {Max(T)}], paths[Max(T)])
    BY <1>0, <1>4, Zenon DEF IsListing
  <2>2. ASSUME NEW T \in (SUBSET (1 .. n)) \ {{}}, G[T \ {Max(T)}] \in St
        PROVE  G[T] = step[<<G[T \ {Max(T)}], paths[Max(T)]>>]
    <3>1. Max(T) \in T
      BY <1>0, GreatestUpTo
    <3>2. paths[Max(T)] \in All
      BY <1>0, <3>1
    <3>. QED BY <1>1, <2>1, <2>2, <3>2
  <2>3. G[{}] = start
    BY <2>1
  <2>. QED BY <2>2, <2>3 DEF Follows
<1> HIDE DEF G
<1> DEFINE F == Row(G, n)
<1>6. /\ F \in [0 .. n -> St] /\ F[0] = start /\ F[n] = G[DOMAIN paths]
      /\ \A k \in 1 .. n : F[k] = step[<<F[k - 1], paths[k]>>]
  BY <1>2, <1>5, RowOfAFold DEF IsRow
<1> HIDE DEF F, n
<1> DEFINE Whole(st, k) ==
             /\ Range(open) \subseteq Range(st.open)
             /\ Range(st.open) \subseteq Range(open) \cup {p \in Range(paths) : ~GuardOfPath(p)}
             /\ \A j \in 1 .. k : paths[j] \in st.seen
             /\ \A p \in st.seen : GuardOfPath(p) \/ p \in Range(st.open)
           Good == {k \in 0 .. n : Whole(F[k], k)}
<1>7. 0 \in Good
  <2>1. F[0].seen = seen /\ F[0].open = open
    BY <1>6 DEF start
  <2>. QED BY <1>0, <2>1
<1>8. ASSUME NEW k \in 0 .. n - 1, k \in Good PROVE k + 1 \in Good
  <2>1. k + 1 \in 1 .. n /\ k + 1 \in 0 .. n /\ k \in 0 .. n /\ (k + 1) - 1 = k
        /\ \A j \in 1 .. k + 1 : j \in 1 .. k \/ j = k + 1
    BY <1>0
  <2> DEFINE st == F[k]
             x == paths[k + 1]
  <2>2. st \in St /\ x \in All /\ x \in Range(paths)
    BY <1>0, <1>6, <2>1 DEF Range
  <2>3. F[k + 1] = ListsPath(st, x)
    <3>1. F[k + 1] = step[<<st, x>>]
      BY <1>6, <2>1
    <3>. QED BY <1>1, <2>2, <3>1
  <2>4. Whole(st, k)
    BY <1>8
  <2>5. Range(Append(st.open, x)) = Range(st.open) \cup {x}
    <3>1. st.open \in Seq(All)
      BY <2>2 DEF St
    <3>. QED BY <2>2, <3>1, OneMore
  <2> HIDE DEF st, x
  <2>6. Whole(ListsPath(st, x), k)
    BY <2>2, <2>4, <2>5 DEF ListsPath
  <2>7. x \in ListsPath(st, x).seen
    BY DEF ListsPath
  <2>8. \A j \in 1 .. k + 1 : paths[j] \in F[k + 1].seen
    BY <2>1, <2>3, <2>6, <2>7 DEF x
  <2>. QED BY <2>1, <2>3, <2>6, <2>8
<1> HIDE DEF Good, Whole
<1>9. n \in Good
  <2>1. \A k \in 0 .. n - 1 : k \in Good => k + 1 \in Good
    BY <1>8
  <2>2. \A k \in 0 .. n : k \in Good
    BY <1>0, <1>7, <2>1, InductionUpTo
  <2>. QED BY <1>0, <2>2
<1> DEFINE found == FoldLeft(ListsPath, start, paths)
<1>10. found = F[n] /\ F[n] \in St
  BY <1>0, <1>3, <1>6
<1> HIDE DEF found
<1>11. Whole(found, n) /\ found.open \in Seq(All)
  BY <1>9, <1>10 DEF Good, St
<1>12. Range(paths) \subseteq found.seen
  BY <1>0, <1>11 DEF Range, Whole
<1>. QED BY <1>11, <1>12 DEF found, start, Whole

-----------------------------------------------------------------------------
\* From one step to the next the app is the same, and what is made of it.
LEMMA TheAppStays ==
  ASSUME exported' = exported
  PROVE  /\ Plans' = Plans /\ AskedFor' = AskedFor /\ Export404' = Export404
         /\ PagePatterns' = PagePatterns
         /\ \A i : OpenOf(i)' = OpenOf(i) /\ PathsOf(i)' = PathsOf(i)
         /\ \A p : (Fair(p)' <=> Fair(p)) /\ (GuardOfPath(p)' <=> GuardOfPath(p)) /\ Answers(p)' = Answers(p)
         /\ \A d : GoGuard(d)' <=> GoGuard(d)
<1>1. \A i : Page(i)' = Page(i)
  BY DEF Page
<1>2. PagePatterns' = PagePatterns
  BY <1>1 DEF PagePatterns
<1>3. \A d : GoGuard(d)' <=> GoGuard(d)
  BY DEF GoGuard
<1>4. \A p : GuardOfPath(p)' <=> GuardOfPath(p)
  BY <1>3 DEF GuardOfPath
<1>5. \A i : PathsOf(i)' = PathsOf(i)
  <2>. TAKE i
  <2>1. Page(i)' = Page(i)
    BY <1>1
  <2> DEFINE pageLists == Page(i).lists
             pattern == Page(i).pattern
             sets == CHOOSE s \in pageLists : TRUE
  <2>2. pageLists' = pageLists /\ pattern' = pattern
    BY <2>1
  <2> HIDE DEF pageLists, pattern
  <2>3. sets' = sets
    BY <2>2
  <2> HIDE DEF sets
  <2>4. [k \in DOMAIN sets |-> FillPattern(pattern, sets[k])]' = [k \in DOMAIN sets |-> FillPattern(pattern, sets[k])]
    BY <2>2, <2>3
  <2>5. PathsOf(i) = [k \in DOMAIN sets |-> FillPattern(pattern, sets[k])]
    BY DEF PathsOf, sets, pageLists, pattern
  <2>6. PathsOf(i)' = [k \in DOMAIN sets |-> FillPattern(pattern, sets[k])]'
    BY DEF PathsOf, sets, pageLists, pattern
  <2>. QED BY <2>4, <2>5, <2>6
<1>6. \A i : Dynamic(i)' <=> Dynamic(i)
  BY <1>1 DEF Dynamic
<1>7. \A i : OpenOf(i)' = OpenOf(i)
  BY <1>1, <1>4, <1>5, <1>6 DEF OpenOf
<1>8. \A i : Plannable(i)' <=> Plannable(i)
  BY <1>1, <1>6 DEF Plannable
<1>9. Plans' = Plans
  BY <1>1, <1>3, <1>6, <1>8 DEF Plans
<1>10. \A p : Answers(p)' = Answers(p)
  BY <1>2 DEF Answers
<1>11. NotFoundProbe' = NotFoundProbe
  BY <1>1 DEF NotFoundProbe
<1>12. Export404' = Export404
  BY <1>2, <1>3, <1>11 DEF Export404, Plannable404
<1>13. AskedFor' = AskedFor
  BY <1>1, <1>3, <1>5, <1>6, <1>9 DEF AskedFor
<1>14. \A p : Fair(p)' <=> Fair(p)
  BY <1>3, <1>10 DEF Fair
<1>. QED BY <1>2, <1>3, <1>4, <1>5, <1>7, <1>9, <1>10, <1>12, <1>13, <1>14

-----------------------------------------------------------------------------
\* What is on the queue may be a file, and is asked for.
QueueIsFair ==
    queue \in Seq(Range(queue)) /\ \A p \in Range(queue) : Fair(p) /\ Names(p) \in AskedFor

\* Nothing that is listed is lost.
QueueIsWhole ==
    /\ \A i \in Plans \ unlisted : OpenOf(i) \subseteq Range(queue)
    /\ \A p \in listed : GuardOfPath(p) \/ p \in Range(queue)

\* a file that is the page asked for
IsAskedFor(f) ==
    /\ f \in AskedFor /\ stage[f] = MatchRoute(AsIs(f), PagePatterns)
    /\ ~GoGuard(f) /\ ~Covers(exported.matcher, AsIs(f))

Also404 == IF Export404 THEN {<<"404.html">>} ELSE {}

FilesInv ==
    /\ exported \in ExportApps /\ failures \in Nat
    /\ exportStep # "done" => site = before /\ exportCode = 0 /\ (failures # 0 => trouble)
    /\ exportStep = "plans" => failures = 0
    /\ exportStep \in {"builds", "boots", "lists"} =>
          failures = 0 /\ unlisted \subseteq Plans /\ QueueIsFair /\ QueueIsWhole
    /\ exportStep = "renders" =>
          /\ QueueIsFair
          /\ \A f \in DOMAIN stage : IsAskedFor(f)
          /\ failures = 0 => AskedFor \subseteq DOMAIN stage \cup {Names(p) : p \in Range(queue)}
    /\ exportStep = "copies" =>
          /\ \A f \in DOMAIN stage \ {<<"404.html">>} : IsAskedFor(f)
          /\ failures = 0 => DOMAIN stage = AskedFor \cup Also404
    /\ SiteIsTheLastWholeExport

LEMMA NoPaths == <<>> \in Seq(Range(<<>>)) /\ Range(<<>>) = {}
  BY EmptySeq, LenProperties DEF Range

LEMMA PlanFiles ==
  ASSUME FilesInv, Plan PROVE FilesInv'
<1>1. exported' = exported
  BY DEF Plan, fixed
<1>2. /\ exportStep = "plans" /\ exportStep' \in {"builds", "lists"}
      /\ unlisted' = Plans /\ listed' = {} /\ queue' = <<>>
      /\ UNCHANGED <<site, before, failures, trouble, exportCode>>
  BY DEF Plan, fixed
<1>3. QueueIsFair' /\ QueueIsWhole'
  BY <1>1, <1>2, NoPaths, TheAppStays DEF QueueIsFair, QueueIsWhole
<1>4. unlisted' \subseteq Plans' /\ failures' = 0
  BY <1>1, <1>2, TheAppStays DEF FilesInv
<1>5. SiteIsTheLastWholeExport'
  BY <1>2 DEF SiteIsTheLastWholeExport
<1>. QED BY <1>1, <1>2, <1>3, <1>4, <1>5 DEF FilesInv

\* What neither lists nor renders.
LEMMA BootFiles ==
  ASSUME FilesInv, BuildsApi \/ ApiAnswers \/ ApiExits \/ UNCHANGED exportVars PROVE FilesInv'
<1>1. exported' = exported /\ UNCHANGED <<plan, stage, site, before, failures, exportCode>>
  BY DEF BuildsApi, ApiAnswers, ApiExits, exportVars, fixed, plan
<1>2. /\ trouble => trouble'
      /\ exportStep' = exportStep \/ {exportStep, exportStep'} \subseteq {"builds", "boots", "lists"}
  BY DEF BuildsApi, ApiAnswers, ApiExits, exportVars
<1>3. UNCHANGED <<unlisted, listed, queue>>
  BY <1>1 DEF plan
<1>4. (QueueIsFair => QueueIsFair') /\ (QueueIsWhole => QueueIsWhole')
  BY <1>1, <1>3, TheAppStays DEF QueueIsFair, QueueIsWhole
<1>5. \A f : IsAskedFor(f) => IsAskedFor(f)'
  BY <1>1, TheAppStays DEF IsAskedFor
<1>6. Also404' = Also404
  BY <1>1, TheAppStays DEF Also404
<1>7. SiteIsTheLastWholeExport'
  <2>1. CASE exportStep' # "done"
    BY <2>1 DEF SiteIsTheLastWholeExport
  <2>2. CASE exportStep' = "done"
    <3>1. exportStep = "done" /\ SiteIsTheLastWholeExport
      BY <1>2, <2>2 DEF FilesInv
    <3>. QED BY <1>1, <1>2, <3>1, TheAppStays DEF SiteIsTheLastWholeExport
  <2>. QED BY <2>1, <2>2
<1>8. AskedFor' = AskedFor /\ Plans' = Plans
  BY <1>1, TheAppStays
<1>. QED BY <1>1, <1>2, <1>3, <1>4, <1>5, <1>6, <1>7, <1>8 DEF FilesInv

\* A command that gives up, or has nothing to do.
LEMMA GivesUpFiles ==
  ASSUME FilesInv, NothingExportable \/ (GivesUp /\ exportStep # "done") PROVE FilesInv'
<1>1. /\ exportStep # "done" /\ exportStep' = "done" /\ exportCode' = 1 /\ trouble' = TRUE
      /\ UNCHANGED <<exported, site, before, failures>>
  BY DEF NothingExportable, GivesUp, fixed
<1>2. SiteIsTheLastWholeExport'
  BY <1>1 DEF SiteIsTheLastWholeExport, FilesInv
<1>. QED BY <1>1, <1>2 DEF FilesInv

LEMMA StagesFiles ==
  ASSUME FilesInv, Stages PROVE FilesInv'
<1>1. exported' = exported
  BY DEF Stages, fixed
<1>2. /\ exportStep = "lists" /\ exportStep' = "renders" /\ unlisted = {} /\ stage' = <<>>
      /\ UNCHANGED <<unlisted, listed, queue, site, before, failures, trouble, exportCode>>
  BY DEF Stages, plan, fixed, NoFiles
<1>3. QueueIsFair' /\ QueueIsWhole /\ failures = 0
  BY <1>1, <1>2, TheAppStays DEF FilesInv, QueueIsFair
<1>4. DOMAIN stage' = {}
  BY <1>2, LenProperties, EmptySeq
<1>5. AskedFor \subseteq {Names(p) : p \in Range(queue)}
  BY <1>2, <1>3, AskedForIsOpen DEF QueueIsWhole, FilesInv
<1>6. AskedFor' \subseteq DOMAIN stage' \cup {Names(p) : p \in Range(queue')}
  BY <1>1, <1>2, <1>5, TheAppStays
<1>7. SiteIsTheLastWholeExport'
  BY <1>2 DEF SiteIsTheLastWholeExport
<1>. QED BY <1>1, <1>2, <1>3, <1>4, <1>6, <1>7 DEF FilesInv

LEMMA ListsFiles ==
  ASSUME FilesInv, ListsPage PROVE FilesInv'
<1>1. exported' = exported
  BY DEF ListsPage, fixed
<1>2. PICK i \in unlisted :
        /\ Listing(i) /\ unlisted' = unlisted \ {i}
        /\ IF ~Dynamic(i)
           THEN queue' = Append(queue, AsIs(Page(i).pattern)) /\ UNCHANGED listed
           ELSE LET paths == FoldLeft(ListsPath, [seen |-> listed, open |-> queue], PathsOf(i))
                IN Fillable(i) /\ queue' = paths.open /\ listed' = paths.seen
  BY DEF ListsPage
<1>3. /\ exportStep = "lists" /\ exportStep' = "lists"
      /\ UNCHANGED <<site, before, failures, trouble, exportCode>>
  BY <1>2 DEF Listing, ListsPage, fixed
<1>4. exported \in ExportApps /\ i \in Plans /\ QueueIsFair /\ QueueIsWhole /\ failures = 0 /\ unlisted \subseteq Plans
  BY <1>2, <1>3 DEF FilesInv
<1>5. /\ queue' \in Seq(Range(queue')) /\ Range(queue) \subseteq Range(queue')
      /\ Range(queue') \subseteq Range(queue) \cup OpenOf(i) /\ OpenOf(i) \subseteq Range(queue')
      /\ \A p \in listed' : GuardOfPath(p) \/ p \in Range(queue')
      /\ Dynamic(i) => Fillable(i)
  <2>0. queue \in Seq(Range(queue)) /\ \A p \in listed : GuardOfPath(p) \/ p \in Range(queue)
    BY <1>4 DEF QueueIsFair, QueueIsWhole
  <2>1. CASE ~Dynamic(i)
    <3> DEFINE x == AsIs(Page(i).pattern)
               All == Range(queue) \cup {x}
    <3>1. queue \in Seq(All) /\ x \in All /\ queue' = Append(queue, x) /\ listed' = listed
      BY <1>2, <2>0, <2>1
    <3>2. queue' \in Seq(All) /\ Range(queue') = Range(queue) \cup {x}
      BY <3>1, OneMore
    <3>3. queue' \in Seq(Range(queue'))
      BY <3>2, OfItsRange
    <3>4. OpenOf(i) = {x}
      BY <2>1 DEF OpenOf
    <3>. QED BY <2>0, <2>1, <3>1, <3>2, <3>3, <3>4
  <2>2. CASE Dynamic(i)
    <3> DEFINE found == FoldLeft(ListsPath, [seen |-> listed, open |-> queue], PathsOf(i))
               paths == PathsOf(i)
               All == Range(queue) \cup listed \cup Range(paths)
    <3>1. Fillable(i) /\ queue' = found.open /\ listed' = found.seen
      BY <1>2, <2>2
    <3>2. paths \in Seq(Range(paths))
      BY <1>4, <2>2, PathsAreASequence
    <3>3. listed \in SUBSET All /\ queue \in Seq(All) /\ paths \in Seq(All)
      BY <2>0, <3>2
    <3> HIDE DEF All
    <3>4. /\ found.open \in Seq(All) /\ Range(queue) \subseteq Range(found.open)
          /\ Range(found.open) \subseteq Range(queue) \cup {p \in Range(paths) : ~GuardOfPath(p)}
          /\ Range(paths) \subseteq found.seen
          /\ \A p \in found.seen : GuardOfPath(p) \/ p \in Range(found.open)
      BY <2>0, <3>3, ListsPaths
    <3>5. OpenOf(i) = {p \in Range(paths) : ~GuardOfPath(p)}
      BY <2>2 DEF OpenOf
    <3> HIDE DEF found, paths
    <3>6. queue' \in Seq(Range(queue'))
      BY <3>1, <3>4, OfItsRange
    <3>. QED BY <3>1, <3>4, <3>5, <3>6
  <2>. QED BY <2>1, <2>2
<1>6. \A p \in Range(queue') : Fair(p) /\ Names(p) \in AskedFor
  <2>1. \A p \in OpenOf(i) : Fair(p) /\ Names(p) \in AskedFor
    BY <1>4, <1>5, OpenIsFair, AskedForIsOpen
  <2>. QED BY <1>4, <1>5, <2>1 DEF QueueIsFair
<1>7. QueueIsFair'
  BY <1>1, <1>5, <1>6, TheAppStays DEF QueueIsFair
<1>8. QueueIsWhole'
  <2>1. \A j \in Plans \ unlisted' : OpenOf(j) \subseteq Range(queue')
    BY <1>2, <1>4, <1>5 DEF QueueIsWhole
  <2>. QED BY <1>1, <1>5, <2>1, TheAppStays DEF QueueIsWhole
<1>9. unlisted' \subseteq Plans'
  BY <1>1, <1>2, <1>4, TheAppStays
<1>10. SiteIsTheLastWholeExport'
  BY <1>3 DEF SiteIsTheLastWholeExport
<1>. QED BY <1>1, <1>3, <1>7, <1>8, <1>9, <1>10 DEF FilesInv

LEMMA RenderedFiles ==
  ASSUME FilesInv, Rendered PROVE FilesInv'
<1>1. exported' = exported
  BY DEF Rendered, fixed
<1> DEFINE p == Head(queue)
           i == Answers(p)
<1>2. /\ exportStep = "renders" /\ exportStep' = "renders" /\ queue # <<>> /\ queue' = Tail(queue)
      /\ stage' = WithFile(File(p), i)
      /\ UNCHANGED <<site, before, failures, trouble, exportCode>>
  BY DEF Rendered, fixed
<1>3. queue \in Seq(Range(queue)) /\ \A x \in Range(queue) : Fair(x) /\ Names(x) \in AskedFor
  BY <1>2 DEF FilesInv, QueueIsFair
<1>4. queue' \in Seq(Range(queue)) /\ p \in Range(queue) /\ Range(queue) = {p} \cup Range(queue')
  BY <1>2, <1>3, HeadAndRest
<1>5. queue' \in Seq(Range(queue'))
  BY <1>4, OfItsRange
<1>6. QueueIsFair'
  BY <1>1, <1>3, <1>4, <1>5, TheAppStays DEF QueueIsFair
<1>7. File(p) = Names(p) /\ Names(p) \in AskedFor /\ ~GoGuard(Names(p)) /\ ~Covers(exported.matcher, AsIs(Names(p)))
  BY <1>3, <1>4 DEF Fair
<1>8. i = MatchRoute(AsIs(Names(p)), PagePatterns)
  BY <1>7 DEF Answers, File, OutputPath
<1> HIDE DEF p, i
<1>9. /\ DOMAIN stage' = DOMAIN stage \cup {Names(p)} /\ stage'[Names(p)] = i
      /\ \A f \in DOMAIN stage \ {Names(p)} : stage'[f] = stage[f]
  BY <1>2, <1>7 DEF WithFile
<1>10. ASSUME NEW f \in DOMAIN stage' PROVE IsAskedFor(f)'
  <2>1. CASE f = Names(p)
    BY <1>1, <1>7, <1>8, <1>9, <2>1, TheAppStays DEF IsAskedFor
  <2>2. CASE f # Names(p)
    <3>1. IsAskedFor(f)
      BY <1>2, <1>9, <2>2 DEF FilesInv
    <3>2. stage'[f] = stage[f]
      BY <1>9, <2>2
    <3>. QED BY <1>1, <3>1, <3>2, TheAppStays DEF IsAskedFor
  <2>. QED BY <2>1, <2>2
<1>11. failures' = 0 => AskedFor' \subseteq DOMAIN stage' \cup {Names(x) : x \in Range(queue')}
  <2>1. AskedFor' = AskedFor
    BY <1>1, TheAppStays
  <2>2. failures = 0 => AskedFor \subseteq DOMAIN stage \cup {Names(x) : x \in Range(queue)}
    BY <1>2 DEF FilesInv
  <2>3. {Names(x) : x \in Range(queue)} = {Names(p)} \cup {Names(x) : x \in Range(queue')}
    BY <1>4
  <2>. QED BY <1>2, <1>9, <2>1, <2>2, <2>3
<1>12. SiteIsTheLastWholeExport'
  BY <1>2 DEF SiteIsTheLastWholeExport
<1>. QED BY <1>1, <1>2, <1>6, <1>10, <1>11, <1>12 DEF FilesInv

LEMMA NotRenderedFiles ==
  ASSUME FilesInv, NotRendered PROVE FilesInv'
<1>1. exported' = exported
  BY DEF NotRendered, fixed
<1>2. /\ exportStep = "renders" /\ exportStep' = "renders" /\ queue # <<>> /\ queue' = Tail(queue)
      /\ failures' = failures + 1 /\ trouble' = (trouble \/ Answers(Head(queue)) # 0)
      /\ UNCHANGED <<stage, site, before, exportCode>>
  BY DEF NotRendered, fixed
<1>3. queue \in Seq(Range(queue)) /\ \A x \in Range(queue) : Fair(x) /\ Names(x) \in AskedFor
  BY <1>2 DEF FilesInv, QueueIsFair
<1>4. queue' \in Seq(Range(queue)) /\ Head(queue) \in Range(queue)
      /\ Range(queue) = {Head(queue)} \cup Range(queue')
  BY <1>2, <1>3, HeadAndRest
<1>5. queue' \in Seq(Range(queue'))
  BY <1>4, OfItsRange
<1>6. QueueIsFair'
  BY <1>1, <1>3, <1>4, <1>5, TheAppStays DEF QueueIsFair
<1>7. trouble' /\ failures' \in Nat /\ failures' # 0
  <2>1. Answers(Head(queue)) # 0
    BY <1>3, <1>4 DEF Fair
  <2>2. trouble'
    BY <1>2, <2>1
  <2>. QED BY <1>2, <2>2 DEF FilesInv
<1>8. \A f \in DOMAIN stage' : IsAskedFor(f)'
  BY <1>1, <1>2, TheAppStays DEF FilesInv, IsAskedFor
<1>9. SiteIsTheLastWholeExport'
  BY <1>2 DEF SiteIsTheLastWholeExport
<1>. QED BY <1>1, <1>2, <1>6, <1>7, <1>8, <1>9 DEF FilesInv

LEMMA Rendered404Files ==
  ASSUME FilesInv, Rendered404 PROVE FilesInv'
<1> DEFINE name == <<"404.html">>
<1>1. exported' = exported
  BY DEF Rendered404, fixed
<1>2. /\ exportStep = "renders" /\ queue = <<>> /\ Export404 /\ exportStep' = "copies"
      /\ stage' = WithFile(name, 0)
      /\ UNCHANGED <<site, before, failures, trouble, exportCode>>
  BY DEF Rendered404, Asks404, fixed
<1>3. /\ DOMAIN stage' = DOMAIN stage \cup {name}
      /\ \A f \in DOMAIN stage \ {name} : stage'[f] = stage[f]
  BY <1>2 DEF WithFile
<1>4. /\ \A f \in DOMAIN stage : IsAskedFor(f)
      /\ failures = 0 => AskedFor \subseteq DOMAIN stage
  BY <1>2, NoPaths DEF FilesInv
<1>5. ASSUME NEW f \in DOMAIN stage' \ {name} PROVE IsAskedFor(f)'
  <2>1. IsAskedFor(f) /\ stage'[f] = stage[f]
    BY <1>3, <1>4
  <2>. QED BY <1>1, <2>1, TheAppStays DEF IsAskedFor
<1>6. failures' = 0 => DOMAIN stage' = AskedFor' \cup Also404'
  <2>1. AskedFor' = AskedFor /\ Also404' = {name}
    BY <1>1, <1>2, TheAppStays DEF Also404
  <2>2. DOMAIN stage \subseteq AskedFor
    BY <1>4 DEF IsAskedFor
  <2>. QED BY <1>2, <1>3, <1>4, <2>1, <2>2
<1>7. SiteIsTheLastWholeExport'
  BY <1>2 DEF SiteIsTheLastWholeExport
<1>. QED BY <1>1, <1>2, <1>5, <1>6, <1>7 DEF FilesInv

LEMMA NotRendered404Files ==
  ASSUME FilesInv, NotRendered404 PROVE FilesInv'
<1>1. exported' = exported
  BY DEF NotRendered404, fixed
<1>2. /\ exportStep = "renders" /\ exportStep' = "copies"
      /\ failures' = failures + 1 /\ trouble' = (trouble \/ Probed = 0)
      /\ UNCHANGED <<stage, site, before, exportCode>>
  BY DEF NotRendered404, Asks404, fixed
<1>3. trouble' /\ failures' \in Nat /\ failures' # 0
  <2>1. Probed = 0
    BY NobodyAnswersTheProbe DEF FilesInv, Probed
  <2>2. trouble'
    BY <1>2, <2>1
  <2>. QED BY <1>2, <2>2 DEF FilesInv
<1>4. \A f \in DOMAIN stage' : IsAskedFor(f)'
  BY <1>1, <1>2, TheAppStays DEF FilesInv, IsAskedFor
<1>5. SiteIsTheLastWholeExport'
  BY <1>2 DEF SiteIsTheLastWholeExport
<1>. QED BY <1>1, <1>2, <1>3, <1>4, <1>5 DEF FilesInv

LEMMA No404Files ==
  ASSUME FilesInv, No404 PROVE FilesInv'
<1>1. exported' = exported
  BY DEF No404, fixed
<1>2. /\ exportStep = "renders" /\ queue = <<>> /\ ~Export404 /\ exportStep' = "copies"
      /\ UNCHANGED <<stage, site, before, failures, trouble, exportCode>>
  BY DEF No404, fixed
<1>3. /\ \A f \in DOMAIN stage : IsAskedFor(f)
      /\ failures = 0 => AskedFor \subseteq DOMAIN stage
  BY <1>2, NoPaths DEF FilesInv
<1>4. \A f \in DOMAIN stage' : IsAskedFor(f)'
  BY <1>1, <1>2, <1>3, TheAppStays DEF IsAskedFor
<1>5. failures' = 0 => DOMAIN stage' = AskedFor' \cup Also404'
  <2>1. AskedFor' = AskedFor /\ Also404' = {}
    BY <1>1, <1>2, TheAppStays DEF Also404
  <2>2. DOMAIN stage \subseteq AskedFor
    BY <1>3 DEF IsAskedFor
  <2>. QED BY <1>2, <1>3, <2>1, <2>2
<1>6. SiteIsTheLastWholeExport'
  BY <1>2 DEF SiteIsTheLastWholeExport
<1>. QED BY <1>1, <1>2, <1>4, <1>5, <1>6 DEF FilesInv

LEMMA EndsFiles ==
  ASSUME FilesInv, EndsExport PROVE FilesInv'
<1>1. exported' = exported
  BY DEF EndsExport, fixed
<1>2. /\ exportStep = "copies" /\ exportStep' = "done"
      /\ site' = IF failures = 0 THEN stage ELSE site
      /\ exportCode' = IF failures = 0 THEN 0 ELSE 1
      /\ UNCHANGED <<before, failures, trouble>>
  BY DEF EndsExport, fixed, Publishes
<1>3. CASE failures = 0
  <2>1. site' = stage /\ exportCode' = 0 /\ DOMAIN stage = AskedFor \cup Also404
        /\ \A f \in DOMAIN stage \ {<<"404.html">>} : IsAskedFor(f)
    BY <1>2, <1>3 DEF FilesInv
  <2>2. DOMAIN site' = AskedFor' \cup Also404'
    BY <1>1, <2>1, TheAppStays DEF Also404
  <2>3. \A f \in DOMAIN site' \ {<<"404.html">>} :
           /\ site'[f] = MatchRoute(AsIs(f), PagePatterns')
           /\ ~GoGuard(f)' /\ ~Covers(exported'.matcher, AsIs(f))
    BY <1>1, <2>1, TheAppStays DEF IsAskedFor
  <2>4. SiteIsTheLastWholeExport'
    BY <2>1, <2>2, <2>3 DEF SiteIsTheLastWholeExport, Also404
  <2>. QED BY <1>1, <1>2, <2>4 DEF FilesInv
<1>4. CASE failures # 0
  <2>1. site = before /\ trouble
    BY <1>2, <1>4 DEF FilesInv
  <2>2. SiteIsTheLastWholeExport'
    BY <1>2, <1>4, <2>1 DEF SiteIsTheLastWholeExport
  <2>. QED BY <1>1, <1>2, <2>2 DEF FilesInv
<1>. QED BY <1>3, <1>4

LEMMA FilesStep ==
  ASSUME FilesInv, [ExportNext]_exportVars PROVE FilesInv'
<1>1. CASE BuildFails \/ ApiNeverAnswered \/ ListFails
  BY <1>1, GivesUpFiles DEF BuildFails, ApiNeverAnswered, ListFails, Listing
<1>. QED BY <1>1, PlanFiles, BootFiles, GivesUpFiles, StagesFiles, ListsFiles, RenderedFiles, NotRenderedFiles,
            Rendered404Files, NotRendered404Files, No404Files, EndsFiles DEF ExportNext

\* An export that ends has published a file for each page an author asked
\* for, where a static host finds it and the page's own render, and none that
\* a guard covers; or it left the site that was there, and what failed was not
\* the export's doing. Whichever, nothing runs and nothing is left (export.ts
\* 380, 407, 548, 591).
THEOREM ExportsWhole == ExportSpec => []ExportsAreWhole
<1>1. ExportInit => FilesInv
  BY DEF ExportInit, FilesInv, SiteIsTheLastWholeExport
<1>2. FilesInv => SiteIsTheLastWholeExport
  BY DEF FilesInv
<1>. QED BY <1>1, <1>2, FilesStep, ExportsKeepToThemselves, PTL DEF ExportSpec, ExportsAreWhole
=============================================================================
