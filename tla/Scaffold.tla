------------------------------ MODULE Scaffold ------------------------------
(***************************************************************************)
(* create-borgo after its questions (packages/create-borgo/src/cli.ts): the *)
(* directory, the repository made last with every git command under a       *)
(* bound, then the dependencies, the go modules and the dev server. A       *)
(* command killed at its bound has done some of its work, all or none, and  *)
(* what the summary says of the disk is asked of git again. A command that  *)
(* ends by itself has done its work exactly when its status is 0.           *)
(***************************************************************************)
EXTENDS Naturals, FiniteSets

CONSTANTS
    Wishes,         \* [git, install, start]: what was answered
    Surroundings    \* what the command runs in:
                    \*  target: none, empty, full or file;  git: there, missing or unrunnable;
                    \*  nested: inside another repository;  identity: git has a name to commit by;
                    \*  redirect: none, env (GIT_DIR and its like) or template (init.templateDir,
                    \*  whose repository has a commit);     go: a version that will do

VARIABLES
    wish, surroundings,
    scaffoldAt,             \* the step of the command
    disk,           \* [repo: none, partial or whole, staged, lock, head: none, theirs or ours]
    unheard,        \* git was asked for its template and never answered
    gitResult,      \* how initGit ended
    repoSays,       \* what repoState found: nothing asked, unsure, or three answers
    installed, tidied,
    todo,           \* the next steps printed
    status            \* the exit status, or Running

scaffoldVars == <<wish, surroundings, scaffoldAt, disk, unheard, gitResult, repoSays, installed, tidied, todo, status>>
given == <<wish, surroundings>>
summary == <<gitResult, repoSays>>
steps == <<installed, tidied, todo>>

Running == 2
NoRepo == [repo |-> "none", staged |-> FALSE, lock |-> FALSE, head |-> "none"]
Unasked == [asked |-> FALSE]
Unsure == [asked |-> TRUE, sure |-> FALSE]

ScaffoldInit ==
    /\ wish \in Wishes /\ surroundings \in Surroundings
    /\ scaffoldAt = "target" /\ disk = NoRepo /\ unheard = FALSE
    /\ gitResult = "running" /\ repoSays = Unasked
    /\ installed = FALSE /\ tidied = FALSE /\ todo = {} /\ status = Running

-----------------------------------------------------------------------------
\* The directory.

TargetTaken ==
    /\ scaffoldAt = "target" /\ surroundings.target \in {"full", "file"}
    /\ scaffoldAt' = "ended" /\ status' = 1
    /\ UNCHANGED <<given, disk, unheard, summary, steps>>
Copies ==
    /\ scaffoldAt = "target" /\ surroundings.target \in {"none", "empty"}
    /\ \/ scaffoldAt' = (IF wish.git THEN "environment" ELSE "summary") /\ UNCHANGED status
       \/ scaffoldAt' = "ended" /\ status' = 1
    /\ UNCHANGED <<given, disk, unheard, summary, steps>>

-----------------------------------------------------------------------------
\* runGit: a command ends, or is killed at its bound.

Reports(result) ==
    /\ scaffoldAt' = "summary" /\ gitResult' = result /\ UNCHANGED repoSays
AsksTheDisk == scaffoldAt' = "head" /\ gitResult' = "unresponsive" /\ UNCHANGED repoSays
GoesOn(to) == scaffoldAt' = to /\ UNCHANGED summary

\* git exports these to what it runs: it would be an unrelated repository.
Environment ==
    /\ scaffoldAt = "environment"
    /\ IF surroundings.redirect = "env" THEN Reports("git-env") ELSE GoesOn("nested")
    /\ UNCHANGED <<given, disk, unheard, steps, status>>

InsideWorkTree ==
    CASE surroundings.git = "missing"    -> {"unavailable"}
      [] surroundings.git = "unrunnable" -> {"unrunnable"}
      [] surroundings.git \notin {"missing", "unrunnable"} /\ surroundings.nested ->
            {"nested", "unresponsive"}
      [] OTHER                    -> {"template", "unresponsive"}
AsksNested ==
    /\ scaffoldAt = "nested"
    /\ \E answer \in InsideWorkTree :
          IF answer = "template" THEN GoesOn(answer) ELSE Reports(answer)
    /\ UNCHANGED <<given, disk, unheard, steps, status>>

\* A git that does not answer in time counts as one without a template.
AsksTemplate ==
    /\ scaffoldAt = "template"
    /\ \/ /\ UNCHANGED unheard
          /\ IF surroundings.redirect = "template" THEN Reports("git-env") ELSE GoesOn("init")
       \/ GoesOn("init") /\ unheard' = (surroundings.redirect = "template")
    /\ UNCHANGED <<given, disk, steps, status>>

FreshRepo == [NoRepo EXCEPT !.repo = "whole", !.head = IF unheard THEN "theirs" ELSE "none"]
Inits ==
    /\ scaffoldAt = "init"
    /\ \/ disk' = FreshRepo /\ GoesOn("add")
       \/ disk' \in {NoRepo, [NoRepo EXCEPT !.repo = "partial"]} /\ Reports("init-failed")
       \/ disk' \in {NoRepo, [NoRepo EXCEPT !.repo = "partial"], FreshRepo} /\ AsksTheDisk
    /\ UNCHANGED <<given, unheard, steps, status>>

Staged == [disk EXCEPT !.staged = TRUE]
Adds ==
    /\ scaffoldAt = "add"
    /\ \/ disk' = Staged /\ GoesOn("commit")
       \/ UNCHANGED disk /\ Reports("stage-failed")
       \/ disk' \in {disk, [disk EXCEPT !.lock = TRUE], Staged} /\ AsksTheDisk
    /\ UNCHANGED <<given, unheard, steps, status>>

Committed == [disk EXCEPT !.staged = FALSE, !.head = "ours"]
Commits ==
    /\ scaffoldAt = "commit"
    /\ \/ surroundings.identity /\ disk' = Committed /\ Reports("created")
       \/ UNCHANGED disk /\ GoesOn("identity")
       \/ disk' \in {disk, [disk EXCEPT !.lock = TRUE], Committed} /\ AsksTheDisk
    /\ UNCHANGED <<given, unheard, steps, status>>

\* git var names the reason, or nobody does: a hook refused, the bound passed.
AsksIdentity ==
    /\ scaffoldAt = "identity"
    /\ \/ Reports(IF surroundings.identity THEN "commit-failed" ELSE "no-identity")
       \/ Reports("commit-failed")
    /\ UNCHANGED <<given, disk, unheard, steps, status>>

-----------------------------------------------------------------------------
\* repoState: two questions to git, each under a tenth of the bound.

HasHead == disk.repo = "whole" /\ disk.head # "none"
AsksHead ==
    /\ scaffoldAt = "head"
    /\ \/ scaffoldAt' = "staged" /\ repoSays' = [asked |-> TRUE, sure |-> TRUE, commit |-> HasHead, staged |-> FALSE, lock |-> FALSE]
       \/ scaffoldAt' = "summary" /\ repoSays' = Unsure
    /\ UNCHANGED <<given, disk, unheard, gitResult, steps, status>>

\* slip: no answer is the answer of a repository with nothing staged.
SilenceIsNothing == repoSays
\* Without this answer an unborn head and no repository look the same.
Silence == Unsure
AsksStaged ==
    /\ scaffoldAt = "staged" /\ scaffoldAt' = "summary"
    /\ \/ disk.repo = "whole" /\ repoSays' = [repoSays EXCEPT !.staged = disk.staged, !.lock = disk.lock]
       \/ repoSays' = Silence
    /\ UNCHANGED <<given, disk, unheard, gitResult, steps, status>>

-----------------------------------------------------------------------------
\* The summary is printed, then the dependencies.

Summarises ==
    /\ scaffoldAt = "summary"
    /\ gitResult' = IF wish.git THEN gitResult ELSE "unavailable"
    /\ IF wish.install THEN scaffoldAt' = "dependencies" /\ UNCHANGED <<todo, status>>
       ELSE scaffoldAt' = "ended" /\ status' = 0 /\ todo' = {"bun install", "go mod tidy", "bun run dev"}
    /\ UNCHANGED <<given, disk, unheard, repoSays, installed, tidied>>

\* A go that answers within its bound, of a version that is new enough.
GoWillDo == surroundings.go
\* runStep: a failure and a bound that passed are the same.
Dependencies ==
    /\ scaffoldAt = "dependencies" /\ installed' \in BOOLEAN
    /\ scaffoldAt' = IF installed' /\ GoWillDo THEN "modules" ELSE "next"
    /\ UNCHANGED <<given, disk, unheard, summary, tidied, todo, status>>
GoModules ==
    /\ scaffoldAt = "modules" /\ tidied' \in BOOLEAN /\ scaffoldAt' = "next"
    /\ UNCHANGED <<given, disk, unheard, summary, installed, todo, status>>

Ready == installed /\ tidied

NextSteps ==
    /\ scaffoldAt = "next"
    /\ IF Ready /\ wish.start THEN scaffoldAt' = "dev" /\ UNCHANGED <<todo, status>>
       ELSE /\ todo' = (IF installed THEN {} ELSE {"bun install"}) \cup
                       (IF GoWillDo THEN {} ELSE {"install go"}) \cup
                       (IF ~tidied THEN {"go mod tidy"} ELSE {}) \cup {"bun run dev"}
            /\ status' = (IF Ready THEN 0 ELSE 1) /\ scaffoldAt' = "ended"
    /\ UNCHANGED <<given, disk, unheard, summary, installed, tidied>>

\* The dev server decides the status, a signal is passed on to it.
DevServer ==
    /\ scaffoldAt = "dev" /\ scaffoldAt' = "ended" /\ status' \in {0, 1}
    /\ UNCHANGED <<given, disk, unheard, summary, steps>>

ScaffoldNext ==
    \/ TargetTaken \/ Copies \/ Environment \/ AsksNested \/ AsksTemplate
    \/ Inits \/ Adds \/ Commits \/ AsksIdentity \/ AsksHead \/ AsksStaged
    \/ Summarises \/ Dependencies \/ GoModules \/ NextSteps \/ DevServer

ScaffoldSpec == ScaffoldInit /\ [][ScaffoldNext]_scaffoldVars

-----------------------------------------------------------------------------
\* What each outcome says of the disk.
SaidOfTheDisk ==
    /\ gitResult = "created" => disk.head = "ours" /\ ~disk.staged
    /\ gitResult = "init-failed" => disk.repo # "whole"
    /\ gitResult = "stage-failed" => disk.repo = "whole" /\ ~disk.staged /\ disk.head # "ours"
    /\ gitResult \in {"commit-failed", "no-identity"} => disk.repo = "whole" /\ disk.staged /\ disk.head # "ours"
    /\ gitResult \in {"git-env", "nested", "unavailable", "unrunnable"} => disk = NoRepo
    /\ repoSays.asked /\ repoSays.sure =>
          /\ repoSays.commit = (disk.head = "ours") /\ repoSays.staged = disk.staged
          /\ repoSays.lock = disk.lock

\* Every sentence of the summary about the disk is what the disk holds
\* (cli.ts 522: "never assert from control flow"), whatever was killed at its
\* bound; an enclosing repository, or the one an environment names, is left
\* alone. Only a git that never said it has a template can put another's
\* history under it. The next steps are exactly what is still to be done.
SummaryIsTrue ==
    /\ (scaffoldAt = "summary" \/ status # Running) /\ ~unheard => SaidOfTheDisk
    /\ surroundings.nested \/ surroundings.redirect = "env" \/ ~wish.git => disk = NoRepo
    /\ todo # {} =>
          /\ ("bun install" \in todo <=> ~installed) /\ ("go mod tidy" \in todo <=> ~tidied)
          /\ wish.install => ("install go" \in todo <=> ~surroundings.go) /\ (status = 0 <=> Ready)
=============================================================================
