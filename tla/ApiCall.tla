------------------------------- MODULE ApiCall -------------------------------
(***************************************************************************)
(* The calls one page request makes to the go api (makeApiClient of        *)
(* api.ts, requestApiClient of util.ts, callExport of go-call.ts), several *)
(* at once: retried while the connection is refused, abandoned at the      *)
(* deadline the caller gave, and each answer's cookies kept for the next   *)
(* call and for the browser.                                               *)
(*                                                                         *)
(* A jar is the Cookie header, a sequence of pairs; a Set-Cookie is a pair *)
(* whose value may be Expired.                                             *)
(***************************************************************************)
EXTENDS Naturals, Sequences, FiniteSets, SequencesExt

CONSTANTS
    Calls,
    Kinds,       \* [Calls -> {"api", "timed", "export"}]
    Headers,     \* the Cookie headers a browser may send
    Answers,     \* the Set-Cookie headers an answer may carry, sequences
    Expired,
    Retries      \* API_RETRIES, or the patience of a dev server

ASSUME CallAssumption ==
    /\ \A sent \in Headers \cup Answers : sent \in Seq(Range(sent))
    /\ Kinds \in [Calls -> {"api", "timed", "export"}]
    /\ Retries \in Nat

VARIABLES
    cookie,      \* the Cookie header of the request
    jar,         \* the one the next call carries
    collected,   \* the cookies collected for it and for the browser
    arrived,     \* those of every answer whose head arrived, in that order
    call,        \* where each call is
    attempt,     \* how often it was refused
    deadline,    \* its timer
    reached,     \* how often go was given it
    outcome      \* what its caller got

callVars == <<cookie, jar, collected, arrived, call, attempt, deadline, reached, outcome>>
jars == <<cookie, jar, collected, arrived>>

CallInit ==
    /\ cookie \in Headers
    /\ jar = cookie /\ collected = <<>> /\ arrived = <<>>
    /\ call = [c \in Calls |-> "idle"]
    /\ attempt = [c \in Calls |-> 0]
    /\ deadline = [c \in Calls |-> "none"]
    /\ reached = [c \in Calls |-> 0]
    /\ outcome = [c \in Calls |-> "none"]

-----------------------------------------------------------------------------
\* The pairs that are left when some names go, in their order.
Without(parts, names) ==
    FoldLeft(LAMBDA others, p : IF p.name \in names THEN others ELSE Append(others, p), <<>>, parts)

\* freshCookieHeader: a name go set takes its value where it stood, or goes, its
\* duplicates with it; every other pair passes as it was sent.
Replaced(parts, pair) ==
    LET named == {i \in DOMAIN parts : parts[i].name = pair.name}
        rest  == Without(parts, {pair.name})
        fresh == IF pair.value = Expired THEN <<>> ELSE <<pair>>
        first == IF named = {} THEN Len(rest) + 1 ELSE CHOOSE i \in named : \A j \in named : i <= j
    IN SubSeq(rest, 1, first - 1) \o fresh \o SubSeq(rest, first, Len(rest))

FreshCookieHeader(header, pairs) == FoldLeft(Replaced, header, pairs)

-----------------------------------------------------------------------------
Goes(c, from, to) == call[c] = from /\ call' = [call EXCEPT ![c] = to]
Aborted(c) == deadline[c] = "passed"

Gets(c, what) ==
    /\ call' = [call EXCEPT ![c] = "over"]
    /\ outcome' = [outcome EXCEPT ![c] = what]
    /\ deadline' = [deadline EXCEPT ![c] = "none"]

\* A route with no method, a parameter that is missing or would change the path,
\* a body no form carries, a process that is no render service.
Misused(c) ==
    /\ call[c] = "idle"
    /\ Gets(c, "misuse")
    /\ UNCHANGED <<jars, attempt, reached>>

\* What it carries is decided here, for all its attempts.
Begins(c) ==
    /\ Goes(c, "idle", "dialling")
    /\ deadline' = [deadline EXCEPT ![c] = IF Kinds[c] = "timed" THEN "running" ELSE "none"]
    /\ UNCHANGED <<jars, attempt, reached, outcome>>

\* slip: whatever failed is tried again.
RetriedAlways(c, error) == attempt[c] < Retries
Retried(c, error) == attempt[c] < Retries /\ error = "refused"

Fails(c, error) ==
    /\ IF Retried(c, error) THEN call' = [call EXCEPT ![c] = "resting"] /\ UNCHANGED <<outcome, deadline>>
                            ELSE Gets(c, "error")
    /\ attempt' = [attempt EXCEPT ![c] = @ + 1]

Refused(c) ==
    /\ call[c] = "dialling" /\ ~Aborted(c)
    /\ Fails(c, "refused")
    /\ UNCHANGED <<jars, reached>>

\* A quarter of a second later, aborted or not.
DialsAgain(c) ==
    /\ Goes(c, "resting", "dialling")
    /\ UNCHANGED <<jars, attempt, deadline, reached, outcome>>

Reaches(c) ==
    /\ Goes(c, "dialling", "asked") /\ ~Aborted(c)
    /\ reached' = [reached EXCEPT ![c] = @ + 1]
    /\ UNCHANGED <<jars, attempt, deadline, outcome>>

\* The connection is reset with the call in go's hands.
Reset(c) ==
    /\ call[c] = "asked"
    /\ Fails(c, "reset")
    /\ UNCHANGED <<jars, reached>>

Collected(c, status, pairs) == IF Kinds[c] = "export" THEN <<>> ELSE pairs

\* The head of the answer. The cookies are taken before the status is read, and
\* a redirect is an answer like any other.
Answered(c) ==
    /\ \E status \in {"ok", "empty", "failing"}, pairs \in Answers :
        /\ IF status = "empty" /\ Kinds[c] # "export"
           THEN Gets(c, "nothing")
           ELSE /\ call' = [call EXCEPT ![c] = IF status = "failing" THEN "failing" ELSE "reading"]
                /\ UNCHANGED <<outcome, deadline>>
        /\ collected' = collected \o Collected(c, status, pairs)
        /\ arrived' = IF Kinds[c] = "export" THEN arrived ELSE arrived \o pairs
    /\ call[c] = "asked"
    /\ jar' = FreshCookieHeader(cookie, collected')
    /\ UNCHANGED <<cookie, attempt, reached>>

\* The body, to its end.
Reads(c) ==
    /\ call[c] \in {"reading", "failing"}
    /\ \E json \in BOOLEAN :
        Gets(c, CASE Kinds[c] # "export" /\ call[c] = "failing" -> "status error"
                  [] ~json                                      -> "not json"
                  [] call[c] = "failing"                        -> "go error"
                  [] OTHER                                      -> "value")
    /\ UNCHANGED <<jars, attempt, reached>>

-----------------------------------------------------------------------------
Timed(c) == deadline[c] = "running"

DeadlinePasses(c) ==
    /\ Timed(c)
    /\ deadline' = [deadline EXCEPT ![c] = "passed"]
    /\ UNCHANGED <<jars, call, attempt, reached, outcome>>

\* What is waited for rejects. The head of an error's body is what it could get.
GivesUp(c) ==
    /\ Aborted(c) /\ call[c] \in {"dialling", "asked", "reading", "failing"}
    /\ Gets(c, IF call[c] = "failing" THEN "status error" ELSE "timeout")
    /\ UNCHANGED <<jars, attempt, reached>>

CallStep(c) ==
    \/ Misused(c) \/ Begins(c) \/ Refused(c) \/ DialsAgain(c) \/ Reaches(c) \/ Reset(c)
    \/ Answered(c) \/ Reads(c) \/ DeadlinePasses(c) \/ GivesUp(c)

CallNext == \E c \in Calls : CallStep(c)

\* The timers fire, and a fetch whose signal is aborted rejects.
CallFairness == \A c \in Calls : WF_callVars(DialsAgain(c)) /\ WF_callVars(DeadlinePasses(c)) /\ WF_callVars(GivesUp(c))

CallSpec == CallInit /\ [][CallNext]_callVars

-----------------------------------------------------------------------------
CallTypeOK ==
    /\ call \in [Calls -> {"idle", "dialling", "resting", "asked", "reading", "failing", "over"}]
    /\ attempt \in [Calls -> 0 .. Retries + 1]
    /\ deadline \in [Calls -> {"none", "running", "passed"}]

ValuesOf(header, name) == {header[i].value : i \in {j \in DOMAIN header : header[j].name = name}}
SetBy(pairs, name) == {i \in DOMAIN pairs : pairs[i].name = name}
Untouched(header, pairs) == Without(header, {p.name : p \in Range(pairs)})

\* The next call of a request is who the browser will be: what any answer so far
\* set, a failing one included and in the order the answers came, and nothing
\* else of the browser's own (util.ts 170: "register then upload in one action
\* is one session, not a signed-in call followed by an anonymous one").
JarsAgree ==
    /\ \A name \in {p.name : p \in Range(arrived)} :
        LET newest == arrived[CHOOSE i \in SetBy(arrived, name) : \A j \in SetBy(arrived, name) : j <= i].value
        IN ValuesOf(jar, name) = {newest} \ {Expired}
    /\ Untouched(jar, arrived) = Untouched(cookie, arrived)

\* Go is given a call at most once, however often it was tried: what is not
\* idempotent is not repeated (api.ts 222: "a refused connection never reached
\* it, so a short retry is always safe").
GivenOnce == \A c \in Calls : reached[c] <= 1

\* A call with a timeout ends, whether go hangs at its head, in its body, in the
\* body of its error, or refuses (api.ts 31: "a hung go handler otherwise holds
\* the ssr render (and the browser tab) open forever").
TimedCallsEnd ==
    CallFairness => \A c \in Calls : Kinds[c] = "timed" /\ call[c] # "idle" ~> call[c] = "over"

\* A call ends, in time, with one answer; what can change something is sent once.
CallsEndOnce == [](CallTypeOK /\ GivenOnce) /\ TimedCallsEnd
==============================================================================
