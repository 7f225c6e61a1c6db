------------------------------ MODULE MCPages ------------------------------
(***************************************************************************)
(* One page request, end to end: the reader's three navigations over two   *)
(* pages, a form and a history of two entries; the render service with     *)
(* a page whose pattern and whose matcher entry meet in every way two      *)
(* segments can, asked for by seven spellings; three calls to go at once,  *)
(* one with a deadline and one to a typed export, one retry each; and the  *)
(* documents of up to five bytes with two spellings of the root, none      *)
(* against another.                                                        *)
(***************************************************************************)
EXTENDS PageRequest, TLC

CONSTANTS list, detail, form, k1, k2, k3

Plain(n) == [name |-> n, form |-> "plain"]
As(n, f) == [name |-> n, form |-> f]

Patterns == {<<>>, <<"a">>, <<Param>>, <<"a", Param>>, <<Param, "b">>}
EntriesOf == Patterns \cup {<<Rest>>, <<"a", Rest>>, <<"b">>}
MCApps ==
    {[patterns |-> <<<<"a">>, q>>, matcher |-> m, acts |-> {1}] :
        q \in Patterns, m \in {{e} : e \in EntriesOf} \cup {{}}}
MCPaths ==
    {<<>>, <<Plain("a")>>, <<As("a", "alias")>>, <<As("b", "coded")>>,
     <<As("b", "codedLower")>>, <<Plain("a"), Empty>>, <<Plain("a"), As("b", "coded")>>}
MCModes ==
    {[dev |-> TRUE, page404 |-> FALSE, page500 |-> TRUE],
     [dev |-> FALSE, page404 |-> TRUE, page500 |-> TRUE],
     [dev |-> FALSE, page404 |-> FALSE, page500 |-> FALSE]}
MCTargets == {<<Plain("a")>>}

Pair(n, v) == [name |-> n, value |-> v]
MCKinds == (k1 :> "api") @@ (k2 :> "timed") @@ (k3 :> "export")
MCHeaders == {<<Pair("s", "old"), Pair("x", "1"), Pair("s", "junk")>>}
MCAnswers == {<<>>, <<Pair("s", "a")>>, <<Pair("s", Expired)>>, <<Pair("t", "b")>>}

MCNeedles == <<<<"f", "s">>, <<"f", "/", "s">>>>
\* One spelling of the root against another: of these documents a cut shows, for
\* what replaces the one is a boundary to the other. "f/sfs" in one piece becomes
\* two marks, and in the pieces "f/sf" and "s" it becomes "f/s" and a mark, though
\* "a document and the json beside it cannot disagree about what the root is"
\* (server.ts 194). The documents below are the others.
Glued(d) ==
    \E i, j \in DOMAIN Needles, k \in DOMAIN d :
        StandsAt(Needles[i], d, k) /\ StandsAt(Needles[j], d, k + Len(Needles[i]))
MCDocuments == {d \in UNION {[1 .. n -> Bytes] : n \in 0 .. 5} : ~Glued(d)}
=============================================================================
