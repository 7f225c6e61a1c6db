------------------------------ MODULE PagePaths ------------------------------
(***************************************************************************)
(* How a path becomes one spelling, a page, and the business of a guard    *)
(* (router.ts, the matcher of page-middleware.ts, the policies of isr.ts). *)
(*                                                                         *)
(* A path is the sequence of its segments, the root none; a segment is a   *)
(* name and how it is spelled. A pattern is a sequence of names, of Param  *)
(* and, in a matcher, of a last Rest.                                      *)
(***************************************************************************)
EXTENDS Naturals, Sequences, SequencesExt

Param == ":"
Rest == ":*"

\* As typed; a percent-encoding of characters that need none; one that is
\* needed, in either case of its hex; nothing between two slashes.
Spellings == {"plain", "alias", "coded", "codedLower"}
Segment == [name : STRING, form : Spellings]
Empty == [name |-> "", form |-> "plain"]

\* A decoded comparison sees the name alone, as safeDecode does.
Names(p) == [i \in DOMAIN p |-> p[i].name]

\* Unreserved characters are decoded, a triplet that stays is in upper case.
CanonicalSegments(p) ==
    [i \in DOMAIN p |-> [p[i] EXCEPT !.form = CASE @ = "alias" -> "plain" [] @ = "codedLower" -> "coded" [] OTHER -> @]]

\* No slash at the end, and one where there were many.
CanonicalPath(p) ==
    FoldLeft(LAMBDA there, s : IF s = Empty THEN there ELSE Append(there, s), <<>>, CanonicalSegments(p))

\* The router takes trailing slashes away.
Stripped(p) == CHOOSE q \in {SubSeq(p, 1, n) : n \in 0..Len(p)} :
    /\ \A i \in Len(q) + 1 .. Len(p) : p[i] = Empty
    /\ q = <<>> \/ Last(q) # Empty

Fits(pattern, name) == name # "" /\ pattern \in {Param, name}

MatchPattern(pattern, p) ==
    /\ Len(pattern) = Len(p)
    /\ \A i \in DOMAIN p : Fits(pattern[i], p[i].name)

\* The first page in the order of the manifest, 0 for none.
MatchRoute(p, patterns) ==
    LET hits == {i \in DOMAIN patterns : MatchPattern(patterns[i], Stripped(p))}
    IN IF hits = {} THEN 0 ELSE CHOOSE i \in hits : \A j \in hits : i <= j

\* matcherRefusal: a rest is the last segment, and no entry names the api.
IsEntry(entry) == \A i \in DOMAIN entry : entry[i] = Rest => i = Len(entry)

HasRest(entry) == entry # <<>> /\ Last(entry) = Rest
Fixed(entry) == IF HasRest(entry) THEN Front(entry) ELSE entry

\* compileMatcher.
MatchEntry(entry, p) ==
    LET fixed == Fixed(entry)
    IN /\ IF HasRest(entry) THEN Len(fixed) <= Len(p) ELSE Len(fixed) = Len(p)
       /\ \A i \in DOMAIN fixed : Fits(fixed[i], p[i].name)

Covers(matcher, p) == \E entry \in matcher : MatchEntry(entry, p)

\* Whether some path is a page of this pattern and under this entry.
PatternsOverlap(pattern, entry) ==
    LET fixed == Fixed(entry)
    IN /\ IF HasRest(entry) THEN Len(fixed) <= Len(pattern) ELSE Len(fixed) = Len(pattern)
       /\ \A i \in DOMAIN fixed : pattern[i] = fixed[i] \/ Param \in {pattern[i], fixed[i]}

GuardsRoute(matcher, pattern) == \E entry \in matcher : PatternsOverlap(pattern, entry)

\* Whether the page of what no route answers is rendered behind the guard.
GuardsUnknown(matcher, patterns) ==
    \E entry \in matcher :
        \/ {Param, Rest} \cap {entry[i] : i \in DOMAIN entry} # {}
        \/ \A i \in DOMAIN patterns : ~PatternsOverlap(patterns[i], entry)

\* isrPolicyTable: a copy is shared without asking the service anything, so a
\* page that may be guarded has no policy.
Shared(patterns, revalidates, matcher) ==
    {i \in DOMAIN patterns : i \in revalidates /\ ~GuardsRoute(matcher, patterns[i])}
==============================================================================
