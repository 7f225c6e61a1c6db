------------------------------ MODULE Redaction ------------------------------
(***************************************************************************)
(* The path of this machine taken out of a document while it streams        *)
(* (localPathNeedles, redactLocalPaths and what it is made of, server.ts):  *)
(* chunk by chunk, the end of each held back until the next one shows       *)
(* whether a needle begins there.                                          *)
(***************************************************************************)
EXTENDS Naturals, Sequences, FiniteSets, SequencesExt

CONSTANTS
    Bytes,
    NameBytes,     \* those that continue the name of a file
    Needles,       \* the spellings of the root, in order
    Redacted,      \* what stands for one
    Documents,     \* sequences of bytes
    MaxChunk

ASSUME RedactionAssumption ==
    /\ NameBytes \subseteq Bytes /\ Redacted \notin Bytes
    /\ \A i \in DOMAIN Needles : Needles[i] # <<>>

VARIABLES
    document,   \* what react renders
    taken,      \* how much of it came in
    carry,      \* what is held back
    out,        \* what was yielded
    ended

redactVars == <<document, taken, carry, out, ended>>

RedactInit ==
    /\ document \in Documents
    /\ taken = 0 /\ carry = <<>> /\ out = <<>> /\ ended = FALSE

-----------------------------------------------------------------------------
StandsAt(needle, buf, i) == i + Len(needle) - 1 <= Len(buf) /\ SubSeq(buf, i, i + Len(needle) - 1) = needle

\* The byte after a needle tells the root from a name that begins like it; at the
\* end of what is there, only the end of the document does.
Bounded(buf, after, atEnd) == IF after > Len(buf) THEN atEnd ELSE buf[after] \notin NameBytes

\* replaceRoots, from the left; a match that is no root is passed over whole.
ReplaceRoots(buf, needle, atEnd) ==
    LET scan[i \in 1 .. Len(buf) + 1] ==
            LET after == i + Len(needle)
            IN CASE i > Len(buf)                 -> <<>>
                 [] StandsAt(needle, buf, i)      -> (IF Bounded(buf, after, atEnd) THEN <<Redacted>> ELSE needle) \o scan[after]
                 [] OTHER                        -> <<buf[i]>> \o scan[i + 1]
    IN scan[1]

ScrubRoots(buf, atEnd) == FoldLeft(LAMBDA b, needle : ReplaceRoots(b, needle, atEnd), buf, Needles)

-----------------------------------------------------------------------------
Longest == CHOOSE n \in {Len(Needles[i]) : i \in DOMAIN Needles} : \A i \in DOMAIN Needles : Len(Needles[i]) <= n
\* slip: a byte less than a needle is held back.
OverlapShort == Longest - 1
Overlap == Longest

\* A needle may begin in the tail.
Straddles(tail) ==
    \E i \in DOMAIN Needles : \E j \in DOMAIN tail :
        IsPrefix(SubSeq(tail, j, Len(tail)), Needles[i]) \/ StandsAt(Needles[i], tail, j)

\* With no needle the source is handed on as it is.
Hand(chunk) ==
    /\ out' = out \o chunk
    /\ UNCHANGED carry

Scrub(chunk) ==
    LET joined == Straddles(carry)
        work   == ScrubRoots(IF joined THEN carry \o chunk ELSE chunk, FALSE)
        kept   == IF Len(work) > Overlap THEN Overlap ELSE Len(work)
    IN /\ out' = out \o (IF joined THEN <<>> ELSE carry) \o SubSeq(work, 1, Len(work) - kept)
       /\ carry' = SubSeq(work, Len(work) - kept + 1, Len(work))

Chunk ==
    /\ \E n \in 1 .. MaxChunk :
        /\ taken + n <= Len(document)
        /\ taken' = taken + n
        /\ LET chunk == SubSeq(document, taken + 1, taken + n)
           IN IF Needles = <<>> THEN Hand(chunk) ELSE Scrub(chunk)
    /\ UNCHANGED <<document, ended>>

Ends ==
    /\ ~ended /\ taken = Len(document)
    /\ ended' = TRUE
    /\ out' = out \o ScrubRoots(carry, TRUE)
    /\ carry' = <<>>
    /\ UNCHANGED <<document, taken>>

RedactNext == Chunk \/ Ends

RedactSpec == RedactInit /\ [][RedactNext]_redactVars

-----------------------------------------------------------------------------
\* However react cuts it, a document that streamed is the one that would have been
\* redacted whole, as the json beside it is (redactLocalPathText): no root at a
\* seam, and nothing else touched (server.ts 194: "a document and the json beside
\* it cannot disagree about what the root is"). Of a document in which one
\* needle stands against another it is not true.
CutsDoNotShow == ended => out = ScrubRoots(document, TRUE)
==============================================================================
