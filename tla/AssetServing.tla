---------------------------- MODULE AssetServing ----------------------------
(***************************************************************************)
(* One file of public/assets, its .br and .gz siblings, and the answers the *)
(* render service gives over it (compress.ts, recordedOutputSizes of        *)
(* build.ts): builds, deploys that replace one file at a time, an index     *)
(* taken at boot, and a client that keeps what it was answered. A file that *)
(* changes between the stat of an answer and its bytes is the limitation    *)
(* compress.ts declares, and is left out.                                   *)
(***************************************************************************)
EXTENDS Naturals, FiniteSets, Sequences

CONSTANTS
    Contents,      \* what the file may hold
    SizeOf,        \* [Contents -> [Parts -> Nat]]: its length, plain and compressed
    Gone,
    MaxWrites

Parts == {"plain", "br", "gzip"}
Siblings == Parts \ {"plain"}

ASSUME AssetAssumption ==
    /\ SizeOf \in [Contents -> [Parts -> Nat \ {0}]]
    /\ Gone \notin Contents /\ MaxWrites \in Nat

VARIABLES
    hashed,      \* the content whose hash the name carries, for which the build vouches, or None
    files,       \* [Parts -> what is on disk, or None]
    recorded,    \* build-output.json: the lengths of the last build, 0 for none
    touched,     \* something wrote here since the build
    now,         \* the clock that dates a write
    served,      \* the process: dev, the siblings of its index, the lengths it read at boot
    held         \* what the client keeps, or None

deployed == <<hashed, files, recorded, touched, now>>
assetVars == <<deployed, served, held>>

File(c, part, at) == [content |-> c, size |-> SizeOf[c][part], at |-> at]
Nothing == [part \in Parts |-> 0]
Process(dev, index) == [dev |-> dev, index |-> index, recorded |-> IF hashed = Gone THEN Nothing ELSE recorded]

AssetInit ==
    /\ hashed \in Contents \cup {Gone}
    /\ files \in {[part \in Parts |-> IF part = "plain" THEN File(c, part, 0) ELSE Gone] : c \in Contents}
    /\ recorded = Nothing
    /\ touched = TRUE
    /\ now = 0
    /\ served = [dev |-> TRUE, index |-> {}, recorded |-> Nothing]
    /\ held = Gone

-----------------------------------------------------------------------------
\* precompressAssets: a sibling that is smaller is written over the one that is
\* there, and one that is not is skipped.
Shrinks(c, part) == SizeOf[c][part] < SizeOf[c]["plain"]
Precompressed(c, part) ==
    CASE part = "plain"   -> IF hashed = Gone THEN files[part] ELSE File(c, part, now + 1)
      [] Shrinks(c, part) -> File(c, part, now + 1)
      [] OTHER            -> files[part]

Lengths(f) == [part \in Parts |-> IF f[part] = Gone THEN 0 ELSE f[part].size]

Build ==
    /\ now < MaxWrites /\ (hashed = Gone => files["plain"] # Gone)
    /\ LET c == IF hashed = Gone THEN files["plain"].content ELSE hashed
       IN files' = [part \in Parts |-> Precompressed(c, part)]
    /\ recorded' = Lengths(files')
    /\ touched' = FALSE
    /\ now' = now + 1
    /\ UNCHANGED <<hashed, served, held>>

\* A copy of another tree, file by file, which may keep the dates, an editor, a
\* dev build.
Replace(part) ==
    /\ now < MaxWrites
    /\ \E c \in Contents, at \in {now, now + 1} :
        /\ files[part] # Gone => files[part].content # c
        /\ files' = [files EXCEPT ![part] = File(c, part, at)]
    /\ touched' = TRUE
    /\ now' = now + 1
    /\ UNCHANGED <<hashed, recorded, served, held>>

Remove(part) ==
    /\ files[part] # Gone
    /\ files' = [files EXCEPT ![part] = Gone]
    /\ touched' = TRUE
    /\ UNCHANGED <<hashed, recorded, now, served, held>>

\* buildAssetIndex, or a dev server, which has none. A file that is not there
\* at boot, or comes after it, is looked up live.
Boot ==
    /\ \E dev \in BOOLEAN :
        served' = Process(dev, IF dev \/ files["plain"] = Gone THEN {} ELSE {p \in Parts : files[p] # Gone})
    /\ UNCHANGED <<deployed, held>>

-----------------------------------------------------------------------------
Indexed == "plain" \in served.index
Preferred(accepts, offered) ==
    CASE "br" \in accepts \cap offered   -> "br"
      [] "gzip" \in accepts \cap offered -> "gzip"
      [] OTHER                           -> "plain"

\* serveIndexed negotiates what the index has, serveAsset what the coding is
\* called; a sibling that is gone is its file.
Negotiated(accepts) ==
    CASE Indexed    -> Preferred(accepts, served.index \cap Siblings)
      [] served.dev -> "plain"
      [] OTHER      -> Preferred(accepts, Siblings)
Sent(accepts) == IF files[Negotiated(accepts)] = Gone THEN "plain" ELSE Negotiated(accepts)

\* The file under the name is looked up live, and the index asks for what it
\* sends and, apart from that, for the file it stands for.
\* slip: what is sent is enough.
FoundOfSent(accepts) == IF Indexed THEN files[Sent(accepts)] # Gone ELSE files["plain"] # Gone
Found(accepts) ==
    IF Indexed THEN files[Sent(accepts)] # Gone /\ files["plain"] # Gone
    ELSE files["plain"] # Gone

\* assetEtag: the length and the date of one file, and its coding.
\* slip: the file's own, whatever goes out.
PlainEtag(part) == [size |-> files["plain"].size, at |-> files["plain"].at, part |-> part]
Etag(part) == [size |-> files[part].size, at |-> files[part].at, part |-> part]

\* The length the build recorded, of the file that is sent and of the one it
\* stands for, is still theirs.
Vouched(part) == files[part] # Gone /\ served.recorded[part] = files[part].size
\* slip: what is sent is enough.
PinnedIfSent(part) == Vouched(part)
Pinned(part) == Vouched(part) /\ Vouched("plain")

NotModified(part, etag) == etag # Gone /\ Etag(part) = etag

Answer(accepts, etag) ==
    LET part == Sent(accepts)
    IN IF ~Found(accepts) THEN [status |-> 404]
       ELSE [status |-> IF NotModified(part, etag) THEN 304 ELSE 200,
             part |-> part, etag |-> Etag(part), file |-> files[part], pinned |-> Pinned(part)]

Kept(answer) == [etag |-> answer.etag, file |-> answer.file]

Ask ==
    /\ \E accepts \in SUBSET Siblings, etag \in {Gone} \cup (IF held = Gone THEN {} ELSE {held.etag}) :
        LET answer == Answer(accepts, etag)
        IN held' = IF answer.status = 200 THEN Kept(answer) ELSE held
    /\ UNCHANGED <<deployed, served>>

AssetNext == Build \/ Boot \/ Ask \/ \E part \in Parts : Replace(part) \/ Remove(part)

AssetSpec == AssetInit /\ [][AssetNext]_assetVars

-----------------------------------------------------------------------------
AssetTypeOK ==
    /\ recorded \in [Parts -> Nat] /\ now \in 0..MaxWrites
    /\ \A part \in Parts : files[part] # Gone => files[part].size = SizeOf[files[part].content][part]
    /\ served.index \subseteq Parts

\* What a client is told to keep using is what it would be sent: a 304 is given
\* for the very file, or for one of its length and its date (compress.ts 484:
\* "stale bytes 304 forever").
NothingStaleIsConfirmed ==
    held # Gone => \A accepts \in SUBSET Siblings :
        LET answer == Answer(accepts, held.etag)
        IN answer.status = 304 =>
               /\ answer.file.size = held.file.size
               /\ answer.file.at = held.file.at

\* A url is there or not for every client alike, as it would be of a service
\* that has just started (compress.ts 463: "refused, as serveAsset and a restart
\* would: serving it made one url answer 200 or 404 by Accept-Encoding alone").
OneStatusPerUrl ==
    \A accepts \in SUBSET Siblings : (Answer(accepts, Gone).status = 404) <=> files["plain"] = Gone

\* What a build writes of the name, and may find there again at its length.
Writes(c) == {"plain"} \cup {part \in Siblings : Shrinks(c, part)}

\* A year is given under a name that says its content, and while both the file
\* that is sent and the file it stands for have the lengths of that content: a
\* sibling replaced by one of another length has lost the year, and a leftover
\* sibling of a file that was replaced as well (compress.ts 70: "the identity
\* alone pinned a replaced sibling [...], the sent one alone would let a partial
\* deploy keep pinning a leftover .gz"). What a build skips is the sibling of an
\* earlier content, which it records as it is (SiblingsAreSmaller).
PinnedIsTheName ==
    \A accepts \in SUBSET Siblings :
        LET answer == Answer(accepts, Gone)
        IN answer.status # 404 /\ answer.pinned =>
               /\ hashed # Gone
               /\ \A part \in {answer.part, "plain"} \cap Writes(hashed) :
                     files[part] # Gone /\ files[part].size = SizeOf[hashed][part]

\* docs/performance.md 19: the build "keeps them only when they are actually
\* smaller". It does not hold: a sibling of an earlier content, which the new
\* one would not shrink to, is left where it is.
SiblingsAreSmaller ==
    ~touched => \A part \in Siblings : files[part] # Gone => files[part].size < files["plain"].size

\* What a browser is told it still has is what it would be sent.
AnswersAgree == AssetTypeOK /\ NothingStaleIsConfirmed
=============================================================================
