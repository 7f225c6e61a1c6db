---------------------------- MODULE SourceChecks ----------------------------
(***************************************************************************)
(* What a build says of names that only this machine resolves. A file system *)
(* that folds case opens `./Helper` for `helper.ts` and one that does not     *)
(* finds nothing: the build walks the sources and reports the spellings that  *)
(* only fold (warnAssetCase). A file named beside its own source is served    *)
(* nowhere, and refuses the build (assetChannelFaults). A name is a word, its *)
(* case and its extension; a path is a sequence of names from the app's root. *)
(***************************************************************************)
EXTENDS Naturals, Sequences, FiniteSets, SequencesExt

CONSTANTS
    Paths,        \* the files the app may hold
    Specs,        \* what a source may import: [alias |-> from the root, parts |-> names and Up]
    Urls,         \* what a source may ask of public/
    Public, Modules, Hidden, Assets,   \* the names public, node_modules, .git and assets
    Conventions,  \* the names borgo opens in the root
    MaxFiles, MaxRefs

CodeExt == {".ts"}
ImportExt == {".ts", ".css"}
TextExt == {".css"}

\* A word in the case the code gives it, or with a capital.
Name == [word : STRING, up : BOOLEAN, ext : {"", ".ts", ".css", ".png"}]

ASSUME SourceChecksAssumption ==
    /\ \A p \in Paths : p \in Seq(Name) /\ p # <<>>
    /\ \A url \in Urls : url \in Seq(Name)
    /\ \A spec \in Specs : spec.alias \in BOOLEAN /\ spec.parts \in Seq(Name)
    /\ {Public, Modules, Hidden, Assets} \cup Conventions \subseteq Name
    /\ MaxFiles \in Nat /\ MaxRefs \in Nat

Up == [word |-> "..", up |-> FALSE, ext |-> ""]

VARIABLES
    tree,         \* the files of the app
    imports,      \* [source, spec]
    links,        \* [source, url]: literal absolute paths
    beside,       \* what the bundle names beside its source: [kind, url]
    marked,       \* the unfinished-build mark
    output,       \* the references in the last output, and the urls public/ had: [beside, served]
    serving

checksVars == <<tree, imports, links, beside, marked, output, serving>>

-----------------------------------------------------------------------------
\* Folding, and what a folder holds.

Fold(name) == [name EXCEPT !.up = FALSE]
FoldPath(p) == [i \in DOMAIN p |-> Fold(p[i])]

NamesIn(at) == {p[Len(at) + 1] : p \in {q \in tree : Len(q) > Len(at) /\ SubSeq(q, 1, Len(at)) = at}}

WalkSources ==
    {p \in tree :
        /\ \A i \in DOMAIN p : p[i] # Hidden
        /\ \A i \in 1 .. Len(p) - 1 : p[i] # Modules
        /\ ~(Len(p) > 2 /\ p[1] = Public /\ p[2] = Assets)}

PublicAssetUrls == {Tail(p) : p \in {q \in tree : Len(q) > 1 /\ q[1] = Public}}

CollectAssetRefs == {l \in links : l.source \in WalkSources /\ Last(l.source).ext \in CodeExt \cup TextExt}

CaseOnlyMismatches ==
    {l \in CollectAssetRefs :
        /\ l.url \notin PublicAssetUrls
        /\ \E url \in PublicAssetUrls : FoldPath(url) = FoldPath(l.url)}

MiscasedConventions ==
    {name \in Conventions :
        name \notin NamesIn(<<>>) /\ \E other \in NamesIn(<<>>) : Fold(other) = Fold(name)}

-----------------------------------------------------------------------------
\* An import, segment by segment.

WalksFrom(source, spec) == IF spec.alias THEN <<>> ELSE Front(source)

Completed(part) == {part} \cup {[part EXCEPT !.ext = ext] : ext \in {e \in ImportExt : part.ext = ""}}

MiscasedImport(source, spec) ==
    LET stop(hits) == [at |-> <<>>, over |-> TRUE, hits |-> hits]
        walk(s, i) ==
            LET part == spec.parts[i]
                names == NamesIn(s.at)
                last == i = Len(spec.parts)
            IN IF s.over THEN s
               ELSE CASE part = Up -> IF s.at = <<>> THEN stop({}) ELSE [s EXCEPT !.at = Front(@)]
                 [] part # Up /\ ~last /\ part \in names -> [s EXCEPT !.at = Append(@, part)]
                 [] part # Up /\ ~last /\ part \notin names -> stop({n \in names : Fold(n) = Fold(part)})
                 [] part # Up /\ last /\ Completed(part) \cap names # {} -> stop({})
                 [] OTHER -> stop({n \in names : Fold(n) \in Completed(Fold(part))})
    IN FoldLeft(walk, [at |-> WalksFrom(source, spec), over |-> FALSE, hits |-> {}],
                [i \in DOMAIN spec.parts |-> i]).hits

MiscasedImports ==
    {i \in imports :
        /\ i.source \in WalkSources /\ Last(i.source).ext \in CodeExt
        /\ MiscasedImport(i.source, i.spec) # {}}

-----------------------------------------------------------------------------
\* The build's last word.

AssetChannelFaults(served) == {b \in beside : b.kind # "url" \/ b.url \notin served}

\* slip: the mark comes off before the references are looked at.
MarkComesOff(faults) == FALSE
MarkStays(faults) == faults # {}

Builds(served) ==
    /\ output' = [beside |-> beside, served |-> served]
    /\ marked' = MarkStays(AssetChannelFaults(served))

\* No build runs beside a server of the same tree here (BuildLock has those).
Build ==
    /\ ~serving /\ Builds(PublicAssetUrls)
    /\ UNCHANGED <<tree, imports, links, beside, serving>>

\* A tree left marked is built again, and refused again.
Start ==
    /\ ~serving /\ (marked \/ output # [beside |-> {}, served |-> {}])
    /\ IF marked
       THEN Builds(PublicAssetUrls) /\ serving' = (AssetChannelFaults(PublicAssetUrls) = {})
       ELSE serving' = TRUE /\ UNCHANGED <<output, marked>>
    /\ UNCHANGED <<tree, imports, links, beside>>

Stop == serving /\ serving' = FALSE /\ UNCHANGED <<tree, imports, links, beside, marked, output>>

-----------------------------------------------------------------------------
\* The author.

SourceChecksInit ==
    /\ tree = {} /\ imports = {} /\ links = {} /\ beside = {}
    /\ marked = FALSE /\ output = [beside |-> {}, served |-> {}] /\ serving = FALSE

Edits == UNCHANGED <<marked, output, serving>>
Refs == Cardinality(imports) + Cardinality(links) + Cardinality(beside)

\* A file is not a folder under the same name.
FitsHere(p) == \A q \in tree : ~IsStrictPrefix(p, q) /\ ~IsStrictPrefix(q, p)

WritesFile(p) ==
    /\ Cardinality(tree) < MaxFiles /\ p \notin tree /\ FitsHere(p)
    /\ tree' = tree \cup {p} /\ UNCHANGED <<imports, links, beside>> /\ Edits

\* The editor's rename of a letter, which a checkout may not follow.
Respells(p, q) ==
    /\ p \in tree /\ q \notin tree /\ FoldPath(p) = FoldPath(q)
    /\ tree' = (tree \ {p}) \cup {q}
    /\ imports' = {[i EXCEPT !.source = IF @ = p THEN q ELSE @] : i \in imports}
    /\ links' = {[l EXCEPT !.source = IF @ = p THEN q ELSE @] : l \in links}
    /\ UNCHANGED beside /\ Edits

Imports(source, spec) ==
    /\ Refs < MaxRefs /\ source \in tree /\ Last(source).ext \in CodeExt
    /\ imports' = imports \cup {[source |-> source, spec |-> spec]}
    /\ UNCHANGED <<tree, links, beside>> /\ Edits

Links(source, url) ==
    /\ Refs < MaxRefs /\ source \in tree /\ Last(source).ext # ".png"
    /\ links' = links \cup {[source |-> source, url |-> url]}
    /\ UNCHANGED <<tree, imports, beside>> /\ Edits

NamesBeside(kind, url) ==
    /\ Refs < MaxRefs
    /\ beside' = beside \cup {[kind |-> kind, url |-> IF kind = "url" THEN url ELSE <<>>]}
    /\ UNCHANGED <<tree, imports, links>> /\ Edits

SourceChecksNext ==
    \/ \E p \in Paths : WritesFile(p)
    \/ \E p, q \in Paths : Respells(p, q)
    \/ \E source \in Paths, spec \in Specs : Imports(source, spec)
    \/ \E source \in Paths, url \in Urls : Links(source, url)
    \/ \E kind \in {"emitted", "url", "dir"}, url \in Urls : NamesBeside(kind, url)
    \/ Build \/ Start \/ Stop

SourceChecksSpec == SourceChecksInit /\ [][SourceChecksNext]_checksVars

-----------------------------------------------------------------------------
\* What a machine makes of a reference, whose names it tells apart or folds.

Entries == UNION {{SubSeq(p, 1, n) : n \in 1 .. Len(p)} : p \in tree}
Exactly(name) == name
Base(source, spec) == IF spec.alias THEN <<>> ELSE Front(source)
Target(source, spec) ==
    FoldLeft(LAMBDA at, part : IF part = Up THEN Front(at) ELSE Append(at, part), Base(source, spec), spec.parts)
LeavesTheApp(source, spec) ==
    Len(Base(source, spec)) < Cardinality({i \in DOMAIN spec.parts : spec.parts[i] = Up})

Resolves(import, Read(_)) ==
    LET target == Target(import.source, import.spec)
        Same(p, q) == [n \in DOMAIN p |-> Read(p[n])] = [n \in DOMAIN q |-> Read(q[n])]
    IN \E entry \in Entries : \E last \in Completed(Last(target)) :
           Same(entry, Append(Front(target), last))

\* The tree can be checked out on a machine that folds.
Portable == \A p, q \in Entries : FoldPath(p) = FoldPath(q) => p = q

\* An import that resolves as it is spelled is left in peace, and one that
\* only a folding machine resolves is reported, wherever it climbs or starts
\* from; a link to public/ and the names borgo opens are held to the same
\* (build.ts 386: "only exact-miss, folded-hit").
OnlyFoldingIsReported ==
    LET read == {i \in imports : i.source \in WalkSources /\ ~LeavesTheApp(i.source, i.spec)}
    IN /\ \A i \in read :
             /\ Resolves(i, Exactly) => i \notin MiscasedImports
             /\ Portable /\ Resolves(i, Fold) /\ ~Resolves(i, Exactly) => i \in MiscasedImports
       /\ \A l \in CaseOnlyMismatches : \E p \in tree : FoldPath(p) = FoldPath(<<Public>> \o l.url)
       /\ MiscasedConventions \cap {Head(p) : p \in tree} = {}

\* No site is served whose pages ask for a file beside its source, however
\* the boots and the builds alternate (build.ts 645-646: a refused tree "keeps
\* its mark, so the next `borgo start` rebuilds and refuses again").
RefusedIsNeverServed ==
    serving => \A b \in output.beside : b.kind = "url" /\ b.url \in output.served

\* What the checks report is wrong somewhere, and what they refuse is not served.
RefusalsAreRight == OnlyFoldingIsReported /\ RefusedIsNeverServed
=============================================================================
