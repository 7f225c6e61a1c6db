----------------------------- MODULE MCAuthoring -----------------------------
(***************************************************************************)
(* From a new app to its export, one part at a time: the                   *)
(* env.ts an author saves twice over a machine of three variables; three   *)
(* dev sessions, two of them over one directory; pages of four tokens; an  *)
(* app of two files and a reference; a tab over two pages and one action;  *)
(* an export over the site of an earlier one; a new app, in every place    *)
(* where create-borgo may find itself.                                     *)
(***************************************************************************)
EXTENDS AppEnv, DevLock, CodeScan, SourceChecks, PropsCache, StaticExport, Scaffold

CONSTANTS page1, page2

VARIABLE part     \* which of the seven moves

\* env.ts: what a variable may be declared as, and the files that declare it.
Plain(type) == [type |-> type, optional |-> FALSE, default |-> None, validate |-> "none"]
Declared ==
    {[Plain("number") EXCEPT !.default = NaN], [Plain("port") EXCEPT !.default = Num("1")],
     [Plain("boolean") EXCEPT !.optional = TRUE],
     [Plain("string") EXCEPT !.validate = "object"],
     [Plain("string") EXCEPT !.validate = "nothing", !.default = Str("word")]}
Client(n, spec) == [client |-> (n :> spec), server |-> <<>>]
Server(n, spec) == [client |-> <<>>, server |-> (n :> spec)]
Of(schemas) == [loads |-> TRUE, schemas |-> schemas, others |-> FALSE]
Whatever(contents) == [r \in Rules |-> contents]
Unreadable == Whatever([loads |-> FALSE, schemas |-> <<>>, others |-> FALSE])
MCFiles ==
    {Whatever(Of(<<Client("PUBLIC", spec), Server("SECRET", Plain("port"))>>)) : spec \in Declared}
    \cup {[r \in Rules |-> Of(<<Client("PUBLIC", [Plain("string") EXCEPT !.validate = r]),
                                Server("SECRET", [Plain("string") EXCEPT !.optional = (r = "number")])>>)],
          Whatever(Of(<<Client("PUBLIC", Plain("string")), Client("PUBLIC", Plain("number"))>>)),
          Whatever(Of(<<Server("PUBLIC", Plain("string"))>>)),
          Whatever(Of(<<Server("lower", Plain("string"))>>)),
          Whatever([loads |-> TRUE, schemas |-> <<Client("PUBLIC", Plain("string"))>>, others |-> TRUE]),
          Unreadable}
MCNames == {"PUBLIC", "SECRET", "lower"}
MCMachines ==
    {[n \in MCNames |-> IF n = "PUBLIC" THEN v ELSE "1"] : v \in {Unset, "1", "word"}}
    \cup {[n \in MCNames |-> EmptyText]}

MCDir == [s \in Sessions |-> IF s = "s3" THEN "other" ELSE "app"]
MCWanted == [s \in Sessions |-> IF s = "s2" THEN {"3100", "3601"} ELSE {"3000", "3501"}]

MCStrings == {<<"/">>, <<"tick">>, <<"\\", "'">>, <<"A">>}
MCRegexes == {<<"'">>, <<"tick">>, <<"[", "/", "]">>}
MCComments == {<<"'">>, <<"A">>}
MCChunks == {<<"\n", "H">>, <<"\n", "M">>}

\* The files of an app, each in the case the code gives it or with a capital.
Lower(w, e) == [word |-> w, up |-> FALSE, ext |-> e]
Upper(w, e) == [word |-> w, up |-> TRUE, ext |-> e]
MCPublic == Lower("public", "")
MCModules == Lower("node_modules", "")
MCHidden == Lower(".git", "")
MCAssets == Lower("assets", "")
MCConventions == {MCPublic}
MCPaths ==
    {<<Lower("app", ".ts")>>, <<Upper("app", ".ts")>>,
     <<Lower("lib", ""), Lower("app", ".ts")>>, <<Upper("lib", ""), Lower("app", ".ts")>>,
     <<Lower("lib", ""), Upper("app", ".ts")>>,
     <<MCPublic, Lower("logo", ".png")>>, <<MCPublic, Upper("logo", ".png")>>,
     <<Upper("public", ""), Lower("logo", ".png")>>,
     <<MCPublic, MCAssets, Lower("app", ".ts")>>,
     <<Lower("lib", ""), MCModules, Lower("app", ".ts")>>}
MCSpecs ==
    {[alias |-> FALSE, parts |-> <<Lower("app", "")>>], [alias |-> TRUE, parts |-> <<Lower("app", "")>>],
     [alias |-> FALSE, parts |-> <<Up, Lower("app", "")>>],
     [alias |-> FALSE, parts |-> <<Lower("lib", ""), Lower("app", "")>>],
     [alias |-> TRUE, parts |-> <<Lower("lib", ""), Lower("app", ".ts")>>]}
MCUrls == {<<Lower("logo", ".png")>>}

\* Two pages, the second with a parameter: "ab" begins with "a", "accented" is
\* encoded, ".." is refused, and a list may name one path twice.
PageOf(pattern, loader, prerender, revalidate, lists) ==
    [pattern |-> pattern, loader |-> loader, prerender |-> prerender, revalidate |-> revalidate, lists |-> lists]
Value(v) == (1 :> v)
MCLists ==
    {{}, {<<Value("x"), Value("x")>>}, {<<Value("a"), Value("accented")>>}, {<<Value("ab"), Value("..")>>}}
Firsts ==
    {PageOf(<<"a">>, l, p, FALSE, {}) : l \in BOOLEAN, p \in BOOLEAN}
    \cup {PageOf(<<"a">>, FALSE, FALSE, TRUE, {})}
Seconds == {PageOf(<<Param>>, l, TRUE, FALSE, s) : l \in BOOLEAN, s \in MCLists}
Guards ==
    {[present |-> FALSE, entries |-> {}], [present |-> TRUE, entries |-> {}],
     [present |-> TRUE, entries |-> {[form |-> "exact", path |-> <<"accented">>]}],
     [present |-> TRUE, entries |-> {[form |-> "prefix", path |-> <<"a">>]}],
     [present |-> TRUE, entries |-> {[form |-> "below", path |-> <<"x">>]}]}
MCExportApps ==
    {[pages |-> <<f, s>>, page404 |-> n, matcher |-> m, guard |-> g] :
        f \in Firsts, s \in Seconds, n \in {"none", "plain", "prerendered"},
        m \in {{}, {<<"a">>}}, g \in Guards}
SmallestApp ==
    [pages |-> <<PageOf(<<"a">>, FALSE, FALSE, FALSE, {}), PageOf(<<Param>>, FALSE, TRUE, FALSE, {})>>,
     page404 |-> "none", matcher |-> {}, guard |-> [present |-> FALSE, entries |-> {}]]
MCEarlierSites == {<<>>, <<"old">> :> 1}
MCBegins == {<<"a", "a">>, <<"a", "ab">>, <<"accented", "accented">>, <<"x", "x">>}

MCWishes == [git : BOOLEAN, install : BOOLEAN, start : BOOLEAN]
MCSurroundings ==
    [target : {"none", "empty", "full", "file"}, git : {"there", "missing", "unrunnable"},
     nested : BOOLEAN, identity : BOOLEAN, redirect : {"none", "env", "template"}, go : BOOLEAN]

\* The parts that stand still stand in one state, where there are many.
AuthoringInit ==
    /\ part \in {"env", "lock", "scan", "checks", "tab", "export", "create"}
    /\ EnvInit
    /\ part # "env" =>
        /\ ~dev /\ rules = "text" /\ goDir = "none"
        /\ envFile = Unreadable /\ \A n \in MCNames : machine[n] = EmptyText
    /\ ExportInit
    /\ part # "export" => exported = SmallestApp /\ site = <<>>
    /\ ScaffoldInit
    /\ part # "create" =>
        /\ wish = [git |-> FALSE, install |-> FALSE, start |-> FALSE]
        /\ surroundings = [target |-> "none", git |-> "there", nested |-> FALSE,
                           identity |-> TRUE, redirect |-> "none", go |-> TRUE]
    /\ DevLockInit /\ CodeScanInit /\ SourceChecksInit /\ PropsCacheInit

AuthoringNext ==
    /\ \/ part = "env" /\ EnvNext
          /\ UNCHANGED <<lockfileVars, scanVars, checksVars, tabVars, exportVars, scaffoldVars>>
       \/ part = "lock" /\ DevLockNext
          /\ UNCHANGED <<envVars, scanVars, checksVars, tabVars, exportVars, scaffoldVars>>
       \/ part = "scan" /\ CodeScanNext
          /\ UNCHANGED <<envVars, lockfileVars, checksVars, tabVars, exportVars, scaffoldVars>>
       \/ part = "checks" /\ SourceChecksNext
          /\ UNCHANGED <<envVars, lockfileVars, scanVars, tabVars, exportVars, scaffoldVars>>
       \/ part = "tab" /\ PropsCacheNext
          /\ UNCHANGED <<envVars, lockfileVars, scanVars, checksVars, exportVars, scaffoldVars>>
       \/ part = "export" /\ ExportNext
          /\ UNCHANGED <<envVars, lockfileVars, scanVars, checksVars, tabVars, scaffoldVars>>
       \/ part = "create" /\ ScaffoldNext
          /\ UNCHANGED <<envVars, lockfileVars, scanVars, checksVars, tabVars, exportVars>>
    /\ UNCHANGED part

AuthoringSpec ==
    AuthoringInit /\ [][AuthoringNext]_<<part, envVars, lockfileVars, scanVars,
                                         checksVars, tabVars, exportVars, scaffoldVars>>
=============================================================================
