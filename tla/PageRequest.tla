---------------------------- MODULE PageRequest ----------------------------
(***************************************************************************)
(* A page and its reader: the navigation that asks for it, the request in  *)
(* the render service, the calls its code makes to the go api, and the     *)
(* document on its way out.  They run by themselves, one at a time, and    *)
(* meet in what they promise the reader together.                          *)
(***************************************************************************)
EXTENDS Navigation, RenderService, ApiCall, Redaction

VARIABLE part     \* which of the four moves

pageVars == <<navVars, renderVars, callVars, redactVars>>

\* The ones that stand still stand in one state.
PagesInit ==
    /\ part \in {"runtime", "render", "calls", "documents"}
    /\ NavInit /\ CallInit
    /\ RenderInit
    /\ part # "render" => app = (CHOOSE a \in Apps : TRUE) /\ mode = (CHOOSE m \in Modes : TRUE)
    /\ RedactInit
    /\ part # "documents" => document = <<>>

PagesNext ==
    /\ \/ part = "runtime"   /\ NavNext    /\ UNCHANGED <<renderVars, callVars, redactVars>>
       \/ part = "render"    /\ RenderNext /\ UNCHANGED <<navVars, callVars, redactVars>>
       \/ part = "calls"     /\ CallNext   /\ UNCHANGED <<navVars, renderVars, redactVars>>
       \/ part = "documents" /\ RedactNext /\ UNCHANGED <<navVars, renderVars, callVars>>
    /\ UNCHANGED part

PagesSpec == PagesInit /\ [][PagesNext]_<<part, pageVars>>

\* A cookie that go set reaches the loader that follows and the browser, with
\* the jar the render service keeps for the calls it makes meanwhile.
LoginsReachTheReader == LoginsAreKept /\ JarsAgree
=============================================================================
