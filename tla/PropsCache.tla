------------------------------ MODULE PropsCache ------------------------------
(***************************************************************************)
(* The props a tab asks for ahead of a click (packages/borgo/src/runtime.ts): *)
(* a settled hover runs the page's loader and keeps the response for ten      *)
(* seconds, a click takes it, and a form's post drops them all, for the       *)
(* action changes what any loader returns. The bodies nobody reads hold a     *)
(* socket each. Loaders, posts and the reader interleave freely; the scroll,  *)
(* the keys and the history are Navigation's.                                 *)
(***************************************************************************)
EXTENDS Naturals, Sequences, FiniteSets

CONSTANTS
    TabPages, FirstPage,
    PropsMax,       \* propsMax, 16 in the code
    MaxAsked, MaxPosts

ASSUME PropsCacheAssumption ==
    /\ FirstPage \in TabPages /\ PropsMax \in Nat \ {0} /\ MaxAsked \in Nat /\ MaxPosts \in Nat

VARIABLES
    address,        \* the page on screen
    propsShown,     \* the request its props came from, 0 for the document's own
    asked,          \* the props requests, in the order they were sent
    expired,        \* the first so many are older than propsTtl
    propsCache,     \* the requests kept: insertion order is age order, the order they were sent in
    going,          \* the navigation under way: its page, its request, and what had been told, or NotGoing
    post,           \* the submission: where it stands and for which page
    posts,          \* how many were sent
    world,          \* what the loaders read, a count of the actions that ran
    told,           \* of these, what the tab has had the answer of
    native          \* the document is the browser's again

tabVars == <<address, propsShown, asked, expired, propsCache, going, post, posts, world, told, native>>

NotGoing == [to |-> FirstPage, by |-> 0, told |-> 0]
NoPost == [stage |-> "none", to |-> FirstPage, heard |-> FALSE]

PropsCacheInit ==
    /\ address = FirstPage /\ propsShown = 0
    /\ asked = <<>> /\ expired = 0 /\ propsCache = {}
    /\ going = NotGoing /\ post = NoPost /\ posts = 0 /\ world = 0 /\ told = 0 /\ native = FALSE

-----------------------------------------------------------------------------
\* Requests. body: flying, then open until it is read or cancelled.

Request(page) == [page |-> page, body |-> "flying", saw |-> 0, posts |-> posts, drained |-> FALSE, taken |-> FALSE]

Young(r) == r > expired

\* cancel() of what arrived, and of what is still to arrive.
Drained(requests, gone) ==
    [r \in DOMAIN requests |-> IF r \in gone THEN [requests[r] EXCEPT !.drained = TRUE] ELSE requests[r]]

\* From the oldest on, while there are too many or it is too old.
LastOf(kept) == {r \in kept : Young(r) /\ Cardinality({k \in kept : k >= r}) <= PropsMax}
TrimProps(requests, kept) == [asked |-> Drained(requests, kept \ LastOf(kept)), cache |-> LastOf(kept)]

CachedFor(page) == {r \in propsCache : asked[r].page = page}
Without(page) == propsCache \ CachedFor(page)

\* A hover that settled, a focus or a touch, over a link to another page.
Intended(page) == ~native /\ page # address
Prefetch(page) ==
    /\ Intended(page) /\ Len(asked) < MaxAsked
    /\ \A r \in CachedFor(page) : ~Young(r)
    /\ LET sent == Append(Drained(asked, CachedFor(page)), Request(page))
           trimmed == TrimProps(sent, Without(page) \cup {Len(sent)})
       IN asked' = trimmed.asked /\ propsCache' = trimmed.cache
    /\ UNCHANGED <<address, propsShown, expired, going, post, posts, world, told, native>>

TimePasses ==
    /\ ~native /\ expired < Len(asked) /\ expired' = Len(asked)
    /\ UNCHANGED <<address, propsShown, asked, propsCache, going, post, posts, world, told, native>>

\* The loader reads, and its answer is on the wire.
LoaderRuns(r) ==
    /\ ~native /\ asked[r].body = "flying"
    /\ asked' = [asked EXCEPT ![r].body = "open", ![r].saw = world]
    /\ UNCHANGED <<address, propsShown, expired, propsCache, going, post, posts, world, told, native>>

FetchFails(r) ==
    /\ ~native /\ asked[r].body = "flying"
    /\ asked' = [asked EXCEPT ![r].body = "failed"]
    /\ UNCHANGED <<address, propsShown, expired, propsCache, going, post, posts, world, told, native>>

-----------------------------------------------------------------------------
\* navigate, from its first line to its first await; the newest one counts.

Usable(page) == {r \in CachedFor(page) : Young(r)}
Takes(page) ==
    \/ \E r \in Usable(page) :
          /\ asked' = [asked EXCEPT ![r].taken = TRUE]
          /\ going' = [to |-> page, by |-> r, told |-> told']
    \/ /\ Usable(page) = {} /\ Len(asked) < MaxAsked
       /\ asked' = Append(Drained(asked, CachedFor(page)), [Request(page) EXCEPT !.taken = TRUE])
       /\ going' = [to |-> page, by |-> Len(asked) + 1, told |-> told']

Navigate(page) ==
    /\ ~native /\ UNCHANGED told /\ Takes(page) /\ propsCache' = Without(page)
    /\ post' = [post EXCEPT !.heard = FALSE]
    /\ UNCHANGED <<address, propsShown, expired, posts, world, native>>

Underway == going # NotGoing
Arrives ==
    /\ ~native /\ Underway /\ asked[going.by].body = "open"
    /\ asked' = [asked EXCEPT ![going.by].body = "read"]
    /\ address' = going.to /\ propsShown' = going.by /\ going' = NotGoing
    /\ UNCHANGED <<expired, propsCache, post, posts, world, told, native>>

\* A props fetch that failed leaves the navigation to the browser.
AssignsLocation ==
    /\ ~native /\ Underway /\ asked[going.by].body = "failed"
    /\ native' = TRUE
    /\ UNCHANGED <<address, propsShown, asked, expired, propsCache, going, post, posts, world, told>>

-----------------------------------------------------------------------------
\* runSubmit. A second submit of the form in flight is refused.

\* slip: the cache is cleared when the action has answered.
ClearsLater(kept) == kept
ClearProps(kept) == {}

\* A form of the runtime's, and not while its own post is under way.
MaySubmit == ~native /\ post.stage = "none"
Submit(page) ==
    /\ MaySubmit /\ posts < MaxPosts
    /\ posts' = posts + 1 /\ post' = [stage |-> "sent", to |-> page, heard |-> TRUE]
    /\ going' = NotGoing
    /\ propsCache' = ClearProps(propsCache)
    /\ asked' = Drained(asked, propsCache \ propsCache')
    /\ UNCHANGED <<address, propsShown, expired, world, told, native>>

ActionRuns ==
    /\ ~native /\ post.stage = "sent" /\ world' = world + 1 /\ post' = [post EXCEPT !.stage = "ran"]
    /\ UNCHANGED <<address, propsShown, asked, expired, propsCache, going, posts, told, native>>

\* A stale token, a page without an action, a body over the limit.
ActionRefused ==
    /\ ~native /\ post.stage = "sent" /\ post' = [post EXCEPT !.stage = "refused"]
    /\ UNCHANGED <<address, propsShown, asked, expired, propsCache, going, posts, world, told, native>>

\* The outcome is dropped when something newer has begun.
Superseded ==
    /\ ~native /\ post.stage # "none" /\ ~post.heard
    /\ post' = NoPost
    /\ UNCHANGED <<address, propsShown, asked, expired, propsCache, going, posts, world, told, native>>

\* The envelope carries the props of a loader run after the action.
ActionRenders ==
    /\ ~native /\ post.stage = "ran" /\ post.heard
    /\ Len(asked) < MaxAsked
    /\ asked' = Append(asked, [Request(post.to) EXCEPT !.body = "read", !.saw = world])
    /\ address' = post.to /\ propsShown' = Len(asked) + 1 /\ post' = NoPost /\ told' = world
    /\ UNCHANGED <<expired, propsCache, going, posts, world, native>>

ActionRedirects(page) ==
    /\ ~native /\ post.stage = "ran" /\ post.heard
    /\ told' = world /\ Takes(page) /\ propsCache' = Without(page) /\ post' = NoPost
    /\ UNCHANGED <<address, propsShown, expired, posts, world, native>>

\* A post that never arrived, a document of its own, an outcome unknown, a
\* refusal, a body that does not parse: the browser takes over. A body too large leaves the page as it is.
ActionLeaves ==
    /\ ~native /\ post.stage # "none" /\ post.heard
    /\ native' = TRUE /\ post' = NoPost
    /\ UNCHANGED <<address, propsShown, asked, expired, propsCache, going, posts, world, told>>
TooLarge ==
    /\ ~native /\ post.stage = "refused" /\ post.heard /\ post' = NoPost
    /\ UNCHANGED <<address, propsShown, asked, expired, propsCache, going, posts, world, told, native>>

PropsCacheNext ==
    \/ \E page \in TabPages :
          Prefetch(page) \/ Navigate(page) \/ Submit(page) \/ ActionRedirects(page)
    \/ \E r \in DOMAIN asked : LoaderRuns(r) \/ FetchFails(r)
    \/ TimePasses \/ Arrives \/ AssignsLocation
    \/ ActionRuns \/ ActionRefused \/ Superseded \/ ActionRenders \/ ActionLeaves \/ TooLarge

PropsCacheSpec == PropsCacheInit /\ [][PropsCacheNext]_tabVars

-----------------------------------------------------------------------------
\* No navigation renders props that were asked for before a post which has
\* been sent since: the post drops what was prefetched and outdates what is
\* under way (runtime.ts 473).
NoneFromBeforeThePost ==
    [][propsShown' # propsShown => asked'[propsShown'].posts = posts]_tabVars

\* A response kept for a click that never comes is cancelled when it is
\* dropped (runtime.ts 243): a body nobody reads is in the cache, within its
\* limit, or a navigation took it, and none is cancelled under a navigation.
PrefetchesAreLetGo ==
    /\ Cardinality(propsCache) <= PropsMax
    /\ \A r \in DOMAIN asked :
          asked[r].body # "read" =>
              (r \in propsCache \/ asked[r].taken <=> ~asked[r].drained)

\* What the tab goes to once it has an action's answer shows what the action
\* did (runtime.ts 473: "the mutation changes what any prefetched loader
\* returns: dropped now, not on success only").
ShowsWhatItDid ==
    [][Arrives => asked[going.by].saw >= going.told]_tabVars

\* Props that were fetched ahead are used while they are true, and let go of.
PrefetchesAreSound == []PrefetchesAreLetGo /\ NoneFromBeforeThePost
=============================================================================
