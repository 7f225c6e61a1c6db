------------------------------ MODULE Navigation ------------------------------
(***************************************************************************)
(* Client-side navigation in one document (packages/borgo/src/runtime.ts): *)
(* links, enhanced forms, back and forward over the session history, and   *)
(* the scroll position of each history entry.  Each handler runs up to its *)
(* next await, and whatever the reader does lands in between; the newest   *)
(* navigation is told from the older ones by its number, navSeq.           *)
(*                                                                         *)
(* A page is its path and query.  A scroll position is the page on which   *)
(* the reader took it, or the top.  The document ends when the runtime     *)
(* hands a navigation to the browser (a failed fetch, an unknown route, a  *)
(* reload).  The props cache, the head and the dev channel are left out.   *)
(***************************************************************************)
EXTENDS Naturals, Sequences, FiniteSets, SequencesExt

CONSTANTS
  Pages,        (* paths with a route                                       *)
  Home,         (* the page of the document                                 *)
  PostForms,        (* forms with method="post"                                 *)
  NoForm,       (* a navigation that is not a submission                    *)
  Top,          (* the position of a page nobody has scrolled               *)
  MaxNavs,      (* bound on the navigations and submissions                 *)
  MaxKeys,      (* bound on the keys handed out                             *)
  MaxEntries    (* bound on the session history                             *)

ASSUME PagesAssumption == Home \in Pages /\ Top \notin Pages
ASSUME FormsAssumption == NoForm \notin PostForms
ASSUME NavigationBounds ==
  MaxNavs \in Nat /\ MaxKeys \in Nat \ {0} /\ MaxEntries \in Nat \ {0}

VARIABLES
  entries,      (* the session history: the page and the key of each entry  *)
  place,        (* the entry the address bar shows                          *)
  entryKey,     (* the key of the entry on screen, as the runtime holds it  *)
  shown,        (* the page on screen (currentRoute, renderedUrl)           *)
  pos,          (* the scroll position of the document                      *)
  saved,        (* sessionStorage: the position saved under each key        *)
  timer,        (* scrollTimer is armed                                     *)
  navSeq,       (* the number of the newest navigation                      *)
  nav,          (* every navigation and submission                          *)
  keys,         (* how many keys were handed out                            *)
  claiming,     (* a hashchange event is queued                             *)
  left,         (* the document was handed to the browser                   *)
  crossed       (* history: back or forward came to the page on screen with *)
                (* another on its way, or the reader went on from a screen  *)
                (* that was behind the address                              *)

history == <<entries, place>>
scroll == <<pos, saved, timer>>
navVars == <<history, entryKey, shown, scroll, navSeq, nav, keys, claiming, left, crossed>>

NoKey == 0
Keys == 1 .. MaxKeys
Entry == [page: Pages, key: Keys \cup {NoKey}]

\* push: how the address follows the page: a new entry, the entry rewritten,
\* or none of it.  keep: keepScroll.  arriving: the key of the entry that
\* back or forward went to
NavState ==
  [stage: {"none", "loading", "painting", "over"}, to: Pages,
   push: {"push", "replace", "none"}, keep: BOOLEAN,
   arriving: Keys \cup {NoKey}, form: PostForms \cup {NoForm}]

NoNav ==
  [stage |-> "none", to |-> Home, push |-> "none", keep |-> FALSE,
   arriving |-> NoKey, form |-> NoForm]

NavInit ==
  /\ entries = <<[page |-> Home, key |-> 1]>> /\ place = 1
  /\ entryKey = 1 /\ keys = 1
  /\ shown = Home
  /\ pos = Top /\ saved = [k \in Keys |-> Top] /\ timer = FALSE
  /\ navSeq = 0 /\ nav = [n \in 1 .. MaxNavs |-> NoNav]
  /\ claiming = FALSE /\ left = FALSE /\ crossed = FALSE

Location == entries[place].page

Loading == navSeq > 0 /\ nav[navSeq].stage = "loading"
Arriving == Loading /\ nav[navSeq].push = "none"

\* the screen shows another page, or another entry, than the address
Behind == shown # Location \/ entryKey # entries[place].key

\* a page is on its way to an address that shows this one, or to another entry
\* of it
Misses(page) ==
  Arriving /\ (nav[navSeq].arriving # NoKey \/ nav[navSeq].to # page)

CrossedIf(b) == crossed' = (crossed \/ b)

-----------------------------------------------------------------------------
(* Keys, entries and positions.                                            *)

SavedUnder(k) == [saved EXCEPT ![k] = pos]

Fresh(k) == keys < MaxKeys /\ k = keys + 1 /\ keys' = k

\* pushState: what was ahead of the entry is forgotten
Pushed(page, k) == Append(SubSeq(entries, 1, place), [page |-> page, key |-> k])

PushState(page, k) ==
  /\ place < MaxEntries
  /\ entries' = Pushed(page, k) /\ place' = place + 1

ReplaceState(page, k) ==
  /\ entries' = [entries EXCEPT ![place] = [page |-> page, key |-> k]]
  /\ UNCHANGED place

\* scroll, and its debounce of 100 ms
Scrolls ==
  /\ ~left /\ (timer => shown # pos)
  /\ pos' = shown /\ timer' = TRUE
  /\ UNCHANGED <<history, entryKey, shown, saved, navSeq, nav, keys, claiming, left, crossed>>

TimerFires ==
  /\ ~left /\ timer
  /\ timer' = FALSE
  /\ saved' = SavedUnder(entryKey)
  /\ UNCHANGED <<history, entryKey, shown, pos, navSeq, nav, keys, claiming, left, crossed>>

-----------------------------------------------------------------------------
(* navigate, up to its first await.                                        *)

Navigate(base, to, push, keep, arriving, form) ==
  /\ navSeq < MaxNavs
  /\ navSeq' = navSeq + 1
  /\ nav' = [base EXCEPT ![navSeq + 1] =
               [stage |-> "loading", to |-> to, push |-> push, keep |-> keep,
                arriving |-> arriving, form |-> form]]

\* a link to the page the address shows refreshes it
Clicks(to) ==
  /\ ~left
  /\ Navigate(nav, to, IF to = Location THEN "replace" ELSE "push", FALSE, NoKey,
              NoForm)
  /\ CrossedIf(to = Location /\ Behind)
  /\ UNCHANGED <<history, entryKey, shown, scroll, keys, claiming, left>>

\* inFlight: the form is there until its submission returned
Submittable(f) ==
  \A n \in 1 .. MaxNavs : nav[n].form = f => nav[n].stage # "loading"

Submits(f, to) ==
  /\ ~left /\ Submittable(f)
  /\ Navigate(nav, to, "push", FALSE, NoKey, f)
  /\ CrossedIf(Behind)
  /\ UNCHANGED <<history, entryKey, shown, scroll, keys, claiming, left>>

-----------------------------------------------------------------------------
(* Back and forward, and the fragments the browser navigates by itself.    *)

\* The popstate handler, with the address already at entry i of es.  The page
\* being left has its position saved under its own key; a page that is on
\* screen already only has its entry claimed, any other is fetched, and takes
\* its key when it renders.
Popstate(es, i) ==
  LET flushed == SavedUnder(entryKey)
      stamped == es[i].key
  IN  \E arriving \in Keys :
        /\ IF stamped = NoKey THEN Fresh(arriving)
                              ELSE arriving = stamped /\ UNCHANGED keys
        /\ saved' = flushed
        /\ IF es[i].page = shown
           THEN /\ entryKey' = arriving
                /\ entries' = [es EXCEPT ![i].key = arriving]
                /\ pos' \in {flushed[arriving], shown}
                /\ timer' = (pos' # pos)
                /\ UNCHANGED <<navSeq, nav>>
           ELSE /\ Navigate(nav, es[i].page, "none", FALSE, arriving, NoForm)
                /\ entries' = es /\ timer' = FALSE
                /\ UNCHANGED <<entryKey, pos>>

Traverses(i) ==
  /\ ~left
  /\ i \in DOMAIN entries \ {place}
  /\ place' = i
  /\ Popstate(entries, i)
  /\ CrossedIf(entries[i].page = shown /\ Misses(shown))
  /\ UNCHANGED <<shown, claiming, left>>

\* a link to a fragment of the page the address shows
FragmentLink ==
  /\ ~left /\ place < MaxEntries
  /\ place' = place + 1
  /\ Popstate(Pushed(Location, NoKey), place + 1)
  /\ claiming' = TRUE
  /\ CrossedIf(Behind \/ Misses(shown))
  /\ UNCHANGED <<shown, left>>

\* an entry the browser pushed is claimed, if nobody has
Hashchange ==
  /\ ~left /\ claiming
  /\ claiming' = FALSE
  /\ IF entries[place].key # NoKey
     THEN UNCHANGED <<history, entryKey, keys>>
     ELSE \E k \in Keys :
            /\ Fresh(k) /\ entryKey' = k /\ ReplaceState(Location, k)
  /\ UNCHANGED <<shown, scroll, navSeq, nav, left, crossed>>

-----------------------------------------------------------------------------
(* What a navigation and a submission do when their answer is there.       *)

\* slip: an older navigation renders over a newer one
NewestAlways(n) == TRUE

\* seq === navSeq, looked at after every await
Newest(n) == n = navSeq

Ended(n) == [nav EXCEPT ![n].stage = "over"]

Superseded(n) ==
  /\ ~left /\ nav[n].stage = "loading" /\ ~Newest(n)
  /\ nav' = Ended(n)
  /\ UNCHANGED <<history, entryKey, shown, scroll, navSeq, keys, claiming, left, crossed>>

\* the fetch, the parse or the chunk failed, the route is unknown, the answer
\* is a document or cannot be read: the browser takes over, and pagehide
\* saves the position.  A fresh document carries nothing on.
Leaves(n) ==
  /\ ~left /\ nav[n].stage = "loading" /\ Newest(n)
  /\ left' = TRUE
  /\ saved' = SavedUnder(entryKey) /\ timer' = FALSE
  /\ nav' = Ended(n)
  /\ UNCHANGED <<history, entryKey, shown, pos, navSeq, keys, claiming, crossed>>

\* a submission that was too large keeps the page, with what was typed
TooLarge(n) ==
  /\ ~left /\ nav[n].stage = "loading" /\ Newest(n) /\ nav[n].form # NoForm
  /\ nav' = Ended(n)
  /\ UNCHANGED <<history, entryKey, shown, scroll, navSeq, keys, claiming, left, crossed>>

\* the address of back or forward follows its loader's redirect; a submission
\* that comes back to its own page refreshes it where it is
Redirects(n, dest) ==
  LET me == nav[n]
      back == dest = Location
  IN  /\ ~left /\ me.stage = "loading" /\ Newest(n)
      /\ IF me.form # NoForm
         THEN /\ Navigate(Ended(n), dest, IF back THEN "none" ELSE "push", back,
                          NoKey, NoForm)
              /\ UNCHANGED history
         ELSE /\ Navigate(Ended(n), dest, me.push, me.keep, me.arriving, NoForm)
              /\ IF me.push = "none"
                 THEN ReplaceState(dest, IF me.arriving # NoKey THEN me.arriving
                                                                ELSE entryKey)
                 ELSE UNCHANGED history
      /\ UNCHANGED <<entryKey, shown, scroll, keys, claiming, left, crossed>>

\* the position of the page being left, then a key and an entry of its own
PushEntry(page) ==
  /\ saved' = SavedUnder(entryKey)
  /\ \E k \in Keys : Fresh(k) /\ entryKey' = k /\ PushState(page, k)

\* slips: back and forward keep the key of the page they left; a refresh takes
\* the key of an arrival it is not
ArrivesUnderOldKey(n) == UNCHANGED entryKey
ArrivesUnstamped(n) == entryKey' = nav[n].arriving

ArrivesUnder(n) ==
  entryKey' = IF nav[n].arriving # NoKey THEN nav[n].arriving ELSE entryKey

Addressed(n) ==
  \/ nav[n].push = "push" /\ PushEntry(nav[n].to)
  \/ /\ nav[n].push = "replace"
     /\ ReplaceState(nav[n].to, entryKey)
     /\ UNCHANGED <<entryKey, keys, saved>>
  \/ /\ nav[n].push = "none"
     /\ ArrivesUnder(n)
     /\ UNCHANGED <<history, keys, saved>>

Shows(n) ==
  /\ ~left /\ nav[n].stage = "loading" /\ nav[n].form = NoForm /\ Newest(n)
  /\ Addressed(n)
  /\ shown' = nav[n].to
  /\ nav' = [nav EXCEPT ![n].stage = "painting"]
  /\ UNCHANGED <<pos, timer, navSeq, claiming, left, crossed>>

\* the action's props render in place, or under an entry of their own
ActionRenders(n) ==
  LET same == nav[n].to = Location
  IN  /\ ~left /\ nav[n].stage = "loading" /\ nav[n].form # NoForm /\ Newest(n)
      /\ IF same THEN UNCHANGED <<history, entryKey, keys, saved>>
                 ELSE PushEntry(nav[n].to)
      /\ shown' = nav[n].to
      /\ nav' = [nav EXCEPT ![n].stage = "painting", ![n].keep = same]
      /\ UNCHANGED <<pos, timer, navSeq, claiming, left, crossed>>

\* two frames later: the position kept, the top or a fragment of the new page,
\* or what was saved for the entry
Paints(n) ==
  LET me == nav[n]
      there == IF me.keep THEN pos
               ELSE IF me.push = "none" THEN saved[me.arriving] ELSE Top
  IN  /\ ~left /\ me.stage = "painting"
      /\ nav' = Ended(n)
      /\ IF Newest(n)
         THEN pos' = there /\ timer' = (timer \/ there # pos)
         ELSE UNCHANGED <<pos, timer>>
      /\ UNCHANGED <<history, entryKey, shown, saved, navSeq, keys, claiming, left, crossed>>

NavNext ==
  \/ Scrolls \/ TimerFires \/ FragmentLink \/ Hashchange
  \/ \E to \in Pages : Clicks(to) \/ \E f \in PostForms : Submits(f, to)
  \/ \E i \in 1 .. MaxEntries : Traverses(i)
  \/ \E n \in 1 .. MaxNavs :
       \/ Superseded(n) \/ Leaves(n) \/ TooLarge(n) \/ Shows(n)
       \/ ActionRenders(n) \/ Paints(n)
       \/ \E dest \in Pages : Redirects(n, dest)

NavSpec == NavInit /\ [][NavNext]_navVars

-----------------------------------------------------------------------------
(* Properties.                                                             *)

NavTypeOK ==
  /\ entries \in Seq(Entry) /\ place \in DOMAIN entries
  /\ entryKey \in Keys /\ keys \in Keys
  /\ shown \in Pages
  /\ pos \in Pages \cup {Top} /\ saved \in [Keys -> Pages \cup {Top}]
  /\ timer \in BOOLEAN /\ claiming \in BOOLEAN /\ left \in BOOLEAN
  /\ crossed \in BOOLEAN
  /\ navSeq \in 0 .. MaxNavs
  /\ nav \in [1 .. MaxNavs -> NavState]

AtRest == ~left /\ \A n \in 1 .. MaxNavs : nav[n].stage \in {"none", "over"}

\* The page on screen is the page the address names, once nothing is on its
\* way: no navigation, redirect or submission that was overtaken leaves the
\* one without the other.
ShownIsLocated == AtRest => shown = Location

\* Every history entry has a key of its own: two that shared one would share
\* their scroll position.
KeysAreTheirOwn ==
  \A i, j \in DOMAIN entries :
    entries[i].key = entries[j].key /\ entries[i].key # NoKey => i = j

\* The key the runtime saves positions under is that of the entry the address
\* names: what the reader does on a page is not remembered for another entry.
KeyIsCurrent == AtRest => entryKey = entries[place].key

\* "Back and forward restore the saved position, a new navigation goes to the
\* top, and an action that redirects back to the page you were on leaves you
\* exactly where you were" (docs/client-navigation.md): at rest the document
\* stands at the top, or where it was scrolled to on this page. It does not
\* hold when the page an action redirects back to redirects elsewhere.
PositionIsOfThePage == AtRest => pos \in {Top, shown}

\* The screen, the address, the entry and the key a position is saved under
\* belong to one page, until back or forward comes to the page on screen with
\* another on its way, or the reader refreshes, submits or follows a fragment
\* from a screen that back or forward left behind the address.
ScreenMatchesHistory ==
  NavTypeOK /\ (crossed \/ (ShownIsLocated /\ KeysAreTheirOwn /\ KeyIsCurrent))
=============================================================================
