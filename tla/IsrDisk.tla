------------------------------- MODULE IsrDisk -------------------------------
(***************************************************************************)
(* The cached pages with their files (isr.go, persistence): every store    *)
(* starts a save goroutine, every drop queues the removal of the pair,     *)
(* whoever unlocked drains the queue, and a restart loads what it finds.   *)
(*                                                                         *)
(* Every action of Isr is here with what it does to the files: the cache's *)
(* onDrop hook is called for exactly the keys that leave the cache.  A     *)
(* pair is the version its html shows and the version its json vouches     *)
(* for.  Temp files are part of the save that wrote them: no reader ever   *)
(* looks at one and a boot removes those it finds.  sweep and a drain's    *)
(* list are sets: removing a pair twice in a row is removing it once.      *)
(***************************************************************************)
EXTENDS Isr, Sequences

CONSTANTS
  Saves,        (* save goroutines: bounds those running at once            *)
  Drains,       (* goroutines between an unlock and the end of their drain  *)
  NoFile,       (* the file is not there                                    *)
  ReadErrors,   (* may a boot be unable to read a file that is there?       *)
  MaxGen        (* bound on the saves of one process                        *)

ASSUME DiskAssumption ==
  /\ IsFiniteSet(Keys)
  /\ NoFile \notin Nat
  /\ ReadErrors \in BOOLEAN
  /\ MaxGen \in Nat

VARIABLES
  disk,         (* the pair of each key                                     *)
  saveGen,      (* the generation that may land, 0 when the map has none    *)
  lastGen,      (* the counter the generations come from                    *)
  save,         (* the save goroutines                                      *)
  sweep,        (* keys whose pair is to be removed                         *)
  drain,        (* the draining goroutines                                  *)
  promised,     (* history: floor at the latest Revalidate that returned    *)
                (* with its pair on no list                                 *)
  lent          (* history: the same, of a pair that another goroutine has  *)
                (* on its list                                              *)

fileVars == <<disk, saveGen, lastGen, save, sweep, drain, promised, lent>>
dvars == <<vars, fileVars>>

Files == Versions \cup {NoFile}
Pair == [html: Files, json: Files]

SaveState == [stage: {"idle", "writing", "written"}, key: Keys, gen: 0 .. MaxGen, v: Versions]

\* upto: what the Revalidate that runs this drain will have promised
DrainState ==
  [stage: {"idle", "due", "removing"}, list: SUBSET Keys,
   half: SUBSET Keys, upto: [Keys -> Versions]]

NoSave == [stage |-> "idle", key |-> SomeKey, gen |-> 0, v |-> 0]
Nothing == [k \in Keys |-> 0]
NoDrain == [stage |-> "idle", list |-> {}, half |-> {}, upto |-> Nothing]

DInit ==
  /\ Init
  /\ disk = [k \in Keys |-> [html |-> NoFile, json |-> NoFile]]
  /\ saveGen = Nothing
  /\ lastGen = 0
  /\ save = [s \in Saves |-> NoSave]
  /\ sweep = {}
  /\ drain = [d \in Drains |-> NoDrain]
  /\ promised = Nothing
  /\ lent = Nothing

-----------------------------------------------------------------------------
(* What the steps of Isr do to the files.                                  *)

\* forgetSaved, for every key the step dropped; called with the lock held
Dropped == {k \in Cached(cache) : cache'.pages[k] = Absent}

\* slip: a dropped key keeps its generation
ForgottenNever == saveGen

Forgotten == [k \in Keys |-> IF k \in Dropped THEN 0 ELSE saveGen[k]]

Queue == sweep' = sweep \cup Dropped

\* a goroutine that unlocked goes on to drain
Owes(upto) ==
  \E d \in Drains :
    /\ drain[d].stage = "idle"
    /\ drain' = [drain EXCEPT ![d] = [NoDrain EXCEPT !.stage = "due", !.upto = upto]]

\* steps that queue nothing
Quiet ==
  /\ \/ \E k \in Keys : Write(k) \/ Ages(k) \/ RefusalLapses(k)
     \/ \E r \in Requests, k \in Keys : Arrive(r, k)
     \/ \E f \in Flights : RenderReads(f) \/ RenderFails(f) \/ RenderPanics(f)
  /\ UNCHANGED fileVars

DropUnstorable(f) ==
  /\ RenderUnstorable(f)
  /\ saveGen' = Forgotten
  /\ Queue
  /\ UNCHANGED <<disk, lastGen, save, drain, promised, lent>>

\* one counter for every key, never repeating
NextGen(k) == lastGen + 1

\* cache.store, then saveEntry: its goroutine starts under the lock
StoreAndSave(f) ==
  LET k == flight[f].key
      gen == NextGen(k)
  IN  /\ RenderStored(f)
      /\ IF flight[f].doomed
         THEN UNCHANGED <<saveGen, lastGen, save, sweep>>
         ELSE /\ gen <= MaxGen
              /\ lastGen' = gen
              /\ saveGen' = [Forgotten EXCEPT ![k] = gen]
              /\ \E s \in Saves :
                   /\ save[s].stage = "idle"
                   /\ save' = [save EXCEPT ![s] =
                        [stage |-> "writing", key |-> k, gen |-> gen,
                         v |-> flight[f].v]]
              /\ Queue
      /\ UNCHANGED <<disk, drain, promised, lent>>

\* the drain deferred first runs last, after done is closed
EndAndDrain(f) ==
  /\ FlightEnds(f)
  /\ Owes(Nothing)
  /\ UNCHANGED <<disk, saveGen, lastGen, save, sweep, promised, lent>>

Revalidated(named) ==
  /\ saveGen' = Forgotten
  /\ Queue
  /\ Owes([k \in Keys |-> IF k \in named THEN ver[k] ELSE 0])
  /\ UNCHANGED <<disk, lastGen, save, promised, lent>>

Revalidate(p) == InvalidatePath(p) /\ Revalidated(Names[p])
RevalidateTag(t) == InvalidateTag(t) /\ Revalidated(Bearing(t))

-----------------------------------------------------------------------------
(* The save goroutine.                                                     *)

SaveWrites(s) ==
  /\ save[s].stage = "writing"
  /\ save' = [save EXCEPT ![s].stage = "written"]
  /\ UNCHANGED <<vars, disk, saveGen, lastGen, sweep, drain, promised, lent>>

\* slip: a save lands whatever happened to its key
CurrentAlways(s) == TRUE

\* the pair lands only if the key is still on this generation
Current(s) == saveGen[save[s].key] = save[s].gen

HtmlLanded(s) == [disk EXCEPT ![save[s].key].html = save[s].v]
PairLanded(s) == [HtmlLanded(s) EXCEPT ![save[s].key].json = save[s].v]

Finished(s) == save' = [save EXCEPT ![s] = NoSave]

\* two renames under the lock, or the temp files go
SaveLands(s) ==
  /\ save[s].stage = "written"
  /\ disk' = IF Current(s) THEN PairLanded(s) ELSE disk
  /\ Finished(s)
  /\ UNCHANGED <<vars, saveGen, lastGen, sweep, drain, promised, lent>>

\* a write fails, or a rename: the second may fail after the first
SaveFails(s) ==
  /\ save[s].stage # "idle"
  /\ \/ UNCHANGED disk
     \/ save[s].stage = "written" /\ Current(s) /\ disk' = HtmlLanded(s)
  /\ Finished(s)
  /\ Owes(Nothing)
  /\ UNCHANGED <<vars, saveGen, lastGen, sweep, promised, lent>>

-----------------------------------------------------------------------------
(* drain.                                                                  *)

Listed(k) == \E d \in Drains : k \in drain[d].list

Higher(m, n) == IF m > n THEN m ELSE n

\* history: a Revalidate that returns promises what it named, and a pair that
\* another goroutine has yet to remove keeps the promise back until it is gone
Counted(named) ==
  LET owed == [k \in Keys |-> Higher(lent[k], named[k])]
  IN  /\ lent' = [k \in Keys |-> IF Listed(k)' THEN owed[k] ELSE 0]
      /\ promised' = [k \in Keys |->
           IF Listed(k)' THEN promised[k] ELSE Higher(promised[k], owed[k])]

\* the whole queue becomes this goroutine's
DrainTakes(d) ==
  /\ drain[d].stage = "due"
  /\ drain' = [drain EXCEPT ![d].stage = "removing", ![d].list = sweep]
  /\ sweep' = {}
  /\ Counted(Nothing)
  /\ UNCHANGED <<vars, disk, saveGen, lastGen, save>>

\* html, then json, without the lock
DrainRemoves(d) ==
  /\ drain[d].stage = "removing"
  /\ \E k \in drain[d].list :
       \/ /\ drain[d].half = {}
          /\ disk' = [disk EXCEPT ![k].html = NoFile]
          /\ drain' = [drain EXCEPT ![d].half = {k}]
       \/ /\ drain[d].half = {k}
          /\ disk' = [disk EXCEPT ![k].json = NoFile]
          /\ drain' = [drain EXCEPT ![d].list = @ \ {k}, ![d].half = {}]
  /\ Counted(Nothing)
  /\ UNCHANGED <<vars, saveGen, lastGen, save, sweep>>

DrainEnds(d) ==
  /\ drain[d].stage = "removing"
  /\ drain[d].list = {}
  /\ drain' = [drain EXCEPT ![d] = NoDrain]
  /\ Counted(drain[d].upto)
  /\ UNCHANGED <<vars, disk, saveGen, lastGen, save, sweep>>

-----------------------------------------------------------------------------
(* A restart: the process ends anywhere, and newIsr loads what it left.    *)

\* slip: a pair is loaded for having both its files
VouchedByPresence(pair) == pair.json # NoFile /\ pair.html # NoFile

\* readSaved: both files, and the json vouches for this html
Vouched(pair) == pair.json # NoFile /\ pair.html = pair.json

\* found: the pairs that load, oldest first by the time they were stored
Orders(S) == {s \in [1 .. Cardinality(S) -> S] : {s[i] : i \in DOMAIN s} = S}

\* store in that order: the last ones stay
Kept(found) ==
  {found[i] : i \in {j \in DOMAIN found : j + MaxCachedPages > Len(found)}}

LoadedCache(found, left, aged) ==
  LET kept == Kept(found)
  IN  [pages |-> [k \in Keys |->
         IF k \in kept
         THEN [body |-> left[k].html, head |-> left[k].json,
               tags |-> TagsOf[k], aged |-> k \in aged]
         ELSE Absent],
       older |-> {<<found[p[1]], found[p[2]]>> : p \in
                    {q \in (DOMAIN found) \X (DOMAIN found) :
                       q[1] < q[2] /\ found[q[1]] \in kept}},
       byTag |-> [t \in Tags |-> {k \in kept : t \in TagsOf[k]}]]

\* the pairs a boot could not read just now: a file held open by another
\* process, a scanner opening what was just renamed
Unreadables(left) ==
  IF ReadErrors THEN SUBSET {k \in Keys : left[k].json # NoFile} ELSE {{}}

\* loadSaved over the pairs left: what does not load is removed, what could
\* not be read stays, the overflow of the cache is queued
LoadSaved(left, sameBuild) ==
  \E unreadable \in Unreadables(left) :
    LET good == {k \in Keys \ unreadable : sameBuild /\ Vouched(left[k])}
    IN  \E found \in Orders(good) :
          /\ \E aged \in SUBSET (Kept(found) \ Manual) :
               cache' = LoadedCache(found, left, aged)
          /\ disk' = [k \in Keys |->
               IF k \in good \cup unreadable THEN left[k]
               ELSE [html |-> NoFile, json |-> NoFile]]
          /\ sweep' = good \ Kept(found)

\* what a crash may leave: the files as they are, or a landing save's html
\* without its json
LeftByCrash ==
  {disk} \cup {HtmlLanded(s) : s \in {x \in Saves :
                 save[x].stage = "written" /\ Current(x)}}

\* everything in memory is gone, the render goroutines and requests with it
Restart ==
  /\ \E left \in LeftByCrash, sameBuild \in BOOLEAN : LoadSaved(left, sameBuild)
  /\ floor' = Nothing
  /\ refused' = [of |-> [k \in Keys |-> Absent], older |-> {}]
  /\ inflight' = [k \in Keys |-> NoFlight]
  /\ flight' = [f \in Flights |-> Parked]
  /\ req' = [r \in Requests |->
               [waiting |-> FALSE, key |-> SomeKey, min |-> 0,
                flight |-> NoFlight, got |-> Own]]
  /\ saveGen' = Nothing
  /\ lastGen' = 0
  /\ save' = [s \in Saves |-> NoSave]
  /\ drain' = [d \in Drains |-> NoDrain]
  /\ lent' = Nothing
  /\ UNCHANGED <<ver, promised>>

DNext ==
  \/ Quiet
  \/ \E f \in Flights : DropUnstorable(f) \/ StoreAndSave(f) \/ EndAndDrain(f)
  \/ \E p \in Paths : Revalidate(p)
  \/ \E t \in Tags : RevalidateTag(t)
  \/ \E s \in Saves : SaveWrites(s) \/ SaveLands(s) \/ SaveFails(s)
  \/ \E d \in Drains : DrainTakes(d) \/ DrainRemoves(d) \/ DrainEnds(d)
  \/ Restart

DSpec == DInit /\ [][DNext]_dvars

-----------------------------------------------------------------------------
(* Properties.                                                             *)

DTypeOK ==
  /\ TypeOK
  /\ disk \in [Keys -> Pair]
  /\ saveGen \in [Keys -> 0 .. MaxGen]
  /\ lastGen \in 0 .. MaxGen
  /\ save \in [Saves -> SaveState]
  /\ sweep \in SUBSET Keys
  /\ drain \in [Drains -> DrainState]
  /\ \A d \in Drains : drain[d].half \subseteq drain[d].list
  /\ promised \in [Keys -> Versions]
  /\ lent \in [Keys -> Versions]

Pending(k) == k \in sweep \/ Listed(k)

\* No copy is put together from two renders: a crash between the two renames,
\* a rename that failed after the first one, a drain that was half done - the
\* json vouches for the html or the pair does not load.
WholeCopies == \A k \in Cached(cache) : cache.pages[k].body = cache.pages[k].head

\* The files never run ahead of the memory: a pair a restart would load is on
\* its way out, or it is no newer than the copy its key has now, which no
\* invalidation has overtaken.
PairsFollowMemory ==
  \A k \in Keys :
    Vouched(disk[k]) /\ ~Pending(k) =>
      /\ k \in Cached(cache)
      /\ disk[k].html \in floor[k] .. cache.pages[k].body

\* "an invalidated copy cannot come back on the next restart" (isr.go), of any
\* number of drains: a copy whose Revalidate returned is not served by a later
\* process, once every goroutine that took its pair from the queue is through.
NothingComesBack ==
  \A k \in Cached(cache) : cache.pages[k].body >= promised[k]

\* The same without the goroutines it takes: once a Revalidate has returned, no
\* pair is left that the next restart would load an invalidated copy from.
ReturnedMeansGone ==
  \A k \in Keys : Vouched(disk[k]) => disk[k].html >= lent[k]

\* The files are what the memory holds, or older and about to be removed.
FilesFollowMemory == DTypeOK /\ PairsFollowMemory
=============================================================================
