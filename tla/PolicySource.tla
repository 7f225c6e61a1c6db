----------------------------- MODULE PolicySource -----------------------------
(***************************************************************************)
(* The page policies as the render service declares them (isr_front.go,    *)
(* type policySource): read once per boot of the service, by one fetch at  *)
(* a time that whoever asks meanwhile shares; a failure is remembered for  *)
(* a second; and the boot stamp every response carries says when to read   *)
(* them again.                                                             *)
(*                                                                         *)
(* A table is the boot that declared it.  The service may stop and boot    *)
(* again at any moment, and a response may reach the front long after the  *)
(* boot that sent it is over.                                              *)
(***************************************************************************)
EXTENDS Naturals, FiniteSets

CONSTANTS
  Callers,      (* goroutines that ask for the table                        *)
  MaxBoot       (* bound on the boots of the render service                 *)

ASSUME BootAssumption == MaxBoot \in Nat \ {0}

VARIABLES
  service,      (* the boot that answers, 0 while none does                 *)
  boots,        (* how many times the service booted                        *)
  loaded,       (* the table is current, as far as the front knows          *)
  boot,         (* the boot that declared the table, 0 before the first     *)
  inflight,     (* the call that fetches; NoFetch                           *)
  failed,       (* the last fetch failed less than a second ago             *)
  caller,       (* each call: where it stands, what it waits for or holds   *)
  stamps        (* the stamps of responses on their way to the front        *)

policyVars == <<service, boots, loaded, boot, inflight, failed, caller, stamps>>

Boots == 1 .. MaxBoot
Unread == 0

\* with: what a fetch brought back, what a call returned
CallState ==
  [at: {"out", "fetching", "fetched", "waiting", "woken"}, with: 0 .. MaxBoot]

Out == [at |-> "out", with |-> Unread]

NoFetch == {}

PolicyInit ==
  /\ service = 0 /\ boots = 0
  /\ loaded = FALSE /\ boot = Unread
  /\ inflight = NoFetch
  /\ failed = FALSE
  /\ caller = [c \in Callers |-> Out]
  /\ stamps = {}

-----------------------------------------------------------------------------
(* The render service.                                                     *)

Starts ==
  /\ service = 0 /\ boots < MaxBoot
  /\ boots' = boots + 1
  /\ service' = boots + 1
  /\ UNCHANGED <<loaded, boot, inflight, failed, caller, stamps>>

\* the last boot the bound allows stays
Stops ==
  /\ service \in 1 .. (MaxBoot - 1)
  /\ service' = 0
  /\ UNCHANGED <<boots, loaded, boot, inflight, failed, caller, stamps>>

\* a proxied page, or a shared render
Responds ==
  /\ service # 0
  /\ stamps' = stamps \cup {service}
  /\ UNCHANGED <<service, boots, loaded, boot, inflight, failed, caller>>

-----------------------------------------------------------------------------
(* table, up to its fetch.                                                 *)

Returns(c, with) == caller' = [caller EXCEPT ![c] = [at |-> "out", with |-> with]]

GoesTo(c, at) == caller' = [caller EXCEPT ![c] = [at |-> at, with |-> Unread]]

\* whoever asks meanwhile waits for the fetch that runs
Shared == inflight # NoFetch

Asks(c) ==
  /\ caller[c].at = "out"
  /\ \/ /\ loaded
        /\ Returns(c, boot)
        /\ UNCHANGED inflight
     \/ /\ ~loaded /\ failed
        /\ Returns(c, Unread)
        /\ UNCHANGED inflight
     \/ /\ ~loaded /\ ~failed /\ Shared
        /\ GoesTo(c, "waiting")
        /\ UNCHANGED inflight
     \/ /\ ~loaded /\ ~failed /\ ~Shared
        /\ GoesTo(c, "fetching")
        /\ inflight' = inflight \cup {c}
  /\ UNCHANGED <<service, boots, loaded, boot, failed, stamps>>

\* the service answers, or it does not within policyFetchWait
Fetched(c) ==
  /\ caller[c].at = "fetching"
  /\ \E with \in {Unread, service} :
       caller' = [caller EXCEPT ![c] = [at |-> "fetched", with |-> with]]
  /\ UNCHANGED <<service, boots, loaded, boot, inflight, failed, stamps>>

Waiting == {d \in Callers : caller[d].at = "waiting"}

\* close(done), whatever the fetch brought
Wakes(c) == Waiting

\* the table is replaced, or the failure remembered; then everyone is woken
Stores(c) ==
  /\ caller[c].at = "fetched"
  /\ inflight' = inflight \ {c}
  /\ IF caller[c].with = Unread
     THEN failed' = TRUE /\ UNCHANGED <<loaded, boot>>
     ELSE failed' = FALSE /\ loaded' = TRUE /\ boot' = caller[c].with
  /\ caller' = [d \in Callers |->
       IF d = c THEN [at |-> "out", with |-> caller[c].with]
       ELSE IF d \in Wakes(c) THEN [at |-> "woken", with |-> Unread]
       ELSE caller[d]]
  /\ UNCHANGED <<service, boots, stamps>>

\* a woken call reads whatever is there by now
Rereads(c) ==
  /\ caller[c].at = "woken"
  /\ Returns(c, IF loaded THEN boot ELSE Unread)
  /\ UNCHANGED <<service, boots, loaded, boot, inflight, failed, stamps>>

\* policyRetryAfter
Forgives ==
  /\ failed
  /\ failed' = FALSE
  /\ UNCHANGED <<service, boots, loaded, boot, inflight, caller, stamps>>

-----------------------------------------------------------------------------
(* sawBoot.                                                                *)

\* slip: only a newer stamp than the last table's is believed once
ReloadsBefore(stamp) == loaded /\ stamp < boot

\* another boot than the table's answered
Reloads(stamp) == loaded /\ stamp # boot

SawBoot(stamp) ==
  /\ stamp \in stamps
  /\ stamps' = stamps \ {stamp}
  /\ loaded' = IF Reloads(stamp) THEN FALSE ELSE loaded
  /\ UNCHANGED <<service, boots, boot, inflight, failed, caller>>

PolicyNext ==
  \/ Starts \/ Stops \/ Responds \/ Forgives
  \/ \E c \in Callers : Asks(c) \/ Fetched(c) \/ Stores(c) \/ Rereads(c)
  \/ \E stamp \in Boots : SawBoot(stamp)

PolicySpec == PolicyInit /\ [][PolicyNext]_policyVars

\* the fetch has a timeout, and the service that stays up goes on answering
\* some requests
PolicyFairness ==
  /\ WF_policyVars(Responds)
  /\ \A stamp \in Boots : WF_policyVars(SawBoot(stamp))
  /\ \A c \in Callers : WF_policyVars(Fetched(c)) /\ WF_policyVars(Stores(c)) /\ WF_policyVars(Rereads(c))

-----------------------------------------------------------------------------
(* Properties.                                                             *)

PolicyTypeOK ==
  /\ service \in 0 .. MaxBoot /\ boots \in 0 .. MaxBoot
  /\ loaded \in BOOLEAN /\ boot \in 0 .. MaxBoot
  /\ inflight \in SUBSET Callers
  /\ failed \in BOOLEAN
  /\ caller \in [Callers -> CallState]
  /\ \A c \in Callers :
       caller[c].at \in {"fetching", "waiting", "woken"} => caller[c].with = Unread
  /\ stamps \in SUBSET Boots

\* A hung render service holds one fetch, not one per page request; it is the
\* one the front knows of, and whoever waits for a table waits for it.
OneFetch ==
  /\ Cardinality(inflight) <= 1
  /\ inflight = {c \in Callers : caller[c].at \in {"fetching", "fetched"}}
  /\ Waiting # {} => inflight # NoFetch

\* Every call returns: whether the service answers, fails or restarts.
CallsReturn == PolicyFairness => \A c \in Callers : caller[c].at # "out" ~> caller[c].at = "out"

\* However fetches, restarts and late responses cross, the table of a boot
\* that stays and goes on answering is the one in use in the end.
TableCatchesUp == PolicyFairness => (service = MaxBoot ~> [](loaded => boot = MaxBoot))

\* However many ask and however often the render service comes back, one fetch
\* at a time brings the table of the boot that stays.
OneFetchCatchesUp == [](PolicyTypeOK /\ OneFetch) /\ TableCatchesUp
=============================================================================
