---------------------------- MODULE VaultScreen -----------------------------
(***************************************************************************)
(* The vault's page and its policy editor: the cached vault they show, the *)
(* freeze button, the policy form, and the update-policy script run beside *)
(* them.  What the page shows comes from the backend's mirror, which       *)
(* follows the chain later, or from the chain itself when the mirror has   *)
(* no row.  The query library is modelled by what its calls do: a fetch    *)
(* for a mounted stale query, one fetch at a time, invalidation restarting *)
(* it, the cached data kept when a fetch fails.  Names that OwnerConsole   *)
(* has too are written with Screen here, so that one module can prove      *)
(* theorems about both compositions.                                       *)
(***************************************************************************)
EXTENDS OwnerFlows

CONSTANT MayFail   \* whether requests to the backend and the node can fail

ASSUME ScreenAssumption == MayFail \in BOOLEAN

VARIABLES
    screen,     \* "detail", "policy" or "elsewhere"
    button,     \* the flows of the freeze button and of the submit button
    form,       \* the policy form
    query,      \* the vault query: cached data and the fetch under way
    mirror      \* the backend's row of the vault
pageVars == <<screen, button, form, query, mirror>>
screenVars == <<chainVars, scriptVars, flows, pageVars>>

\* composeVault, and the row of the mirror: the fields the owner changes.
Snapshot(c) == [frozen |-> c.frozen, cap |-> c.cap, whitelist |-> c.whitelist]

ScreenInit ==
    /\ ChainInit(6) /\ ScriptInit(6)
    /\ flows = <<>>
    /\ screen = "elsewhere" /\ form = None
    /\ button = [freeze |-> 0, submit |-> 0]
    /\ query = [data |-> None, stale |-> TRUE, pc |-> "idle", got |-> None]
    /\ mirror \in {None, Snapshot(chain)}

-----------------------------------------------------------------------------
(* The vault query. *)

Mounted == screen # "elsewhere"

\* invalidateQueries: drops the fetch under way and starts another when a
\* screen shows the query; otherwise the next mount does.
Invalidated(q) == [q EXCEPT !.stale = TRUE,
                            !.pc = IF Mounted THEN "rest" ELSE @,
                            !.got = IF Mounted THEN None ELSE @]

\* The promise of an invalidation resolves when the fetch it started ends.
NeverResolved(fs) == fs

Resolved(fs) == [j \in DOMAIN fs |-> IF fs[j].at = "refetch"
                                     THEN [fs[j] EXCEPT !.at = "fetched"] ELSE fs[j]]

\* The backend answers with its row; a 404 falls back to the chain.
RestAnswer ==
    /\ query.pc = "rest"
    /\ query' = IF mirror = None THEN [query EXCEPT !.pc = "vault"]
                ELSE [query EXCEPT !.pc = "got", !.got = mirror]
    /\ UNCHANGED flows

\* Two awaits: the vault account, then its policy.
readVaultFromChain ==
    /\ \/ /\ query.pc = "vault"
          /\ query' = [query EXCEPT !.pc = "policy", !.got = Snapshot(chain)]
       \/ /\ query.pc = "policy"
          /\ query' = [query EXCEPT !.pc = "got",
                          !.got = [Snapshot(chain) EXCEPT !.frozen = query.got.frozen]]
    /\ UNCHANGED flows

FetchDone ==
    /\ query.pc = "got"
    /\ query' = [data |-> query.got, stale |-> FALSE, pc |-> "idle", got |-> None]
    /\ flows' = Resolved(flows)

FetchSteps == /\ RestAnswer \/ readVaultFromChain \/ FetchDone
              /\ UNCHANGED <<chainVars, scriptVars, screen, button, form, mirror>>

\* The request fails and the data of an earlier fetch stay, or staleTime passes.
useVaultQuery ==
    \/ FetchSteps
    \/ /\ \/ /\ MayFail /\ query.pc # "idle"
             /\ query' = [query EXCEPT !.pc = "idle", !.got = None]
             /\ flows' = Resolved(flows)
          \/ /\ ~query.stale
             /\ query' = [query EXCEPT !.stale = TRUE]
             /\ UNCHANGED flows
       /\ UNCHANGED <<chainVars, scriptVars, screen, button, form, mirror>>

\* The indexer handles the vault's events.  The page gets a frame, which marks
\* the query stale and fetches nothing (refetchType "none").
useLiveVault ==
    /\ mirror # Snapshot(chain)
    /\ mirror' = Snapshot(chain)
    /\ query' = [query EXCEPT !.stale = @ \/ screen = "detail"]
    /\ UNCHANGED <<chainVars, scriptVars, flows, screen, button, form>>

\* The backfill button: the indexer catches up, then the query is invalidated.
useBackfillVault ==
    /\ screen = "detail" /\ query.data # None
    /\ mirror' = Snapshot(chain)
    /\ query' = Invalidated(query)
    /\ flows' = Resolved(flows)
    /\ UNCHANGED <<chainVars, scriptVars, screen, button, form>>

\* Opening a page mounts the query, which fetches when stale; the state of
\* the page that is left is gone, its handlers go on.
OnMount(q) == IF q.stale /\ q.pc = "idle" THEN [q EXCEPT !.pc = "rest"] ELSE q

Navigate(to) ==
    /\ to # screen
    /\ to = "policy" => screen = "detail" /\ query.data # None
    /\ screen' = to /\ form' = None /\ button' = [freeze |-> 0, submit |-> 0]
    /\ query' = IF to = "elsewhere" THEN query ELSE OnMount(query)
    /\ UNCHANGED <<chainVars, scriptVars, flows, mirror>>

-----------------------------------------------------------------------------
(* The freeze button. *)

\* The direction comes from the data shown.
FreezeOptimistic ==
    /\ screen = "detail" /\ query.data # None /\ ~Pending(button.freeze)
    /\ Start("signing", [ix |-> "freeze", frozen |-> ~query.data.frozen], None)
    /\ button' = [button EXCEPT !.freeze = Len(flows) + 1]
    /\ query' = [query EXCEPT !.data.frozen = ~@]
    /\ UNCHANGED <<chainVars, scriptVars, screen, form, mirror>>

onToggleFreeze ==
    /\ screen = "detail" /\ query.data # None /\ ~Pending(button.freeze)
    /\ Start("signing", [ix |-> "freeze", frozen |-> ~query.data.frozen], None)
    /\ button' = [button EXCEPT !.freeze = Len(flows) + 1]
    /\ UNCHANGED <<chainVars, scriptVars, screen, form, query, mirror>>

\* Confirmed: the cached row is patched, then invalidated.
FreezeDone(i) ==
    /\ flows[i].t.ix = "freeze"
    /\ flows' = [(IF Mounted THEN Resolved(flows) ELSE flows) EXCEPT ![i].at = "done"]
    /\ query' = Invalidated(IF query.data = None THEN query
                            ELSE [query EXCEPT !.data.frozen = flows[i].t.frozen])

-----------------------------------------------------------------------------
(* The policy editor. *)

\* The form starts from the data at its first render and keeps its values
\* when a refetch brings others.
PolicyEditor ==
    /\ screen = "policy" /\ form = None /\ query.data # None
    /\ form' = [cap |-> query.data.cap, whitelist |-> query.data.whitelist]
    /\ UNCHANGED <<chainVars, scriptVars, flows, screen, button, query, mirror>>

CapSlider(c) ==
    /\ form # None /\ c # form.cap
    /\ form' = [form EXCEPT !.cap = c]
    /\ UNCHANGED <<chainVars, scriptVars, flows, screen, button, query, mirror>>

ToggleUnbounded(s) ==
    /\ form # None
    /\ form' = [form EXCEPT !.whitelist = IF s \in @ THEN @ \ {s} ELSE @ \cup {s}]
    /\ UNCHANGED <<chainVars, scriptVars, flows, screen, button, query, mirror>>

toggleService(s) ==
    /\ form # None
    /\ s \in form.whitelist \/ Cardinality(form.whitelist) < WhitelistLen
    /\ form' = [form EXCEPT !.whitelist = IF s \in @ THEN @ \ {s} ELSE @ \cup {s}]
    /\ UNCHANGED <<chainVars, scriptVars, flows, screen, button, query, mirror>>

dirty == /\ form # None /\ query.data # None
         /\ form.cap # query.data.cap \/ form.whitelist # query.data.whitelist

onReset ==
    /\ dirty /\ ~Pending(button.submit)
    /\ form' = [cap |-> query.data.cap, whitelist |-> query.data.whitelist]
    /\ UNCHANGED <<chainVars, scriptVars, flows, screen, button, query, mirror>>

\* The on-chain array holds WhitelistLen entries; a longer list is cut.
padWhitelist(w) ==
    IF Cardinality(w) <= WhitelistLen THEN w
    ELSE CHOOSE v \in SUBSET w : Cardinality(v) = WhitelistLen

onSubmitPolicy ==
    /\ dirty /\ ~Pending(button.submit)
    /\ Start("reading", [ix |-> "policy", cap |-> form.cap,
                         whitelist |-> padWhitelist(form.whitelist)], form)
    /\ button' = [button EXCEPT !.submit = Len(flows) + 1]
    /\ UNCHANGED <<chainVars, scriptVars, screen, form, query, mirror>>

\* Confirmed: the query is invalidated and the refetch awaited.
PolicySent(i) ==
    /\ flows[i].t.ix = "policy"
    /\ flows' = IF Mounted THEN [Resolved(flows) EXCEPT ![i].at = "refetch"]
                ELSE [flows EXCEPT ![i].at = "fetched"]
    /\ query' = Invalidated(query)

\* Then the handler goes to the vault's page, wherever the user is by now.
PolicyDone(i) ==
    /\ flows[i].at = "fetched"
    /\ Goes(i, "done")
    /\ screen' = "detail" /\ form' = None
    /\ button' = IF screen = "detail" THEN button ELSE [freeze |-> 0, submit |-> 0]
    /\ query' = IF screen = "detail" THEN query ELSE OnMount(query)
    /\ UNCHANGED <<chainVars, scriptVars, mirror>>

-----------------------------------------------------------------------------
ScreenFlowStep(i) ==
    \/ /\ ReadFirst(i) \/ sendWithSigners(i) \/ Throw(i)
       /\ UNCHANGED <<scriptVars, pageVars>>
    \/ /\ flows[i].at = "waiting" /\ Succeeded(i)
       /\ FreezeDone(i) \/ PolicySent(i)
       /\ UNCHANGED <<chainVars, scriptVars, screen, button, form, mirror>>
    \/ PolicyDone(i)

ScreenNetworkStep == Network /\ UNCHANGED <<scriptVars, flows, pageVars>>
ScreenScriptRuns == (UpdatePolicy \/ Failed) /\ UNCHANGED <<flows, pageVars>>

ScreenNext ==
    \/ ScreenNetworkStep \/ ScreenScriptRuns
    \/ useVaultQuery \/ useLiveVault \/ useBackfillVault
    \/ \E to \in {"detail", "policy", "elsewhere"} : Navigate(to)
    \/ \E i \in 1..Len(flows) : ScreenFlowStep(i)
    \/ onToggleFreeze \/ PolicyEditor \/ onReset \/ onSubmitPolicy
    \/ \E c \in Caps : CapSlider(c)
    \/ \E s \in Services : toggleService(s)

\* The cluster settles every transaction, a fetch under way goes on, and so
\* does a handler.  Nobody has to start one.
ScreenFairness ==
    /\ WF_screenVars(ScreenNetworkStep)
    /\ WF_screenVars(FetchSteps)
    /\ \A i \in 1..MaxFlows : WF_screenVars(i <= Len(flows) /\ ScreenFlowStep(i))

ScreenSpec == ScreenInit /\ [][ScreenNext]_screenVars /\ ScreenFairness

-----------------------------------------------------------------------------
(* Properties. *)

\* Everything has its type: the cached row, the form and the references.
ScreenTypeOK ==
    /\ query.data = None \/ query.data.cap \in Caps
    /\ form = None \/ form.cap \in Caps
    /\ query.pc \in {"idle", "rest", "vault", "policy", "got"}
    /\ \A i \in 1..Len(flows) :
         /\ flows[i].at \in {"reading", "signing", "waiting", "refetch", "fetched"} \cup Settled
         /\ flows[i].tx \in 0..Len(txs)
    /\ {button.freeze, button.submit} \subseteq 0..Len(flows)

\* A policy transaction of the console carries the whitelist its form showed,
\* although padWhitelist cuts what does not fit.
WhitelistAsSelected ==
    \A i \in 1..Len(flows) :
        flows[i].t.ix = "policy" => flows[i].t.whitelist = flows[i].chosen.whitelist

\* The page's idea of frozen is one the chain has been in: the cached value
\* differs from the chain's only if some freeze or unfreeze has executed.
FrozenHasCause ==
    query.data # None /\ query.data.frozen # chain.frozen =>
        \E i \in 1..Len(txs) : txs[i].order.ix = "freeze" /\ Status(i) = "ok"

\* A confirmed policy change ends on the vault's page or fails: the editor is
\* never left submitting, whatever is refetched or opened meanwhile.
PolicySettles ==
    \A i \in 1..MaxFlows :
        (i <= Len(flows) /\ flows[i].at \in {"waiting", "refetch", "fetched"})
            ~> (i <= Len(flows) /\ flows[i].at \in Settled)

\* What the page shows was true on chain, and what it sends is what it shows.
ShownAndSent == FrozenHasCause /\ WhitelistAsSelected

=============================================================================
