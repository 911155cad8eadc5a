---------------------------- MODULE OwnerConsole ----------------------------
(***************************************************************************)
(* The console's modals that create accounts and move funds (create vault, *)
(* initialize agent, register service, pause or resume a service, deposit, *)
(* mint test-USDC), beside the devnet scripts run by the same owner.       *)
(***************************************************************************)
EXTENDS OwnerFlows

CONSTANTS
    SetUp,      \* how far the accounts are set up in the initial states
    MaxStarts   \* bound: script runs and handlers together

ASSUME ConsoleAssumption == SetUp \subseteq 0..6 /\ MaxStarts \in Nat

VARIABLES
    modal,      \* the open modal
    keys        \* [made, saved]: key pairs generated, and downloaded
webVars == <<flows, modal, keys>>
vars == <<chainVars, scriptVars, webVars>>

NoModal == [kind |-> "none", mode |-> "none", key |-> 0, ready |-> FALSE, flow |-> 0,
            airdrop |-> 0]

Init ==
    /\ \E n \in SetUp : ChainInit(n) /\ ScriptInit(n)
    /\ flows = <<>>
    /\ modal = NoModal
    /\ keys = [made |-> 0, saved |-> {}]

-----------------------------------------------------------------------------
(* AgentModeSelector and ServiceKeypairSelector make one key pair when they *)
(* mount and keep it while the user switches modes.                         *)

Selectors == {"createVault", "initAgent", "register"}

OpenSelector(kind) ==
    /\ modal.kind = "none" /\ keys.made < MaxKeys
    /\ keys' = [keys EXCEPT !.made = @ + 1]
    /\ modal' = [NoModal EXCEPT !.kind = kind, !.mode = "generate", !.key = keys.made + 1]
    /\ UNCHANGED <<chainVars, scriptVars, flows>>

\* The modals of an agent, a service or the wallet's vault that is listed.
OpenFor(kind, key) ==
    /\ modal.kind = "none"
    /\ \/ kind = "vaultForAgent" /\ key \in chain.agents
       \/ kind = "setActive" /\ key \in chain.services
       \/ kind = "deposit" /\ key = 0 /\ HasVault
    /\ modal' = [NoModal EXCEPT !.kind = kind, !.mode = "pubkey", !.key = key,
                                !.ready = kind # "setActive"]
    /\ UNCHANGED <<chainVars, scriptVars, flows, keys>>

\* The other mode is the wallet for an agent, a pasted secret for a service;
\* both stand for key 0, and leave what was downloaded as it was.
SwitchMode ==
    /\ modal.kind \in Selectors
    /\ modal' = [modal EXCEPT !.mode = IF @ = "generate" THEN "other" ELSE "generate"]
    /\ UNCHANGED <<chainVars, scriptVars, flows, keys>>

onDownload ==
    /\ modal.mode = "generate" /\ ~modal.ready
    /\ keys' = [keys EXCEPT !.saved = @ \cup {modal.key}]
    /\ modal' = [modal EXCEPT !.ready = TRUE]
    /\ UNCHANGED <<chainVars, scriptVars, flows>>

\* The key file must be that of the service shown.
onFile ==
    /\ modal.kind = "setActive"
    /\ \E k \in keys.saved \cup {0} : modal' = [modal EXCEPT !.ready = k = modal.key]
    /\ UNCHANGED <<chainVars, scriptVars, flows, keys>>

\* submitDisabled, of each modal.
EnabledAnyway == ~Pending(modal.flow)

SubmitEnabled ==
    /\ ~Pending(modal.flow)
    /\ modal.mode # "other" => modal.ready

Key == IF modal.mode = "other" THEN 0 ELSE modal.key

\* A modal whose handler is done shows the receipt, one whose handler failed
\* the error and its form again.
onSubmit(at, t) ==
    /\ SubmitEnabled /\ runs + Len(flows) < MaxStarts
    /\ modal.flow # 0 => flows[modal.flow].at = "failed"
    /\ Start(at, t, modal.mode)
    /\ modal' = [modal EXCEPT !.flow = Len(flows) + 1]
    /\ UNCHANGED <<chainVars, scriptVars, keys>>

CreateVaultModal ==
    /\ modal.kind = "createVault"
    /\ onSubmit("reading", [ix |-> "createVault", key |-> Key, init |-> FALSE])

CreateVaultForAgentModal ==
    /\ modal.kind = "vaultForAgent"
    /\ onSubmit("reading", [ix |-> "createVault", key |-> Key, init |-> FALSE])

InitializeAgentModal ==
    /\ modal.kind = "initAgent"
    /\ onSubmit("reading", [ix |-> "initAgent", key |-> Key])

RegisterServiceModal ==
    /\ modal.kind = "register"
    /\ onSubmit("signing", [ix |-> "register", key |-> Key])

SetServiceActiveModal ==
    /\ modal.kind = "setActive"
    /\ onSubmit("signing", [ix |-> "setActive", key |-> Key, active |-> ~chain.active])

DepositModal ==
    /\ modal.kind = "deposit"
    /\ onSubmit("signing", [ix |-> "deposit", amount |-> 1, prog |-> "web"])

\* The mint authority's "mint 50" button on the deposit form, with a flag of its
\* own: it may run beside the deposit.
onAirdrop ==
    /\ modal.kind = "deposit" /\ ~Pending(modal.airdrop)
    /\ modal.flow # 0 => flows[modal.flow].at # "done"
    /\ runs + Len(flows) < MaxStarts
    /\ Start("signing", [ix |-> "mintTo", amount |-> 1, prog |-> "web"], modal.mode)
    /\ modal' = [modal EXCEPT !.airdrop = Len(flows) + 1]
    /\ UNCHANGED <<chainVars, scriptVars, keys>>

\* The cross, the backdrop and Done close it in any state.
onClose ==
    /\ modal.kind # "none"
    /\ modal' = NoModal
    /\ UNCHANGED <<chainVars, scriptVars, flows, keys>>

-----------------------------------------------------------------------------
FlowStep(i) ==
    /\ \/ ReadFirst(i)
       \/ sendWithSigners(i)
       \/ flows[i].at = "waiting" /\ Succeeded(i) /\ Goes(i, "done") /\ UNCHANGED chainVars
       \/ Throw(i)
    /\ UNCHANGED <<scriptVars, modal, keys>>

NetworkStep == Network /\ UNCHANGED <<scriptVars, webVars>>
TokensLeave ==
    /\ \E n \in 1..chain.vault_usdc : AgentSpends(n) \/ Withdraw(n)
    /\ UNCHANGED <<scriptVars, webVars>>

ScriptRuns ==
    /\ Bootstrap \/ Topup \/ Failed
    /\ runs' # runs => runs + Len(flows) < MaxStarts
    /\ UNCHANGED webVars

Next ==
    \/ NetworkStep
    \/ TokensLeave
    \/ ScriptRuns
    \/ Killed /\ UNCHANGED webVars
    \/ \E i \in 1..Len(flows) : FlowStep(i)
    \/ \E kind \in Selectors : OpenSelector(kind)
    \/ \E kind \in {"vaultForAgent", "setActive", "deposit"}, k \in 0..MaxKeys :
          OpenFor(kind, k)
    \/ SwitchMode \/ onDownload \/ onFile \/ onClose
    \/ CreateVaultModal \/ CreateVaultForAgentModal \/ InitializeAgentModal
    \/ RegisterServiceModal \/ SetServiceActiveModal \/ DepositModal \/ onAirdrop

\* The cluster settles every transaction, and a running script or handler
\* goes on.  Nobody has to start one, or to take tokens out of the vault.
Fairness ==
    /\ WF_vars(NetworkStep)
    /\ WF_vars(ScriptRuns /\ script.prog # "none")
    /\ \A i \in 1..MaxFlows : WF_vars(i <= Len(flows) /\ FlowStep(i))

Spec == Init /\ [][Next]_vars /\ Fairness

-----------------------------------------------------------------------------
(* Properties. *)

\* Everything has its type: the accounts, the outcomes and the references.
TypeOK ==
    /\ chain.vaults \cup chain.agents \cup chain.services \subseteq 0..MaxKeys
    /\ \A i \in 1..Len(txs) : Status(i) \in {"flying", "ok", "err", "expired"}
    /\ script.tx \in 0..Len(txs)
    /\ \A i \in 1..Len(flows) :
         /\ flows[i].at \in {"reading", "signing", "waiting"} \cup Settled
         /\ flows[i].tx \in 0..Len(txs)
    /\ {modal.flow, modal.airdrop} \subseteq 0..Len(flows)
    /\ keys.saved \subseteq 1..keys.made

\* sendWithSigners: "the UI never claims Done for a tx that didn't actually do
\* the thing".  A handler past its confirmation has a transaction that executed.
DoneMeansLanded ==
    \A i \in 1..Len(flows) : flows[i].at = "done" => Status(flows[i].tx) = "ok"

\* A key pair generated in the browser that owns anything on chain is one the
\* user has downloaded, whatever was closed, reopened, switched or retried.
KeysSaved ==
    (chain.agents \cup chain.vaults \cup chain.services) \ {0} \subseteq keys.saved

\* No vault without its agent's reputation profile, however the console's
\* create-vault, initialize-agent and the bootstrap interleave.
VaultHasAgent == chain.vaults \subseteq chain.agents

\* Reruns of the bootstrap find the mint of the first: the key file is written
\* before the mint is created.
OneMint == Cardinality(chain.mints) <= 1

\* Executed orders of the bootstrap, but for those that were on their way when
\* the run that sent them was over: nobody waited for them.
Awaited(ix) ==
    {i \in 1..Len(txs) : /\ txs[i].order.ix = ix /\ Status(i) = "ok"
                         /\ txs[i].order.prog = "bootstrap" /\ i \notin abandoned}

\* ensureDeposit brings a whole target whenever the balance is below the target,
\* on every run.  What runs of it deposited exceeds what left the vault by less
\* than two targets: a run adds a target only when less than one is left of what
\* the earlier ones brought, however payments, withdrawals, the console's and
\* topup's deposits and abandoned deposits come in between.
BootstrapRefills ==
    DepositTarget * Cardinality(Awaited("deposit")) < chain.vault_out + 2 * DepositTarget

\* mintInitialUsdc mints the initial amount once, unless the run that sent it
\* ended before it knew.
InitialMintOnce == \A i, j \in Awaited("mintTo") : i = j

\* Every handler whose transaction was sent settles, so its button comes back.
FlowsSettle ==
    \A i \in 1..MaxFlows :
        (i <= Len(flows) /\ flows[i].at = "waiting")
            ~> (i <= Len(flows) /\ flows[i].at \in Settled)

\* Every script run ends, by success, failure or the operator.
ScriptsEnd == (script.prog # "none") ~> (script.prog = "none")

\* The console and the chain agree: what is reported done was executed, and a
\* vault made by any route has its agent.
ChainAsReported == DoneMeansLanded /\ VaultHasAgent

\* The bootstrap can be run again after it was killed or failed anywhere: one
\* mint, one initial supply, and no deposit that the vault did not need.
RerunsRepeatNothing == OneMint /\ InitialMintOnce /\ BootstrapRefills

\* What was sent or started comes to an end.
EverythingSettles == FlowsSettle /\ ScriptsEnd

=============================================================================
