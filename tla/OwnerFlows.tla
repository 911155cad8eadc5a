----------------------------- MODULE OwnerFlows -----------------------------
(***************************************************************************)
(* The owner transactions of the web console (lib/owner-actions.ts).  A    *)
(* handler is a flow of its own: it reads what it needs, asks the wallet   *)
(* to sign, sends, and awaits the outcome; it goes on when the component   *)
(* that started it is gone.                                                *)
(***************************************************************************)
EXTENDS OwnerScripts

CONSTANTS
    MaxFlows,   \* bound: handlers started
    None        \* no data

ASSUME FlowAssumption == MaxFlows \in Nat

VARIABLE flows  \* the handlers started so far

\* t is the transaction to send, chosen what the form said.
Start(at, t, chosen) ==
    /\ Len(flows) < MaxFlows
    /\ flows' = Append(flows, [at |-> at, tx |-> 0, t |-> t, chosen |-> chosen])

Settled == {"done", "failed"}
Pending(i) == i # 0 /\ flows[i].at \notin Settled

Goes(i, at) == flows' = [flows EXCEPT ![i].at = at]

\* createVault reads the agent's profile and bundles initialize_agent when it
\* is missing; an existing agent named by its key only must have one.
createVaultUnbundled(i) ==
    /\ flows[i].t.ix = "createVault"
    /\ Goes(i, "signing")

createVault(i) ==
    /\ flows[i].t.ix = "createVault"
    /\ IF flows[i].chosen = "pubkey" /\ flows[i].t.key \notin chain.agents
       THEN Goes(i, "failed")
       ELSE flows' = [flows EXCEPT ![i].at = "signing",
                                   ![i].t.init = flows[i].t.key \notin chain.agents]

initializeAgent(i) ==
    /\ flows[i].t.ix = "initAgent"
    /\ Goes(i, IF flows[i].t.key \in chain.agents   \* AgentAlreadyInitializedError
               THEN "failed" ELSE "signing")

\* The editor overrides every field of the policy that is read here.
updatePolicy(i) == flows[i].t.ix = "policy" /\ Goes(i, "signing")

ReadFirst(i) ==
    /\ flows[i].at = "reading"
    /\ createVault(i) \/ initializeAgent(i) \/ updatePolicy(i)
    /\ UNCHANGED chainVars

\* The wallet signs and the transaction is sent, or the user declines.
sendWithSigners(i) ==
    /\ flows[i].at = "signing"
    /\ \/ /\ Send("web", flows[i].t)
          /\ flows' = [flows EXCEPT ![i].at = "waiting", ![i].tx = Len(txs) + 1]
       \/ Goes(i, "failed") /\ UNCHANGED txs
    /\ UNCHANGED chain

\* confirmTransaction resolves for a reverted transaction too; only value.err
\* tells them apart.  It rejects when the blockhash expires or the connection
\* fails, and then the transaction may still be flying.
ResolvedAtAll(i) == Status(flows[i].tx) \in {"ok", "err"}
Succeeded(i) == Status(flows[i].tx) = "ok"

ThrowIfRejected(i) ==
    /\ flows[i].at = "waiting" /\ Status(flows[i].tx) \in {"flying", "expired"}
    /\ Goes(i, "failed")
    /\ UNCHANGED chainVars

Throw(i) ==
    /\ flows[i].at = "waiting" /\ ~Succeeded(i)
    /\ Goes(i, "failed")
    /\ UNCHANGED chainVars

=============================================================================
