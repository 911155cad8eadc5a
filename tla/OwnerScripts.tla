---------------------------- MODULE OwnerScripts ----------------------------
(***************************************************************************)
(* The scripts of clients/sdk/scripts that write as the owner: the devnet  *)
(* bootstrap, topup and update-policy.  One runs at a time, step by step;  *)
(* every step awaits a read, then sends, then awaits the outcome, and the  *)
(* process can be killed between any two of them and started again.  What  *)
(* survives is on disk: the key files and the manifest.                    *)
(***************************************************************************)
EXTENDS OwnerChain

CONSTANT MaxRuns   \* bound: script runs started

VARIABLES
    script,     \* the running script
    disk,       \* key files and manifest
    runs,       \* runs started
    abandoned   \* history: the transactions still flying when their run ended
scriptVars == <<script, disk, runs, abandoned>>

NotRunning == [prog |-> "none", step |-> "none", at |-> "none", tx |-> 0,
               cap |-> 0, whitelist |-> {}, amount |-> 0, mint |-> 0]

ScriptInit(n) ==
    /\ script = NotRunning
    /\ disk = [mint |-> IF n >= 2 THEN 1 ELSE 0, keys |-> IF n >= 2 THEN 1 ELSE 0,
               manifest |-> n = 6]
    /\ runs = 0
    /\ abandoned = {}

Goto(step, at) == [script EXCEPT !.step = step, !.at = at, !.tx = 0]

At(step, at) == script.step = step /\ script.at = at

Ends == /\ script' = NotRunning
        /\ abandoned' = IF script.tx # 0 /\ Status(script.tx) = "flying"
                        THEN abandoned \cup {script.tx} ELSE abandoned

-----------------------------------------------------------------------------
(* devnet-bootstrap *)

\* A key is written before it is used; disk.keys counts the keys generated.
LoadOrCreateInMemory ==
    IF disk.mint = 0 THEN [disk EXCEPT !.keys = @ + 1] ELSE disk

loadOrCreateKeypair ==
    IF disk.mint = 0 THEN [disk EXCEPT !.keys = @ + 1, !.mint = disk.keys + 1]
    ELSE disk

StartBootstrap ==
    /\ script.prog = "none" /\ runs < MaxRuns
    /\ disk' = loadOrCreateKeypair
    /\ script' = [NotRunning EXCEPT !.prog = "bootstrap", !.step = "ownerSol",
                                    !.at = "check", !.mint = disk'.keys]
    /\ runs' = runs + 1
    /\ UNCHANGED <<chainVars, abandoned>>

\* Enough SOL, or exit(1).
assertOwnerSol ==
    /\ At("ownerSol", "check")
    /\ \/ script' = Goto("fund", "check") /\ UNCHANGED abandoned
       \/ Ends
    /\ UNCHANGED <<chainVars, disk, runs>>

\* One step of the script: look whether its effect is already there.
Ensure(step, present, next) ==
    /\ At(step, "check")
    /\ script' = IF present THEN Goto(next, "check") ELSE Goto(step, "send")
    /\ UNCHANGED <<chainVars, disk, runs, abandoned>>

Submit(step, t) ==
    /\ At(step, "send")
    /\ Send("script", t)
    /\ script' = [script EXCEPT !.at = "wait", !.tx = Len(txs) + 1]
    /\ UNCHANGED <<chain, disk, runs, abandoned>>

Confirmed(step, next) ==
    /\ At(step, "wait") /\ Status(script.tx) = "ok"
    /\ script' = Goto(next, "check")
    /\ UNCHANGED <<chainVars, disk, runs, abandoned>>

fundService ==
    \/ Ensure("fund", chain.serviceSol, "mint")
    \/ Submit("fund", [ix |-> "fund"])
    \/ Confirmed("fund", "mint")

ensureMint ==
    \/ Ensure("mint", script.mint \in chain.mints, "mintTo")
    \/ Submit("mint", [ix |-> "createMint", key |-> script.mint])
    \/ Confirmed("mint", "mintTo")

MintInitialOffByOne ==
    \/ Ensure("mintTo", chain.ownerAta /\ chain.supply > InitialMint, "service")
    \/ Submit("mintTo", [ix |-> "mintTo", amount |-> InitialMint,
                         prog |-> script.prog])
    \/ Confirmed("mintTo", "service")

mintInitialUsdc ==
    \/ Ensure("mintTo", chain.ownerAta /\ chain.supply >= InitialMint, "service")
    \/ Submit("mintTo", [ix |-> "mintTo", amount |-> InitialMint,
                         prog |-> script.prog])
    \/ Confirmed("mintTo", "service")

\* registerService is called without its uri argument and sponsor account:
\* when the registry is missing the call throws and the run ends.
ensureService ==
    /\ At("service", "check")
    /\ \/ 0 \in chain.services /\ script' = Goto("agent", "check") /\ UNCHANGED abandoned
       \/ 0 \notin chain.services /\ Ends
    /\ UNCHANGED <<chainVars, disk, runs>>

ensureAgent ==
    \/ Ensure("agent", 0 \in chain.agents, "vault")
    \/ Submit("agent", [ix |-> "initAgent", key |-> 0])
    \/ Confirmed("agent", "vault")

ensureVault ==
    \/ Ensure("vault", HasVault, "deposit")
    \/ Submit("vault", [ix |-> "createVault", key |-> 0, init |-> FALSE])
    \/ Confirmed("vault", "deposit")

EnsureDepositUnchecked ==
    \/ Ensure("deposit", FALSE, "verify")
    \/ Submit("deposit", [ix |-> "deposit", amount |-> DepositTarget,
                          prog |-> script.prog])
    \/ Confirmed("deposit", "verify")

ensureDeposit ==
    \/ Ensure("deposit", chain.vault_usdc >= DepositTarget, "verify")
    \/ Submit("deposit", [ix |-> "deposit", amount |-> DepositTarget,
                          prog |-> script.prog])
    \/ Confirmed("deposit", "verify")

\* The reads of the SDK succeed on accounts that exist; then the manifest.
verifyEverything ==
    /\ At("verify", "check")
    /\ disk' = [disk EXCEPT !.manifest = TRUE]
    /\ Ends
    /\ UNCHANGED <<chainVars, runs>>

Bootstrap ==
    \/ StartBootstrap \/ assertOwnerSol \/ fundService \/ ensureMint
    \/ mintInitialUsdc \/ ensureService \/ ensureAgent \/ ensureVault
    \/ ensureDeposit \/ verifyEverything

-----------------------------------------------------------------------------
(* topup and update-policy read the manifest of the bootstrap. *)

StartTopup ==
    /\ script.prog = "none" /\ runs < MaxRuns /\ disk.manifest
    /\ script' = [NotRunning EXCEPT !.prog = "topup", !.step = "short",
                                    !.at = "check", !.amount = 1]
    /\ runs' = runs + 1
    /\ UNCHANGED <<chainVars, disk, abandoned>>

\* The owner's balance as read decides how much is minted first.
MintShortfall ==
    \/ Ensure("short", chain.owner_usdc >= script.amount, "topup")
    \/ Submit("short", [ix |-> "mintTo", amount |-> script.amount,
                        prog |-> script.prog])
    \/ Confirmed("short", "topup")

Topup ==
    \/ StartTopup \/ MintShortfall
    \/ Ensure("topup", FALSE, "topup")
    \/ Submit("topup", [ix |-> "deposit", amount |-> script.amount,
                        prog |-> script.prog])
    \/ /\ At("topup", "wait") /\ Status(script.tx) = "ok"
       /\ Ends
       /\ UNCHANGED <<chainVars, disk, runs>>

StartUpdatePolicy(cap) ==
    /\ script.prog = "none" /\ runs < MaxRuns /\ disk.manifest
    /\ script' = [NotRunning EXCEPT !.prog = "policy", !.step = "policy",
                                    !.at = "check", !.cap = cap]
    /\ runs' = runs + 1
    /\ UNCHANGED <<chainVars, disk, abandoned>>

\* The policy account is read once; the whitelist in it is sent back.
ReadPolicy ==
    /\ At("policy", "check")
    /\ IF chain.cap = script.cap
       THEN Ends
       ELSE /\ script' = [script EXCEPT !.at = "send", !.whitelist = chain.whitelist]
            /\ UNCHANGED abandoned
    /\ UNCHANGED <<chainVars, disk, runs>>

UpdatePolicy ==
    \/ \E cap \in Caps : StartUpdatePolicy(cap)
    \/ ReadPolicy
    \/ Submit("policy", [ix |-> "policy", cap |-> script.cap,
                         whitelist |-> script.whitelist])
    \/ /\ At("policy", "wait") /\ Status(script.tx) = "ok"
       /\ Ends
       /\ UNCHANGED <<chainVars, disk, runs>>

-----------------------------------------------------------------------------
(* A transaction the node refuses, that reverts or expires throws out of   *)
(* the script; so does the operator's interrupt, whatever is in flight.    *)

FailedOnRevert ==
    /\ \/ script.at = "send"
       \/ script.at = "wait" /\ Status(script.tx) = "err"
    /\ Ends
    /\ UNCHANGED <<chainVars, disk, runs>>

Failed ==
    /\ \/ script.at = "send"
       \/ script.at = "wait" /\ Status(script.tx) \in {"err", "expired"}
    /\ Ends
    /\ UNCHANGED <<chainVars, disk, runs>>

Killed ==
    /\ script.prog # "none"
    /\ Ends
    /\ UNCHANGED <<chainVars, disk, runs>>

=============================================================================
