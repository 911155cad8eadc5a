----------------------------- MODULE OwnerChain -----------------------------
(***************************************************************************)
(* What the owner's tools share: the accounts they create, the owner's     *)
(* vault as its owner changes it, and the transactions on their way to the *)
(* cluster.  A transaction is executed at most once, or expires; whoever   *)
(* sent it learns the outcome later, or never.  Key 0 is the wallet as its *)
(* own agent, or the service key file; the others are generated keys.      *)
(***************************************************************************)
EXTENDS Naturals, Sequences, FiniteSets

CONSTANTS
    MaxTx,         \* bound: transactions ever sent
    MaxKeys,       \* bound: key pairs generated in the console
    Caps,          \* values of a spend cap (one cap stands for the three)
    Services,      \* services a whitelist can name
    WhitelistLen   \* entries of the on-chain whitelist (8 in the program)

ASSUME OwnerAssumption ==
    /\ MaxTx \in Nat /\ MaxKeys \in Nat
    /\ Caps \subseteq Nat /\ Caps # {}
    /\ WhitelistLen \in Nat \ {0}

VARIABLES
    chain,     \* accounts and vault
    txs        \* the transactions sent so far, in order
chainVars == <<chain, txs>>

Whitelists == {w \in SUBSET Services : Cardinality(w) <= WhitelistLen}

\* Units of test-USDC: the first mint is larger than the bootstrap deposit, and
\* a payment can take a part of that deposit.
InitialMint == 4
DepositTarget == 2
DefaultCap == CHOOSE c \in Caps : \A d \in Caps : c <= d

\* vault_out is what the vault account counts as spent and as withdrawn, together.
\* Whichever part n of the set-up is already there: service SOL, mint, first
\* test-USDC, service, agent profile, vault.
ChainInit(n) ==
    /\ chain = [serviceSol |-> n >= 1,
                mints |-> IF n >= 2 THEN {1} ELSE {},
                ownerAta |-> n >= 3,
                owner_usdc |-> IF n >= 3 THEN InitialMint ELSE 0,
                supply |-> IF n >= 3 THEN InitialMint ELSE 0,
                services |-> IF n >= 4 THEN {0} ELSE {},
                agents |-> IF n >= 5 THEN {0} ELSE {},
                vaults |-> IF n >= 6 THEN {0} ELSE {},
                vault_usdc |-> 0, vault_out |-> 0, frozen |-> FALSE, cap |-> DefaultCap,
                whitelist |-> {}, active |-> TRUE]
    /\ txs = <<>>

HasVault == 0 \in chain.vaults

-----------------------------------------------------------------------------
(* The programs, as far as the owner's transactions reach them. *)

Accepts(c, t) ==
    CASE t.ix = "fund"       -> TRUE
      [] t.ix = "createMint" -> t.key \notin c.mints
      [] t.ix = "mintTo"     -> c.mints # {}
      [] t.ix = "initAgent"  -> t.key \notin c.agents
      [] t.ix = "createVault" -> /\ c.mints # {} /\ t.key \notin c.vaults
                                 /\ t.init => t.key \notin c.agents
      [] t.ix = "deposit"    -> 0 \in c.vaults /\ c.owner_usdc >= t.amount
      [] t.ix = "freeze"     -> 0 \in c.vaults /\ c.frozen # t.frozen
      [] t.ix = "policy"     -> 0 \in c.vaults
      [] t.ix = "register"   -> t.key \notin c.services
      [] t.ix = "setActive"  -> t.key \in c.services

Executed(c, t) ==
    CASE t.ix = "fund"       -> [c EXCEPT !.serviceSol = TRUE]
      [] t.ix = "createMint" -> [c EXCEPT !.mints = @ \cup {t.key}]
      [] t.ix = "mintTo"     -> [c EXCEPT !.ownerAta = TRUE,
                                          !.owner_usdc = @ + t.amount,
                                          !.supply = @ + t.amount]
      [] t.ix = "initAgent"  -> [c EXCEPT !.agents = @ \cup {t.key}]
      [] t.ix = "createVault" -> [c EXCEPT !.vaults = @ \cup {t.key},
                                           !.agents = IF t.init THEN @ \cup {t.key}
                                                      ELSE @]
      [] t.ix = "deposit"    -> [c EXCEPT !.owner_usdc = @ - t.amount,
                                          !.vault_usdc = @ + t.amount]
      [] t.ix = "freeze"     -> [c EXCEPT !.frozen = t.frozen]
      [] t.ix = "policy"     -> [c EXCEPT !.cap = t.cap, !.whitelist = t.whitelist]
      [] t.ix = "register"   -> [c EXCEPT !.services = @ \cup {t.key}]
      [] t.ix = "setActive"  -> [c EXCEPT !.active = IF t.key = 0 THEN t.active ELSE @]

-----------------------------------------------------------------------------
(* What lowers the vault's balance meanwhile: neither the console nor these *)
(* scripts send it.                                                         *)

\* The agent is paid out of the vault, by spend, claim or an approved request; the
\* caps do not bind the last, so any amount up to the balance can leave.
AgentSpends(n) ==
    /\ ~chain.frozen /\ n \in 1..chain.vault_usdc
    /\ chain' = [chain EXCEPT !.vault_usdc = @ - n, !.vault_out = @ + n]
    /\ UNCHANGED txs

\* The owner takes tokens back, frozen or not.
Withdraw(n) ==
    /\ n \in 1..chain.vault_usdc
    /\ chain' = [chain EXCEPT !.vault_usdc = @ - n, !.vault_out = @ + n,
                              !.owner_usdc = @ + n]
    /\ UNCHANGED txs

-----------------------------------------------------------------------------
(* The life of a transaction. *)

\* Sent with a recent blockhash; the order is t, its outcome is open.
Send(by, t) ==
    /\ Len(txs) < MaxTx
    /\ txs' = Append(txs, [status |-> "flying", by |-> by, order |-> t])

Status(i) == txs[i].status

Land(i) ==
    /\ Status(i) = "flying"
    /\ IF Accepts(chain, txs[i].order)
       THEN /\ chain' = Executed(chain, txs[i].order)
            /\ txs' = [txs EXCEPT ![i].status = "ok"]
       ELSE /\ txs' = [txs EXCEPT ![i].status = "err"]
            /\ UNCHANGED chain

\* The blockhash expired before a leader took the transaction.
Expire(i) ==
    /\ Status(i) = "flying"
    /\ txs' = [txs EXCEPT ![i].status = "expired"]
    /\ UNCHANGED chain

Network == \E i \in 1..Len(txs) : Land(i) \/ Expire(i)

=============================================================================
