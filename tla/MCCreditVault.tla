--------------------------- MODULE MCCreditVault ---------------------------
(* Instances of CreditVault for TLC, with the console's view of the vault. *)
EXTENDS VaultConsole

CONSTANTS
    MaxRequests,    \* bound on pending_count
    MaxWithdrawn    \* bound on total_withdrawn and on off-book tokens

\* States the runs explore from: the counters the run is not about stay small.
Bounded ==
    /\ vault.pending_count <= MaxRequests
    /\ vault.total_withdrawn <= MaxWithdrawn
    /\ offBook <= MaxWithdrawn

Policy(per_tx, hourly, lifetime, post_pay, whitelist) ==
    [per_tx |-> per_tx, hourly |-> hourly, lifetime |-> lifetime,
     post_pay |-> post_pay, whitelist |-> whitelist]

\* One policy without limits and post-pay on, one with every limit tight and
\* a whitelist that leaves a padding entry.
LedgerPolicies ==
    {Policy(0, 0, 0, TRUE, {DefaultKey})} \cup
    {Policy(1, 2, 2, FALSE, {s, DefaultKey}) : s \in Services}

\* An hourly limit alone, and no limit at all.
WindowPolicies ==
    {Policy(0, 2, 0, FALSE, {DefaultKey}), Policy(0, 0, 0, FALSE, {DefaultKey})}

============================================================================
