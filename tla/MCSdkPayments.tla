---------------------------- MODULE MCSdkPayments ---------------------------
(* Instances of SdkPayments for TLC.                                       *)
EXTENDS SdkPayments, TLC

\* Processes that hold the agent's key are interchangeable.
CallerSymmetry == Permutations(Callers)

Args(per_tx, hourly, lifetime, whitelist) ==
    [per_tx |-> per_tx, hourly |-> hourly, lifetime |-> lifetime,
     post_pay |-> FALSE, whitelist |-> whitelist]

\* Every limit is in reach of one or two payments: the window of the first, the
\* lifetime of the second.
TightPolicies ==
    {Args(2, 3, 4, {DefaultKey}), Args(0, 0, 2, Services \cup {DefaultKey})}

=============================================================================
