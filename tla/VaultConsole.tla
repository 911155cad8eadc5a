---------------------------- MODULE VaultConsole ----------------------------
(***************************************************************************)
(* The vault of CreditVault as its owner sees it: what the figures of      *)
(* VaultViews say of what the program will do.                             *)
(***************************************************************************)
EXTENDS CreditVault, VaultViews

\* What the console shows bounds what the program lets the agent spend: the
\* remaining budget is exactly what the lifetime check admits, no payment within
\* the limits exceeds the previewed hourly headroom or ceiling, an exhausted
\* budget is never shown as healthy, and a vault called empty, on either list,
\* holds at most tokens that came past deposit.
ShownBudgetBinds ==
    LET preview == PreviewPanel(vault, policy) IN
    /\ \A a \in Amounts \ {0} :
         /\ policy.lifetime_limit > 0 =>
              (Within(vault.total_spent + a, policy.lifetime_limit)
                 <=> a <= VaultKpis(vault, policy).remaining)
         /\ WithinLimits(a) /\ policy.hourly_limit > 0 => a <= preview.hourlyHeadroom
         /\ WithinLimits(a) /\ policy.lifetime_limit > 0 =>
              a <= preview.afterCeiling \/ a > vaultBalance(vault)
    /\ policy.lifetime_limit > 0 /\ vault.total_spent >= policy.lifetime_limit =>
         StatusBadge(vault, policy) \in {"frozen", "danger"}
    /\ "empty" \in {StatusBadge(vault, policy), LinkedVaults(vault)} =>
         tokens[Vault] <= offBook

=============================================================================
