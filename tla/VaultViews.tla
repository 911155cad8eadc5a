----------------------------- MODULE VaultViews -----------------------------
(***************************************************************************)
(* What the web console derives from a vault and its policy: the balance   *)
(* (types/api.ts), the figures and the budget gauge of the vault's page    *)
(* (screens/VaultDetail.tsx), the badges of the lists (screens/Vaults.tsx, *)
(* screens/AgentDetail.tsx) and the preview beside the policy editor       *)
(* (screens/VaultPolicy.tsx).  v is a vault, p a policy of CreditVault.    *)
(***************************************************************************)
EXTENDS Integers

AtLeastZero(n) == IF n > 0 THEN n ELSE 0

vaultBalance(v) ==
    v.total_deposited - v.total_withdrawn - v.total_spent + v.total_claimed

\* Mutant: claims are not counted against the ceiling.
VaultKpisNetOfClaims(v, p) ==
    [balance |-> vaultBalance(v),
     remaining |-> AtLeastZero(p.lifetime_limit - v.total_spent + v.total_claimed)]

VaultKpis(v, p) ==
    [balance |-> vaultBalance(v),
     remaining |-> AtLeastZero(p.lifetime_limit - v.total_spent)]

\* Spent percentage of the ceiling, rounded half up; 0 without one.
VaultRow(v, p) ==
    IF p.lifetime_limit = 0 THEN 0
    ELSE (200 * v.total_spent + p.lifetime_limit) \div (2 * p.lifetime_limit)

BudgetEnvelope(v, p) ==
    CASE VaultRow(v, p) >= 90 -> "danger"
      [] VaultRow(v, p) \in 70..89 -> "warn"
      [] OTHER -> "mint"

StatusBadge(v, p) ==
    CASE v.frozen -> "frozen"
      [] ~v.frozen /\ BudgetEnvelope(v, p) # "mint" -> BudgetEnvelope(v, p)
      [] OTHER -> IF vaultBalance(v) > 0 THEN "active" ELSE "empty"

LinkedVaults(v) ==
    CASE v.frozen -> "frozen"
      [] OTHER -> IF vaultBalance(v) > 0 THEN "active" ELSE "empty"

\* The editor's values are p; the spending of the current hour is not known to
\* the page and taken as 0.
PreviewPanel(v, p) ==
    LET lifetimeRemaining == AtLeastZero(p.lifetime_limit - v.total_spent)
    IN  [hourlyHeadroom |-> p.hourly_limit,
         afterCeiling |-> IF vaultBalance(v) > lifetimeRemaining THEN lifetimeRemaining
                          ELSE vaultBalance(v)]

=============================================================================
