------------------------- MODULE CreditVaultProofs -------------------------
(***************************************************************************)
(* TLAPS proofs about CreditVault, for every value of its constants.       *)
(***************************************************************************)
EXTENDS VaultConsole, DataTheorems, TLAPS

USE ConstantsAssumption DEF ConstantsAssumption

\* The conjunction that is inductive: each part needs the types of the
\* others, and the books also need to know what each transfer moved.
Inv ==
    /\ TypeOK
    /\ Conservation
    /\ RequestsAccounted
    /\ ClaimedWithinSpent

----------------------------------------------------------------------------
(* What the token program does to the balances.                            *)

\* A transfer between two accounts moves the amount, and a transfer from an
\* account to itself moves nothing (token::transfer in every instruction).
LEMMA TransferEffect ==
    ASSUME tokens \in [Keys -> Nat],
           NEW from \in Keys, NEW to \in Keys, NEW amount \in Nat,
           Transfer(from, to, amount)
    PROVE  /\ tokens' \in [Keys -> Nat]
           /\ from # to => /\ tokens'[from] = tokens[from] - amount
                           /\ tokens'[to] = tokens[to] + amount
           /\ from = to => tokens'[from] = tokens[from]
           /\ \A k \in Keys \ {from, to} : tokens'[k] = tokens[k]
<1>1. /\ tokens[from] >= amount
      /\ tokens' = [tokens EXCEPT ![from] = @ - amount, ![to] = @ + amount]
  BY DEF Transfer
<1>2. CASE from # to
  BY <1>1, <1>2
<1>3. CASE from = to
  BY <1>1, <1>3
<1> QED BY <1>2, <1>3

\* What leaves the vault lowers its balance, net of what came straight back.
LEMMA LeaveVaultEffect ==
    ASSUME tokens \in [Keys -> Nat], offBook \in Nat,
           NEW to \in Keys, NEW amount \in Nat,
           LeaveVault(to, amount)
    PROVE  /\ tokens' \in [Keys -> Nat]
           /\ offBook' \in Nat
           /\ tokens'[Vault] - offBook' = tokens[Vault] - offBook - amount
<1>1. Vault \in Keys
  BY DEF Keys
<1>2. /\ Transfer(Vault, to, amount)
      /\ offBook' = IF to = Vault THEN offBook + amount ELSE offBook
  BY DEF LeaveVault
<1>3. tokens' \in [Keys -> Nat]
  BY <1>1, <1>2, TransferEffect
<1>4. CASE to = Vault
  <2>1. tokens'[Vault] = tokens[Vault]
    BY <1>1, <1>2, <1>4, TransferEffect
  <2> QED BY <1>1, <1>2, <1>3, <1>4, <2>1
<1>5. CASE to # Vault
  <2>1. tokens'[Vault] = tokens[Vault] - amount
    BY <1>1, <1>2, <1>5, TransferEffect
  <2> QED BY <1>1, <1>2, <1>3, <1>5, <2>1
<1> QED BY <1>4, <1>5

----------------------------------------------------------------------------
(* The ladder.                                                             *)

\* A recorded ladder payment leaves a well-formed policy: the new window
\* total is within the hourly limit, hence a u64.
LEMMA LadderTypeOK ==
    ASSUME TypeOK, NEW k \in Keys, NEW a \in Amounts,
           check_and_record_spend(k, a)
    PROVE  /\ policy' \in SpendPolicies
           /\ paidAt' \in [Slots -> Nat]
           /\ a \in Nat
           /\ vault.total_spent + a \in U64
<1>1. a \in Nat
  OBVIOUS
<1>2. /\ policy \in SpendPolicies /\ vault \in Vaults
      /\ slot \in Slots /\ paidAt \in [Slots -> Nat]
  BY DEF TypeOK
<1>3. vault.total_spent + a \in U64
  BY <1>1, <1>2 DEF check_and_record_spend, CheckedAdd, Vaults, U64
<1>4. paidAt' \in [Slots -> Nat]
  <2>1. paidAt' = [paidAt EXCEPT ![slot] = @ + a]
    BY DEF check_and_record_spend
  <2> QED BY <1>1, <1>2, <2>1
<1>5. CASE policy.hourly_limit > 0
  <2>1. policy' = [policy EXCEPT !.window_start = WindowStart,
                                 !.window_spent = WindowSpent + a]
    BY <1>5 DEF check_and_record_spend
  <2>2. WindowStart \in Slots
    BY <1>2 DEF WindowStart, SpendPolicies
  <2>3. WindowSpent \in U64
    BY <1>2 DEF WindowSpent, SpendPolicies, U64
  <2>4. WindowSpent + a <= policy.hourly_limit
    BY <1>5 DEF check_and_record_spend, WithinLimits
  <2>5. WindowSpent + a \in U64
    BY <1>1, <1>2, <2>3, <2>4 DEF SpendPolicies, U64
  <2>6. policy' \in SpendPolicies
    BY <1>2, <2>1, <2>2, <2>5 DEF SpendPolicies
  <2> QED BY <1>1, <1>3, <1>4, <2>6
<1>6. CASE ~(policy.hourly_limit > 0)
  <2>1. policy' = policy
    BY <1>6 DEF check_and_record_spend
  <2> QED BY <1>1, <1>2, <1>3, <1>4, <2>1
<1> QED BY <1>5, <1>6

----------------------------------------------------------------------------
(* Type correctness, one step per instruction.                             *)

\* The accounts as create_vault finds them are well formed.
LEMMA InitTypeOK == Init => TypeOK
<1> SUFFICES ASSUME Init PROVE TypeOK
  OBVIOUS
<1> USE DEF Init
<1>1. vault \in Vaults
  BY DEF Vaults, U64, Slots
<1>2. policy \in SpendPolicies
  BY DEF SpendPolicies, U64, Slots, Keys
<1>3. tokens \in [Keys -> Nat]
  BY DEF Keys
<1>4. created \in BOOLEAN /\ slot \in Slots /\ paidAt \in [Slots -> Nat]
  BY DEF NoPayments, Slots
<1> QED BY <1>1, <1>2, <1>3, <1>4 DEF TypeOK

\* Every instruction and every step of the cluster keeps TypeOK: each
\* checked_add guards the counter it writes.
LEMMA NextTypeOK == TypeOK /\ [Next]_vars => TypeOK'
<1> SUFFICES ASSUME TypeOK, [Next]_vars PROVE TypeOK'
  OBVIOUS
<1>0. /\ vault \in Vaults /\ slot \in Slots /\ policy \in SpendPolicies
      /\ tokens \in [Keys -> Nat] /\ offBook \in Nat
      /\ settled \subseteq U64 /\ pending \subseteq PendingSpends
      /\ Owner \in Keys /\ Vault \in Keys /\ KeyHolders \subseteq Keys
  BY DEF TypeOK, Keys, KeyHolders
<1>1. ASSUME NEW a \in Amounts, deposit(a) PROVE TypeOK'
  <2>1. vault' = [vault EXCEPT !.total_deposited = @ + a,
                               !.last_active_slot = slot]
    BY <1>1 DEF deposit
  <2>2. vault.total_deposited + a \in U64
    BY <1>0, <1>1 DEF deposit, CheckedAdd, Vaults, U64
  <2>3. vault' \in Vaults
    BY <1>0, <2>1, <2>2 DEF Vaults
  <2>4. tokens' \in [Keys -> Nat]
    BY <1>0, <1>1, TransferEffect DEF deposit
  <2> QED BY <1>1, <2>3, <2>4 DEF TypeOK, deposit, history
<1>2. ASSUME NEW a \in Amounts, NEW k \in Keys, withdraw(k, a) PROVE TypeOK'
  <2>1. vault' = [vault EXCEPT !.total_withdrawn = @ + a,
                               !.last_active_slot = slot]
    BY <1>2 DEF withdraw
  <2>2. vault.total_withdrawn + a \in U64
    BY <1>0, <1>2 DEF withdraw, CheckedAdd, Vaults, U64
  <2>3. vault' \in Vaults
    BY <1>0, <2>1, <2>2 DEF Vaults
  <2>4. tokens' \in [Keys -> Nat] /\ offBook' \in Nat
    BY <1>0, <1>2, LeaveVaultEffect DEF withdraw
  <2> QED BY <1>2, <2>3, <2>4 DEF TypeOK, withdraw
<1>3. ASSUME NEW p \in pending, approve_spend(p) PROVE TypeOK'
  <2>1. p.amount \in Nat /\ p.service \in Keys /\ p.nonce \in U64
    BY <1>0 DEF PendingSpends, U64
  <2>2. vault' = [vault EXCEPT !.total_spent = @ + p.amount,
                               !.last_active_slot = slot]
    BY <1>3 DEF approve_spend
  <2>3. vault.total_spent + p.amount \in U64
    BY <1>0, <1>3, <2>1 DEF approve_spend, CheckedAdd, Vaults, U64
  <2>4. vault' \in Vaults
    BY <1>0, <2>2, <2>3 DEF Vaults
  <2>5. tokens' \in [Keys -> Nat] /\ offBook' \in Nat
    BY <1>0, <1>3, <2>1, LeaveVaultEffect DEF approve_spend
  <2>6. pending' \subseteq PendingSpends /\ settled' \subseteq U64
    BY <1>0, <1>3, <2>1 DEF approve_spend, Close
  <2> QED BY <1>3, <2>4, <2>5, <2>6 DEF TypeOK, approve_spend
<1>4. ASSUME NEW p \in pending, cancel_spend(p) PROVE TypeOK'
  <2>1. p.nonce \in U64
    BY <1>0 DEF PendingSpends
  <2>2. pending' \subseteq PendingSpends /\ settled' \subseteq U64
    BY <1>0, <1>4, <2>1 DEF cancel_spend, Close
  <2> QED BY <1>4, <2>2 DEF TypeOK, cancel_spend
<1>5. ASSUME freeze_vault \/ unfreeze_vault PROVE TypeOK'
  <2>1. vault' \in Vaults
    BY <1>0, <1>5 DEF freeze_vault, unfreeze_vault, Vaults
  <2> QED BY <1>5, <2>1 DEF TypeOK, freeze_vault, unfreeze_vault, history
<1>6. ASSUME NEW args \in Policies, create_vault(args) PROVE TypeOK'
  <2>1. vault' \in Vaults
    BY <1>0, <1>6 DEF create_vault, Vaults
  <2>2. policy' \in SpendPolicies
    BY <1>0, <1>6, PoliciesAssumption
    DEF create_vault, SpendPolicies, PolicyArgs, PoliciesAssumption
  <2> QED BY <1>6, <2>1, <2>2 DEF TypeOK, create_vault, history
<1>7. ASSUME NEW args \in Policies, update_policy(args) PROVE TypeOK'
  <2>1. policy' \in SpendPolicies
    BY <1>0, <1>7, PoliciesAssumption
    DEF update_policy, SpendPolicies, PolicyArgs, Whitelists, PoliciesAssumption
  <2>2. paidAt' \in [Slots -> Nat]
    BY <1>7 DEF update_policy, NoPayments
  <2> QED BY <1>7, <2>1, <2>2 DEF TypeOK, update_policy
<1>8. ASSUME NEW a \in Amounts, NEW k \in Keys, spend(k, a) PROVE TypeOK'
  <2>1. check_and_record_spend(k, a)
    BY <1>8 DEF spend
  <2>2. /\ policy' \in SpendPolicies /\ paidAt' \in [Slots -> Nat]
        /\ a \in Nat /\ vault.total_spent + a \in U64
    BY <2>1, LadderTypeOK
  <2>3. vault' = [vault EXCEPT !.total_spent = @ + a,
                               !.last_active_slot = slot]
    BY <1>8 DEF spend
  <2>4. vault' \in Vaults
    BY <1>0, <2>2, <2>3 DEF Vaults
  <2>5. tokens' \in [Keys -> Nat] /\ offBook' \in Nat
    BY <1>0, <1>8, <2>2, LeaveVaultEffect DEF spend
  <2> QED BY <1>8, <2>2, <2>4, <2>5 DEF TypeOK, spend
<1>9. ASSUME NEW a \in Amounts, NEW k \in KeyHolders, claim(k, a)
      PROVE  TypeOK'
  <2>0. k \in Keys
    BY <1>0
  <2>1. check_and_record_spend(k, a)
    BY <1>9 DEF claim
  <2>2. /\ policy' \in SpendPolicies /\ paidAt' \in [Slots -> Nat]
        /\ a \in Nat /\ vault.total_spent + a \in U64
    BY <2>0, <2>1, LadderTypeOK
  <2>3. vault' = [vault EXCEPT !.total_spent = @ + a,
                               !.total_claimed = @ + a,
                               !.last_active_slot = slot]
    BY <1>9 DEF claim
  <2>4. vault.total_claimed + a \in U64
    BY <1>0, <1>9, <2>2 DEF claim, CheckedAdd, Vaults, U64
  <2>5. vault' \in Vaults
    BY <1>0, <2>2, <2>3, <2>4 DEF Vaults
  <2>6. tokens' \in [Keys -> Nat] /\ offBook' \in Nat
    BY <1>0, <1>9, <2>0, <2>2, LeaveVaultEffect DEF claim
  <2> QED BY <1>9, <2>2, <2>5, <2>6 DEF TypeOK, claim
<1>10. ASSUME NEW a \in Amounts, NEW k \in Keys, request_spend(k, a)
       PROVE  TypeOK'
  <2>1. vault' = [vault EXCEPT !.pending_count = @ + 1,
                               !.last_active_slot = slot]
    BY <1>10 DEF request_spend
  <2>2. vault.pending_count \in U64 /\ vault.pending_count + 1 \in U64
    BY <1>0, <1>10 DEF request_spend, CheckedAdd, Vaults, U64
  <2>3. vault' \in Vaults
    BY <1>0, <2>1, <2>2 DEF Vaults
  <2>4. pending' \subseteq PendingSpends
    <3>1. a \in U64
      BY DEF U64
    <3> QED BY <1>0, <1>10, <2>2, <3>1 DEF request_spend, PendingSpends
  <2> QED BY <1>10, <2>3, <2>4 DEF TypeOK, request_spend, history
<1>11. ASSUME AdvanceSlot PROVE TypeOK'
  <2>1. slot' \in Slots
    BY <1>0, <1>11 DEF AdvanceSlot, Slots
  <2> QED BY <1>11, <2>1 DEF TypeOK, AdvanceSlot, program, history
<1>12. ASSUME NEW a \in Amounts, NEW from \in KeyHolders, NEW to \in Keys,
              ExternalTransfer(from, to, a)
       PROVE  TypeOK'
  <2>1. tokens' \in [Keys -> Nat]
    BY <1>0, <1>12, TransferEffect DEF ExternalTransfer
  <2>2. offBook' \in Nat
    BY <1>0, <1>12 DEF ExternalTransfer
  <2> QED BY <1>12, <2>1, <2>2 DEF TypeOK, ExternalTransfer, program
<1>13. ASSUME UNCHANGED vars PROVE TypeOK'
  BY <1>13 DEF TypeOK, vars, program, history
<1> QED
  BY <1>1, <1>2, <1>3, <1>4, <1>5, <1>6, <1>7, <1>8, <1>9, <1>10, <1>11,
     <1>12, <1>13
  DEF Next, OwnerStep, AgentStep, ServiceStep, Environment

\* Every account keeps well-formed contents: the counters and limits stay
\* u64 values under checked_add, balances never go negative.
THEOREM TypeCorrect == Spec => []TypeOK
<1> QED BY InitTypeOK, NextTypeOK, PTL DEF Spec

----------------------------------------------------------------------------
(* The books: Conservation and ClaimedWithinSpent.                         *)

\* Before create_vault nothing is deposited, spent or held.
LEMMA InitBooks == Init => Conservation /\ ClaimedWithinSpent
BY DEF Init, Conservation, ClaimedWithinSpent, Keys

\* The steps that touch neither the counters nor the token account.
LEMMA BooksUnchanged ==
    ASSUME Conservation, ClaimedWithinSpent,
           tokens'[Vault] = tokens[Vault], offBook' = offBook,
           vault'.total_deposited = vault.total_deposited,
           vault'.total_withdrawn = vault.total_withdrawn,
           vault'.total_spent = vault.total_spent,
           vault'.total_claimed = vault.total_claimed
    PROVE  Conservation' /\ ClaimedWithinSpent'
BY DEF Conservation, ClaimedWithinSpent

\* Every transfer is matched by the counter its instruction writes; claim
\* moves total_spent and total_claimed by the same amount.
LEMMA NextBooks ==
    TypeOK /\ Conservation /\ ClaimedWithinSpent /\ [Next]_vars
        => Conservation' /\ ClaimedWithinSpent'
<1> SUFFICES ASSUME TypeOK, Conservation, ClaimedWithinSpent, [Next]_vars
             PROVE  Conservation' /\ ClaimedWithinSpent'
  OBVIOUS
<1>0. /\ vault \in Vaults /\ slot \in Slots
      /\ tokens \in [Keys -> Nat] /\ offBook \in Nat
      /\ pending \subseteq PendingSpends
      /\ Owner \in Keys /\ Vault \in Keys /\ KeyHolders \subseteq Keys
  BY DEF TypeOK, Keys, KeyHolders
<1>a. /\ tokens[Vault] \in Nat
      /\ vault.total_deposited \in Nat /\ vault.total_withdrawn \in Nat
      /\ vault.total_spent \in Nat /\ vault.total_claimed \in Nat
  BY <1>0 DEF Vaults, U64
<1> USE DEF Conservation, ClaimedWithinSpent
\* A payment of amount out of the vault, counted in total_spent once and
\* perhaps in total_claimed.
<1>b. ASSUME NEW to \in Keys, NEW amount \in Nat, LeaveVault(to, amount),
             vault'.total_deposited = vault.total_deposited,
             vault'.total_withdrawn = vault.total_withdrawn,
             vault'.total_spent = vault.total_spent + amount,
             \/ vault'.total_claimed = vault.total_claimed
             \/ vault'.total_claimed = vault.total_claimed + amount
      PROVE  Conservation' /\ ClaimedWithinSpent'
  <2>1. /\ tokens' \in [Keys -> Nat] /\ offBook' \in Nat
        /\ tokens'[Vault] - offBook' = tokens[Vault] - offBook - amount
    BY <1>0, <1>b, LeaveVaultEffect
  <2>2. tokens'[Vault] \in Nat
    BY <1>0, <2>1
  <2> QED BY <1>0, <1>a, <1>b, <2>1, <2>2
<1>1. ASSUME NEW a \in Amounts, deposit(a)
      PROVE  Conservation' /\ ClaimedWithinSpent'
  <2>1. tokens'[Vault] = tokens[Vault] + a
    BY <1>0, <1>1, TransferEffect DEF deposit
  <2>2. /\ vault'.total_deposited = vault.total_deposited + a
        /\ vault'.total_withdrawn = vault.total_withdrawn
        /\ vault'.total_spent = vault.total_spent
        /\ vault'.total_claimed = vault.total_claimed
        /\ offBook' = offBook
    BY <1>0, <1>1 DEF deposit, Vaults, history
  <2> QED BY <1>0, <1>a, <2>1, <2>2
<1>2. ASSUME NEW a \in Amounts, NEW k \in Keys, withdraw(k, a)
      PROVE  Conservation' /\ ClaimedWithinSpent'
  <2>1. /\ tokens' \in [Keys -> Nat] /\ offBook' \in Nat
        /\ tokens'[Vault] - offBook' = tokens[Vault] - offBook - a
    BY <1>0, <1>2, LeaveVaultEffect DEF withdraw
  <2>2. /\ vault'.total_deposited = vault.total_deposited
        /\ vault'.total_withdrawn = vault.total_withdrawn + a
        /\ vault'.total_spent = vault.total_spent
        /\ vault'.total_claimed = vault.total_claimed
    BY <1>0, <1>2 DEF withdraw, Vaults
  <2>3. tokens'[Vault] \in Nat
    BY <1>0, <2>1
  <2> QED BY <1>0, <1>a, <2>1, <2>2, <2>3
<1>3. ASSUME NEW p \in pending, approve_spend(p)
      PROVE  Conservation' /\ ClaimedWithinSpent'
  <2>1. p.amount \in Nat /\ p.service \in Keys
    BY <1>0 DEF PendingSpends, U64
  <2>2. /\ LeaveVault(p.service, p.amount)
        /\ vault'.total_deposited = vault.total_deposited
        /\ vault'.total_withdrawn = vault.total_withdrawn
        /\ vault'.total_spent = vault.total_spent + p.amount
        /\ vault'.total_claimed = vault.total_claimed
    BY <1>0, <1>3 DEF approve_spend, Vaults
  <2> QED BY <1>b, <2>1, <2>2
<1>4. ASSUME NEW a \in Amounts, NEW k \in Keys, spend(k, a)
      PROVE  Conservation' /\ ClaimedWithinSpent'
  <2>1. a \in Nat
    OBVIOUS
  <2>2. /\ LeaveVault(k, a)
        /\ vault'.total_deposited = vault.total_deposited
        /\ vault'.total_withdrawn = vault.total_withdrawn
        /\ vault'.total_spent = vault.total_spent + a
        /\ vault'.total_claimed = vault.total_claimed
    BY <1>0, <1>4 DEF spend, Vaults
  <2> QED BY <1>b, <2>1, <2>2
<1>5. ASSUME NEW a \in Amounts, NEW k \in KeyHolders, claim(k, a)
      PROVE  Conservation' /\ ClaimedWithinSpent'
  <2>1. a \in Nat /\ k \in Keys
    BY <1>0
  <2>2. /\ LeaveVault(k, a)
        /\ vault'.total_deposited = vault.total_deposited
        /\ vault'.total_withdrawn = vault.total_withdrawn
        /\ vault'.total_spent = vault.total_spent + a
        /\ vault'.total_claimed = vault.total_claimed + a
    BY <1>0, <1>5 DEF claim, Vaults
  <2> QED BY <1>b, <2>1, <2>2
<1>6. ASSUME NEW a \in Amounts, NEW from \in KeyHolders, NEW to \in Keys,
             ExternalTransfer(from, to, a)
      PROVE  Conservation' /\ ClaimedWithinSpent'
  <2>1. /\ Transfer(from, to, a) /\ from # to /\ from \in Keys /\ from # Vault
        /\ offBook' = IF to = Vault THEN offBook + a ELSE offBook
        /\ vault' = vault
    BY <1>0, <1>6 DEF ExternalTransfer, program, KeyHolders
  <2>2. tokens'[Vault] = IF to = Vault THEN tokens[Vault] + a
                                       ELSE tokens[Vault]
    BY <1>0, <2>1, TransferEffect
  <2> QED BY <1>0, <1>a, <2>1, <2>2
<1>7. ASSUME NEW a \in Amounts, NEW k \in Keys, request_spend(k, a)
      PROVE  Conservation' /\ ClaimedWithinSpent'
  <2>1. /\ vault'.total_deposited = vault.total_deposited
        /\ vault'.total_withdrawn = vault.total_withdrawn
        /\ vault'.total_spent = vault.total_spent
        /\ vault'.total_claimed = vault.total_claimed
        /\ tokens' = tokens /\ offBook' = offBook
    BY <1>0, <1>7 DEF request_spend, Vaults, history
  <2> QED BY <2>1, BooksUnchanged
<1>8. ASSUME \/ freeze_vault
             \/ unfreeze_vault
             \/ \E args \in Policies : create_vault(args)
      PROVE  Conservation' /\ ClaimedWithinSpent'
  <2>1. /\ vault'.total_deposited = vault.total_deposited
        /\ vault'.total_withdrawn = vault.total_withdrawn
        /\ vault'.total_spent = vault.total_spent
        /\ vault'.total_claimed = vault.total_claimed
        /\ tokens' = tokens /\ offBook' = offBook
    BY <1>0, <1>8
    DEF freeze_vault, unfreeze_vault, create_vault, Vaults, history
  <2> QED BY <2>1, BooksUnchanged
<1>9. ASSUME \/ \E p \in pending : cancel_spend(p)
             \/ \E args \in Policies : update_policy(args)
             \/ AdvanceSlot
             \/ UNCHANGED vars
      PROVE  Conservation' /\ ClaimedWithinSpent'
  <2>1. vault' = vault /\ tokens' = tokens /\ offBook' = offBook
    BY <1>9
    DEF cancel_spend, update_policy, AdvanceSlot, vars, program, history
  <2> QED BY <2>1, BooksUnchanged
<1> QED
  BY <1>1, <1>2, <1>3, <1>4, <1>5, <1>6, <1>7, <1>8, <1>9
  DEF Next, OwnerStep, AgentStep, ServiceStep, Environment

----------------------------------------------------------------------------
(* The requests: RequestsAccounted.                                        *)

Used == {n \in U64 : n < vault.pending_count}
Open == {p.nonce : p \in pending}

\* No request exists before request_spend runs.
LEMMA InitRequests == Init => RequestsAccounted
BY DEF Init, RequestsAccounted, U64

\* Closing one open request moves its nonce from the open to the settled.
LEMMA CloseRequests ==
    ASSUME TypeOK, RequestsAccounted, NEW p \in pending, Close(p),
           vault'.pending_count = vault.pending_count
    PROVE  RequestsAccounted'
<1>1. /\ pending' = pending \ {p} /\ settled' = settled \cup {p.nonce}
  BY DEF Close
<1>2. Open \cup settled = Used
  BY DEF RequestsAccounted, Open, Used
<1>3. /\ \A q \in pending : q.nonce \notin settled
      /\ \A q, r \in pending : q.nonce = r.nonce => q = r
  BY DEF RequestsAccounted
<1>4. {q.nonce : q \in pending'} \cup settled' = Open \cup settled
  BY <1>1 DEF Open
<1>5. {n \in U64 : n < vault'.pending_count} = Used
  BY DEF Used
<1>6. \A q \in pending' : q.nonce \notin settled'
  BY <1>1, <1>3
<1>7. \A q, r \in pending' : q.nonce = r.nonce => q = r
  BY <1>1, <1>3
<1> QED BY <1>2, <1>4, <1>5, <1>6, <1>7 DEF RequestsAccounted

\* request_spend opens the nonce pending_count and moves past it; only
\* approve_spend and cancel_spend close one.
LEMMA NextRequests ==
    TypeOK /\ RequestsAccounted /\ [Next]_vars => RequestsAccounted'
<1> SUFFICES ASSUME TypeOK, RequestsAccounted, [Next]_vars
             PROVE  RequestsAccounted'
  OBVIOUS
<1>0. vault \in Vaults /\ pending \subseteq PendingSpends
  BY DEF TypeOK
<1>1. ASSUME NEW p \in pending, approve_spend(p) PROVE RequestsAccounted'
  <2>1. Close(p) /\ vault'.pending_count = vault.pending_count
    BY <1>0, <1>1 DEF approve_spend, Vaults
  <2> QED BY <2>1, CloseRequests
<1>2. ASSUME NEW p \in pending, cancel_spend(p) PROVE RequestsAccounted'
  <2>1. Close(p) /\ vault'.pending_count = vault.pending_count
    BY <1>2 DEF cancel_spend
  <2> QED BY <2>1, CloseRequests
<1>3. ASSUME NEW a \in Amounts, NEW k \in Keys, request_spend(k, a)
      PROVE  RequestsAccounted'
  <2> DEFINE n == vault.pending_count
             new == [nonce |-> n, service |-> k, amount |-> a,
                     requested_slot |-> slot]
  <2>1. /\ pending' = pending \cup {new} /\ settled' = settled
        /\ n \in U64 /\ n + 1 \in U64
        /\ vault'.pending_count = n + 1
    BY <1>0, <1>3 DEF request_spend, history, Vaults, CheckedAdd, U64
  <2>2. /\ Open \cup settled = Used
        /\ \A q \in pending : q.nonce \notin settled
        /\ \A q, r \in pending : q.nonce = r.nonce => q = r
    BY DEF RequestsAccounted, Open, Used
  <2>3. new.nonce = n
    OBVIOUS
  <2> HIDE DEF new
  <2>4. n \notin Used
    BY <2>1 DEF Used, U64
  <2>5. n \notin settled /\ \A q \in pending : q.nonce # n
    BY <2>2, <2>4 DEF Open
  <2>6. {q.nonce : q \in pending'} = Open \cup {n}
    BY <2>1, <2>3 DEF Open
  <2>7. {m \in U64 : m < vault'.pending_count} = Used \cup {n}
    BY <2>1 DEF Used, U64
  <2>8. \A q \in pending' : q.nonce \notin settled'
    BY <2>1, <2>2, <2>3, <2>5
  <2>9. \A q, r \in pending' : q.nonce = r.nonce => q = r
    BY <2>1, <2>2, <2>3, <2>5
  <2>10. {q.nonce : q \in pending'} \cup settled'
            = {m \in U64 : m < vault'.pending_count}
    BY <2>1, <2>2, <2>6, <2>7
  <2> QED BY <2>8, <2>9, <2>10 DEF RequestsAccounted
<1>4. ASSUME pending' = pending, settled' = settled,
             vault'.pending_count = vault.pending_count
      PROVE  RequestsAccounted'
  BY <1>4 DEF RequestsAccounted
<1>5. ASSUME \/ \E a \in Amounts : deposit(a)
             \/ \E a \in Amounts, k \in Keys : withdraw(k, a)
             \/ \E a \in Amounts, k \in Keys : spend(k, a)
             \/ \E a \in Amounts, k \in KeyHolders : claim(k, a)
             \/ freeze_vault \/ unfreeze_vault
             \/ \E args \in Policies : create_vault(args)
      PROVE  RequestsAccounted'
  <2>1. /\ pending' = pending /\ settled' = settled
        /\ vault'.pending_count = vault.pending_count
    BY <1>0, <1>5 DEF deposit, withdraw, spend, claim, freeze_vault,
       unfreeze_vault, create_vault, history, Vaults
  <2> QED BY <1>4, <2>1
<1>6. ASSUME \/ \E args \in Policies : update_policy(args)
             \/ AdvanceSlot
             \/ \E a \in Amounts, from \in KeyHolders, to \in Keys :
                   ExternalTransfer(from, to, a)
             \/ UNCHANGED vars
      PROVE  RequestsAccounted'
  <2>1. pending' = pending /\ settled' = settled /\ vault' = vault
    BY <1>6 DEF update_policy, AdvanceSlot, ExternalTransfer, vars, program,
       history
  <2> QED BY <1>4, <2>1
<1> QED
  BY <1>1, <1>2, <1>3, <1>5, <1>6
  DEF Next, OwnerStep, AgentStep, ServiceStep, Environment

----------------------------------------------------------------------------
(* The safety theorems.                                                    *)

\* The inductive invariant holds in every reachable state.
LEMMA Invariance == Spec => []Inv
<1>1. Init => Inv
  BY InitTypeOK, InitBooks, InitRequests DEF Inv
<1>2. Inv /\ [Next]_vars => Inv'
  BY NextTypeOK, NextBooks, NextRequests DEF Inv
<1> QED BY <1>1, <1>2, PTL DEF Spec

\* The counters of the vault explain its token balance to the unit, in every
\* reachable state and with any amounts, policies and donations.
THEOREM BooksBalance == Spec => []Conservation
<1>1. Inv => Conservation
  BY DEF Inv
<1> QED BY <1>1, Invariance, PTL

\* The balance that decodeCreditVault derives overstates the vault's own funds
\* by what was claimed, and by nothing else.
THEOREM SdkBalanceExplained == Spec => []SdkBalanceOffByClaims
<1>1. Inv => SdkBalanceOffByClaims
  <2> SUFFICES ASSUME TypeOK, Conservation PROVE SdkBalanceOffByClaims
    BY DEF Inv
  <2>1. /\ vault.total_deposited \in Nat /\ vault.total_withdrawn \in Nat
        /\ vault.total_spent \in Nat /\ vault.total_claimed \in Nat
        /\ tokens[Vault] \in Nat /\ offBook \in Nat
    BY DEF TypeOK, Vaults, U64, Keys
  <2> QED BY <2>1 DEF Conservation, SdkBalanceOffByClaims, SdkBalance
<1> QED BY <1>1, Invariance, PTL

\* Claims never exceed the spending they are part of.
THEOREM ClaimsAreSpending == Spec => []ClaimedWithinSpent
<1>1. Inv => ClaimedWithinSpent
  BY DEF Inv
<1> QED BY <1>1, Invariance, PTL

\* No request is lost, settled twice or re-created under a used nonce, so
\* the init of request_spend never meets an existing account.
THEOREM RequestsSettleOnce == Spec => []RequestsAccounted
<1>1. Inv => RequestsAccounted
  BY DEF Inv
<1> QED BY <1>1, Invariance, PTL

----------------------------------------------------------------------------
(* What a single step may do: the action properties.                       *)

\* Only spend, claim and approve_spend move total_spent; every other step
\* leaves it as it is.
LEMMA PayingSteps ==
    ASSUME TypeOK, [Next]_vars,
           vault'.total_spent # vault.total_spent
    PROVE  \/ \E a \in Amounts, k \in Keys :
                 /\ check_and_record_spend(k, a) /\ LeaveVault(k, a)
                 /\ vault'.total_spent = vault.total_spent + a
           \/ \E p \in pending : approve_spend(p)
<1>0. vault \in Vaults /\ KeyHolders \subseteq Keys
  BY DEF TypeOK, Keys
<1>1. ASSUME NEW a \in Amounts, NEW k \in Keys, spend(k, a) \/ claim(k, a)
      PROVE  /\ check_and_record_spend(k, a) /\ LeaveVault(k, a)
             /\ vault'.total_spent = vault.total_spent + a
  BY <1>0, <1>1 DEF spend, claim, Vaults
<1>2. ASSUME \/ \E a \in Amounts : deposit(a)
             \/ \E a \in Amounts, k \in Keys :
                   withdraw(k, a) \/ request_spend(k, a)
             \/ freeze_vault \/ unfreeze_vault
             \/ \E args \in Policies : create_vault(args)
      PROVE  FALSE
  BY <1>0, <1>2 DEF deposit, withdraw, request_spend, freeze_vault,
     unfreeze_vault, create_vault, Vaults
<1>3. ASSUME \/ \E p \in pending : cancel_spend(p)
             \/ \E args \in Policies : update_policy(args)
             \/ Environment
             \/ UNCHANGED vars
      PROVE  FALSE
  BY <1>3 DEF cancel_spend, update_policy, Environment, AdvanceSlot,
     ExternalTransfer, vars, program
<1> QED BY <1>0, <1>1, <1>2, <1>3 DEF Next, OwnerStep, AgentStep, ServiceStep

\* A step that pays over a limit approves a request; that much follows from the
\* types alone, wherever the vault starts.
LEMMA LimitsStep == []TypeOK /\ [][Next]_vars => OverLimitNeedsApproval
<1> DEFINE paid == vault'.total_spent - vault.total_spent
           Step == paid > 0 /\ ~WithinLimits(paid) =>
              \E p \in pending : p.amount = paid /\ pending' = pending \ {p}
<1>1. TypeOK /\ [Next]_vars => [Step]_vars
  <2> SUFFICES ASSUME TypeOK, [Next]_vars, paid > 0, ~WithinLimits(paid)
               PROVE  \E p \in pending : p.amount = paid
                                         /\ pending' = pending \ {p}
    OBVIOUS
  <2>0. /\ vault \in Vaults /\ vault.total_spent \in Nat
        /\ pending \subseteq PendingSpends
    BY DEF TypeOK, Vaults, U64
  <2>1. vault'.total_spent # vault.total_spent
    BY <2>0
  <2>2. ASSUME NEW a \in Amounts, NEW k \in Keys,
               check_and_record_spend(k, a),
               vault'.total_spent = vault.total_spent + a
        PROVE  FALSE
    <3>1. paid = a
      BY <2>0, <2>2
    <3> QED BY <2>2, <3>1 DEF check_and_record_spend
  <2>3. PICK p \in pending : approve_spend(p)
    BY <2>1, <2>2, PayingSteps
  <2>4. vault'.total_spent = vault.total_spent + p.amount
    BY <2>0, <2>3 DEF approve_spend, Vaults
  <2>5. p.amount \in Nat
    BY <2>0 DEF PendingSpends, U64
  <2>6. paid = p.amount
    BY <2>0, <2>4, <2>5
  <2>7. pending' = pending \ {p}
    BY <2>3 DEF approve_spend, Close
  <2> QED BY <2>6, <2>7
<1> QED BY <1>1, PTL DEF OverLimitNeedsApproval

\* A payment over a limit consumes one open request of exactly that amount.
THEOREM LimitsNeedApproval == Spec => OverLimitNeedsApproval
BY TypeCorrect, LimitsStep, PTL DEF Spec

\* No step pays, queues or lets tokens out while the vault is frozen, but withdraw.
LEMMA FrozenStep == []TypeOK /\ [][Next]_vars => FrozenInert
<1> DEFINE Step == vault.frozen =>
              /\ vault'.total_spent = vault.total_spent
              /\ pending' \subseteq pending
              /\ tokens'[Vault] < tokens[Vault] =>
                    vault'.total_withdrawn > vault.total_withdrawn
<1>1. TypeOK /\ [Next]_vars => [Step]_vars
  <2> SUFFICES ASSUME TypeOK, [Next]_vars, vault.frozen
               PROVE  /\ vault'.total_spent = vault.total_spent
                      /\ pending' \subseteq pending
                      /\ tokens'[Vault] < tokens[Vault] =>
                            vault'.total_withdrawn > vault.total_withdrawn
    OBVIOUS
  <2>0. /\ vault \in Vaults /\ vault.total_withdrawn \in Nat
        /\ tokens \in [Keys -> Nat] /\ tokens[Vault] \in Nat
        /\ Vault \in Keys /\ Owner \in Keys /\ KeyHolders \subseteq Keys
    BY DEF TypeOK, Vaults, U64, Keys, KeyHolders
  <2>1. vault'.total_spent = vault.total_spent
    BY PayingSteps DEF check_and_record_spend, approve_spend
  <2>2. pending' \subseteq pending
    <3>1. ~\E a \in Amounts, k \in Keys : request_spend(k, a)
      BY DEF request_spend
    <3> QED BY <3>1 DEF Next, OwnerStep, AgentStep, ServiceStep, Environment,
       deposit, withdraw, approve_spend, cancel_spend, Close, freeze_vault,
       unfreeze_vault, create_vault, update_policy, spend, claim, AdvanceSlot,
       ExternalTransfer, vars, program
  <2>3. ASSUME NEW a \in Amounts, NEW k \in Keys, withdraw(k, a)
        PROVE  vault'.total_withdrawn > vault.total_withdrawn
    <3>1. a \in Nat /\ a > 0
      BY <2>3 DEF withdraw
    <3>2. vault'.total_withdrawn = vault.total_withdrawn + a
      BY <2>0, <2>3 DEF withdraw, Vaults
    <3> QED BY <2>0, <3>1, <3>2
  <2>4. ASSUME NEW a \in Amounts, deposit(a)
        PROVE  ~(tokens'[Vault] < tokens[Vault])
    <3>1. tokens'[Vault] = tokens[Vault] + a
      BY <2>0, <2>4, TransferEffect DEF deposit
    <3> QED BY <2>0, <3>1
  <2>5. ASSUME NEW a \in Amounts, NEW from \in KeyHolders, NEW to \in Keys,
               ExternalTransfer(from, to, a)
        PROVE  ~(tokens'[Vault] < tokens[Vault])
    <3>1. /\ Transfer(from, to, a) /\ from # to /\ from # Vault
          /\ from \in Keys
      BY <2>0, <2>5 DEF ExternalTransfer, KeyHolders
    <3>2. \/ tokens'[Vault] = tokens[Vault] + a
          \/ tokens'[Vault] = tokens[Vault]
      BY <2>0, <3>1, TransferEffect
    <3> QED BY <2>0, <3>2
  <2>6. ASSUME \/ \E a \in Amounts, k \in Keys : spend(k, a)
               \/ \E a \in Amounts, k \in KeyHolders : claim(k, a)
               \/ \E p \in pending : approve_spend(p)
        PROVE  FALSE
    BY <2>6 DEF spend, claim, check_and_record_spend, approve_spend
  <2>7. ASSUME \/ \E a \in Amounts, k \in Keys : request_spend(k, a)
               \/ \E p \in pending : cancel_spend(p)
               \/ freeze_vault \/ unfreeze_vault \/ AdvanceSlot
               \/ \E args \in Policies :
                     create_vault(args) \/ update_policy(args)
               \/ UNCHANGED vars
        PROVE  ~(tokens'[Vault] < tokens[Vault])
    <3>1. tokens' = tokens
      BY <2>7 DEF request_spend, cancel_spend, freeze_vault, unfreeze_vault,
         AdvanceSlot, create_vault, update_policy, vars
    <3> QED BY <2>0, <3>1
  <2>8. tokens'[Vault] < tokens[Vault] =>
           vault'.total_withdrawn > vault.total_withdrawn
    BY <2>3, <2>4, <2>5, <2>6, <2>7
    DEF Next, OwnerStep, AgentStep, ServiceStep, Environment
  <2> QED BY <2>1, <2>2, <2>8
<1> QED BY <1>1, PTL DEF FrozenInert

\* A frozen vault pays nobody, queues nothing and lets tokens out through the
\* owner's withdraw only.
THEOREM FrozenVaultIsInert == Spec => FrozenInert
BY TypeCorrect, FrozenStep, PTL DEF Spec

\* A step that pays a key finds it on the whitelist.
LEMMA WhitelistStep == []TypeOK /\ [][Next]_vars => PaymentsWhitelisted
<1> DEFINE Step == \A k \in Keys \ {Vault} :
              /\ vault'.total_spent > vault.total_spent
              /\ tokens'[k] > tokens[k]
              => CheckWhitelist(policy.whitelist, k)
<1>1. TypeOK /\ [Next]_vars => [Step]_vars
  <2> SUFFICES ASSUME TypeOK, [Next]_vars, NEW k \in Keys \ {Vault},
                      vault'.total_spent > vault.total_spent,
                      tokens'[k] > tokens[k]
               PROVE  CheckWhitelist(policy.whitelist, k)
    OBVIOUS
  <2>0. /\ vault \in Vaults /\ vault.total_spent \in Nat
        /\ pending \subseteq PendingSpends
        /\ tokens \in [Keys -> Nat] /\ tokens[k] \in Nat /\ Vault \in Keys
    BY DEF TypeOK, Vaults, U64, Keys
  <2>1. ASSUME NEW to \in Keys, NEW amount \in Nat, LeaveVault(to, amount)
        PROVE  to = k
    <3>1. Transfer(Vault, to, amount)
      BY <2>1 DEF LeaveVault
    <3>2. to # k => tokens'[k] = tokens[k]
      BY <2>0, <3>1, TransferEffect
    <3> QED BY <2>0, <3>2
  <2>2. vault'.total_spent # vault.total_spent
    BY <2>0
  <2>3. CASE \E a \in Amounts, to \in Keys :
                check_and_record_spend(to, a) /\ LeaveVault(to, a)
    BY <2>1, <2>3 DEF check_and_record_spend
  <2>4. CASE \E p \in pending : approve_spend(p)
    <3>1. PICK p \in pending : approve_spend(p)
      BY <2>4
    <3>2. p.amount \in Nat /\ p.service \in Keys
      BY <2>0 DEF PendingSpends, U64
    <3> QED BY <2>1, <3>1, <3>2 DEF approve_spend
  <2> QED BY <2>2, <2>3, <2>4, PayingSteps
<1> QED BY <1>1, PTL DEF PaymentsWhitelisted

\* Whoever a payment reaches passes the whitelist in force at that moment.
THEOREM PaymentsObeyWhitelist == Spec => PaymentsWhitelisted
BY TypeCorrect, WhitelistStep, PTL DEF Spec

----------------------------------------------------------------------------
(* The hourly window.                                                      *)

\* The slots from w on, and those less than an hour before w.
From(w) == {s \in Slots : s >= w}
HourBefore(w) == {s \in Slots : s < w /\ s > w - SlotsPerHour}

\* What the hourly bound rests on: no payment before the vault exists or in the
\* future; the payments of the window in force lie within its hour and add up
\* to at most its total and the limit; and those of the hour before it, all of
\* one window, are within the limit.
WindowAccounted ==
    /\ ~created => paidAt = NoPayments
    /\ policy.window_start <= slot
    /\ \A s \in Slots : s > slot => paidAt[s] = 0
    /\ policy.hourly_limit > 0 =>
          /\ \A s \in Slots :
                s >= policy.window_start + SlotsPerHour => paidAt[s] = 0
          /\ SumOver(paidAt, From(policy.window_start)) <= policy.window_spent
          /\ SumOver(paidAt, From(policy.window_start)) <= policy.hourly_limit
          /\ SumOver(paidAt, HourBefore(policy.window_start))
                <= policy.hourly_limit

Span(t) == t..(t + SlotsPerHour - 1) \cap Slots

\* Sets of slots are finite, and what was paid in one is a natural number.
LEMMA SlotSums ==
    ASSUME TypeOK, NEW S \in SUBSET Slots
    PROVE  /\ IsFiniteSet(S) /\ SumOver(paidAt, S) \in Nat
           /\ \A s \in S : paidAt[s] \in Nat
<1>1. IsFiniteSet(S)
  <2>1. IsFiniteSet(0..MaxSlot)
    BY FS_Interval
  <2> QED BY <2>1, FS_Subset DEF Slots
<1>2. \A s \in S : paidAt[s] \in Nat
  BY DEF TypeOK
<1> QED BY <1>1, <1>2, SumType

\* A ladder payment adds its amount to the sums over sets the slot is in.
LEMMA PaymentInSlot ==
    ASSUME TypeOK, NEW a \in Nat, paidAt' = [paidAt EXCEPT ![slot] = @ + a],
           NEW S \in SUBSET Slots
    PROVE  /\ slot \notin S => SumOver(paidAt', S) = SumOver(paidAt, S)
           /\ slot \in S => SumOver(paidAt', S) = SumOver(paidAt, S) + a
<1>0. /\ IsFiniteSet(S) /\ SumOver(paidAt, S) \in Nat
      /\ \A s \in S : paidAt[s] \in Nat
  BY SlotSums
<1>1. /\ \A s \in S \ {slot} : paidAt[s] = paidAt'[s]
      /\ slot \in S => paidAt'[slot] = paidAt[slot] + a
  BY DEF TypeOK
<1>2. ASSUME slot \notin S PROVE SumOver(paidAt', S) = SumOver(paidAt, S)
  <2>1. \A s \in S : paidAt'[s] = paidAt[s]
    BY <1>1, <1>2
  <2> DEFINE f == paidAt  g == paidAt'
  <2>2. \A s \in S : g[s] = f[s]
    BY <2>1
  <2> HIDE DEF f, g
  <2>3. SumOver(g, S) = SumOver(f, S)
    BY <1>0, <2>2, SumSame
  <2> QED BY <2>3 DEF f, g
<1>3. ASSUME slot \in S PROVE SumOver(paidAt', S) = SumOver(paidAt, S) + a
  <2>1. \A s \in S : paidAt[s] \in Nat /\ paidAt'[s] \in Nat
    BY <1>0, <1>1, <1>3
  <2>2. SumOver(paidAt', S) = SumOver(paidAt, S) + (paidAt'[slot] - paidAt[slot])
    <3> DEFINE f == paidAt  g == paidAt'  e == slot
    <3>1. /\ e \in S /\ \A s \in S \ {e} : f[s] = g[s]
          /\ \A s \in S : f[s] \in Nat /\ g[s] \in Nat
      BY <1>1, <1>3, <2>1
    <3> HIDE DEF f, g, e
    <3>2. SumOver(g, S) = SumOver(f, S) + (g[e] - f[e])
      BY <1>0, <3>1, SumChange
    <3> QED BY <3>2 DEF f, g, e
  <2>3. paidAt'[slot] - paidAt[slot] = a
    BY <1>0, <1>1, <1>3
  <2> QED BY <2>2, <2>3
<1> QED BY <1>2, <1>3

\* The sums after the policy was replaced.
LEMMA NoPaymentsSum ==
    ASSUME NEW S \in SUBSET Slots PROVE SumOver(NoPayments, S) = 0
<1>1. IsFiniteSet(S)
  <2>1. IsFiniteSet(0..MaxSlot)
    BY FS_Interval
  <2> QED BY <2>1, FS_Subset DEF Slots
<1>2. \A s \in S : NoPayments[s] = 0
  BY DEF NoPayments
<1> QED BY <1>1, <1>2, SumZero

\* A span that slot t lies in is within the slots from w on and the hour
\* before w, for every w up to t.
LEMMA SpanCovered ==
    ASSUME NEW w \in Slots, NEW c \in Slots, w <= c, NEW t \in Slots,
           c \in Span(t)
    PROVE  Span(t) \subseteq HourBefore(w) \cup From(w)
<1>1. w \in Int /\ c \in Int /\ t \in Int /\ SlotsPerHour \in Int
  BY DEF Slots
<1> QED BY <1>1 DEF Span, HourBefore, From, Slots

\* A payment recorded by the ladder keeps the window's account and the bound.
LEMMA LadderInWindow ==
    ASSUME TypeOK, TypeOK', WindowAccounted, HourlyBound, created, created',
           NEW k \in Keys, NEW a \in Amounts, check_and_record_spend(k, a),
           slot' = slot
    PROVE  WindowAccounted' /\ HourlyBound'
<1> DEFINE w == policy.window_start
           v == WindowStart
           H == policy.hourly_limit
<1>1. /\ a \in Nat /\ slot \in Slots /\ w \in Slots /\ H \in Nat
      /\ policy.window_spent \in Nat /\ paidAt \in [Slots -> Nat]
  BY DEF TypeOK, SpendPolicies, U64
<1>2. /\ paidAt' = [paidAt EXCEPT ![slot] = @ + a]
      /\ H > 0 => WindowSpent + a <= H
  BY DEF check_and_record_spend, WithinLimits
<1>3. \A s \in Slots : s > slot => paidAt'[s] = 0
  <2>1. \A s \in Slots : s > slot => paidAt[s] = 0 /\ s # slot
    BY <1>1 DEF WindowAccounted, Slots
  <2> QED BY <1>1, <1>2, <2>1
<1>4. CASE ~(H > 0)
  <2>1. policy' = policy
    BY <1>4 DEF check_and_record_spend
  <2>2. ~(policy'.hourly_limit > 0)
    BY <1>4, <2>1
  <2> QED BY <1>3, <2>1, <2>2 DEF WindowAccounted, HourlyBound
<1>5. CASE H > 0
  <2>1. /\ policy'.window_start = v /\ policy'.window_spent = WindowSpent + a
        /\ policy'.hourly_limit = H
    BY <1>5 DEF check_and_record_spend, TypeOK, SpendPolicies
  <2>2. v \in Slots /\ v <= slot /\ WindowSpent \in Nat
    BY <1>1 DEF WindowStart, WindowSpent, WindowAccounted, Slots
  <2>3. /\ From(v) \in SUBSET Slots /\ HourBefore(v) \in SUBSET Slots
        /\ slot \in From(v) /\ slot \notin HourBefore(v)
    BY <1>1, <2>2 DEF From, HourBefore, Slots
  <2>4. /\ SumOver(paidAt, From(v)) <= WindowSpent
        /\ SumOver(paidAt, HourBefore(v)) <= H
        /\ slot < v + SlotsPerHour
        /\ \A s \in Slots : s >= v + SlotsPerHour => paidAt[s] = 0
    <3>1. CASE WindowElapsed
      <4>1. v = slot /\ WindowSpent = 0 /\ slot - w >= SlotsPerHour
        BY <3>1 DEF WindowStart, WindowSpent, WindowElapsed
      <4>2. \A s \in From(v) : paidAt[s] = 0
        BY <1>1, <1>5, <4>1 DEF From, WindowAccounted, Slots
      <4>3. SumOver(paidAt, From(v)) = 0
        BY <2>3, <4>2, SlotSums, SumZero
      <4>4. HourBefore(v) \subseteq From(w) /\ From(w) \in SUBSET Slots
        <5>1. w \in Int /\ slot \in Int /\ slot - SlotsPerHour >= w
          BY <1>1, <4>1 DEF Slots
        <5>2. \A s \in Slots : s \in Int /\ SlotsPerHour \in Int
          BY DEF Slots
        <5>3. \A s \in Slots : s > slot - SlotsPerHour => s >= w
          BY <5>1, <5>2
        <5> HIDE DEF v, w
        <5> QED BY <4>1, <5>3 DEF HourBefore, From
      <4>5. SumOver(paidAt, HourBefore(v)) <= SumOver(paidAt, From(w))
        BY <4>4, SlotSums, SumMonotone
      <4>6. SumOver(paidAt, HourBefore(v)) <= H
        <5>1. /\ SumOver(paidAt, HourBefore(v)) \in Nat
              /\ SumOver(paidAt, From(w)) \in Nat
          BY <2>3, <4>4, SlotSums
        <5>2. SumOver(paidAt, From(w)) <= H
          BY <1>5 DEF WindowAccounted
        <5> QED BY <1>1, <4>5, <5>1, <5>2
      <4>7. \A s \in Slots : s >= v + SlotsPerHour => paidAt[s] = 0
        BY <4>2, <2>2 DEF From, Slots
      <4>8. slot < v + SlotsPerHour
        BY <1>1, <4>1 DEF Slots
      <4> QED BY <4>1, <4>3, <4>6, <4>7, <4>8
    <3>2. CASE ~WindowElapsed
      <4>1. v = w /\ WindowSpent = policy.window_spent
            /\ ~(slot - w >= SlotsPerHour)
        BY <3>2 DEF WindowStart, WindowSpent, WindowElapsed
      <4>2. slot < v + SlotsPerHour
        BY <1>1, <4>1 DEF Slots
      <4> QED BY <1>5, <4>1, <4>2 DEF WindowAccounted
    <3> QED BY <3>1, <3>2
  <2>5. /\ SumOver(paidAt', From(v)) = SumOver(paidAt, From(v)) + a
        /\ SumOver(paidAt', HourBefore(v)) = SumOver(paidAt, HourBefore(v))
    BY <1>1, <1>2, <2>3, PaymentInSlot
  <2>6. /\ SumOver(paidAt, From(v)) \in Nat
        /\ SumOver(paidAt, HourBefore(v)) \in Nat
    BY <2>3, SlotSums
  <2>7. /\ SumOver(paidAt', From(v)) <= WindowSpent + a
        /\ SumOver(paidAt', From(v)) <= H
        /\ SumOver(paidAt', HourBefore(v)) <= H
    BY <1>1, <1>2, <1>5, <2>2, <2>4, <2>5, <2>6
  <2>8. \A s \in Slots : s >= v + SlotsPerHour => paidAt'[s] = 0
    <3>1. \A s \in Slots : s >= v + SlotsPerHour => s # slot
      BY <1>1, <2>2, <2>4 DEF Slots
    <3> QED BY <1>1, <1>2, <2>4, <3>1
  <2>9. WindowAccounted'
    BY <1>3, <2>1, <2>2, <2>7, <2>8 DEF WindowAccounted
  <2>10. ASSUME NEW t \in Slots PROVE SumOver(paidAt', Span(t)) <= 2 * H
    <3>0. Span(t) \in SUBSET Slots
      BY DEF Span
    <3>1. CASE slot \notin Span(t)
      <4>1. SumOver(paidAt', Span(t)) = SumOver(paidAt, Span(t))
        BY <1>1, <1>2, <3>0, <3>1, PaymentInSlot
      <4>2. SumOver(paidAt, Span(t)) <= 2 * H
        BY <1>5 DEF HourlyBound, PaidInSpan, Span
      <4> QED BY <4>1, <4>2
    <3>2. CASE slot \in Span(t)
      <4>1. Span(t) \subseteq HourBefore(v) \cup From(v)
        BY <1>1, <2>2, <3>2, SpanCovered
      <4>2. /\ IsFiniteSet(HourBefore(v)) /\ IsFiniteSet(From(v))
        BY <2>3, SlotSums
      <4>3. \A s \in HourBefore(v) \cup From(v) : paidAt'[s] \in Nat
        BY <2>3 DEF TypeOK
      <4>4. SumOver(paidAt', Span(t))
              <= SumOver(paidAt', HourBefore(v)) + SumOver(paidAt', From(v))
        BY <4>1, <4>2, <4>3, SumCover
      <4>5. /\ SumOver(paidAt', HourBefore(v)) \in Nat
            /\ SumOver(paidAt', From(v)) \in Nat
        BY <1>1, <2>5, <2>6
      <4>6. SumOver(paidAt', Span(t)) \in Nat
        <5>1. IsFiniteSet(Span(t)) /\ \A s \in Span(t) : paidAt'[s] \in Nat
          BY <3>0, SlotSums DEF TypeOK
        <5> QED BY <5>1, SumType
      <4> QED BY <1>1, <2>7, <4>4, <4>5, <4>6
    <3> QED BY <3>1, <3>2
  <2>11. HourlyBound'
    BY <2>1, <2>10 DEF HourlyBound, PaidInSpan, Span
  <2> QED BY <2>9, <2>11
<1> QED BY <1>4, <1>5

\* Where neither the window nor the payments change, account and bound stay.
LEMMA WindowUntouched ==
    ASSUME TypeOK, WindowAccounted, HourlyBound, created => created',
           policy' = policy, paidAt' = paidAt, slot' \in Int, slot' >= slot
    PROVE  WindowAccounted' /\ HourlyBound'
<1>1. slot \in Int /\ policy.window_start \in Int /\ \A s \in Slots : s \in Int
  BY DEF TypeOK, SpendPolicies, Slots
<1>2. policy.window_start <= slot'
  BY <1>1 DEF WindowAccounted
<1>3. \A s \in Slots : s > slot' => paidAt[s] = 0
  BY <1>1 DEF WindowAccounted
<1>4. WindowAccounted'
  BY <1>2, <1>3 DEF WindowAccounted
<1>5. HourlyBound'
  BY DEF HourlyBound, PaidInSpan
<1> QED BY <1>4, <1>5

\* Without payments any window accounts for them.
LEMMA WindowEmpty ==
    ASSUME TypeOK, TypeOK', WindowAccounted, paidAt' = NoPayments,
           policy'.window_start = policy.window_start, slot' = slot
    PROVE  WindowAccounted' /\ HourlyBound'
<1>1. \A s \in Slots : paidAt'[s] = 0
  BY DEF NoPayments
<1>2. ASSUME NEW S \in SUBSET Slots PROVE SumOver(paidAt', S) = 0
  BY <1>2, NoPaymentsSum
<1>3. policy'.window_spent \in Nat /\ policy'.hourly_limit \in Nat
  BY DEF TypeOK, SpendPolicies, U64
<1>4. /\ SumOver(paidAt', From(policy'.window_start)) = 0
      /\ SumOver(paidAt', HourBefore(policy'.window_start)) = 0
  BY <1>2 DEF From, HourBefore
<1>5. policy'.window_start <= slot'
  BY DEF WindowAccounted
<1>6. WindowAccounted'
  BY <1>1, <1>3, <1>4, <1>5 DEF WindowAccounted
<1>7. ASSUME NEW t \in Slots PROVE SumOver(paidAt', Span(t)) = 0
  BY <1>2 DEF Span
<1>8. HourlyBound'
  BY <1>3, <1>7 DEF HourlyBound, PaidInSpan, Span
<1> QED BY <1>6, <1>8

\* No vault, no payment, no window.
LEMMA InitWindow == Init => WindowAccounted /\ HourlyBound
<1> SUFFICES ASSUME Init PROVE WindowAccounted /\ HourlyBound
  OBVIOUS
<1>1. /\ paidAt = NoPayments /\ policy.window_start = 0 /\ slot \in Nat
      /\ ~(policy.hourly_limit > 0)
  BY DEF Init
<1> QED BY <1>1 DEF WindowAccounted, HourlyBound, NoPayments

\* A vault that has paid nothing yet, funded or not, accounts for its window.
LEMMA WindowUnused ==
    ASSUME TypeOK, paidAt = NoPayments, policy.window_start <= slot
    PROVE  WindowAccounted /\ HourlyBound
<1>1. \A s \in Slots : paidAt[s] = 0
  BY DEF NoPayments
<1>2. ASSUME NEW S \in SUBSET Slots PROVE SumOver(paidAt, S) = 0
  BY <1>2, NoPaymentsSum
<1>3. policy.window_spent \in Nat /\ policy.hourly_limit \in Nat
  BY DEF TypeOK, SpendPolicies, U64
<1>4. /\ SumOver(paidAt, From(policy.window_start)) = 0
      /\ SumOver(paidAt, HourBefore(policy.window_start)) = 0
  BY <1>2 DEF From, HourBefore
<1>5. WindowAccounted
  BY <1>1, <1>3, <1>4 DEF WindowAccounted
<1>6. ASSUME NEW t \in Slots PROVE SumOver(paidAt, Span(t)) = 0
  BY <1>2 DEF Span
<1>7. HourlyBound
  BY <1>3, <1>6 DEF HourlyBound, PaidInSpan, Span
<1> QED BY <1>5, <1>7

\* Every step keeps the account of the window and the bound it gives.
LEMMA NextWindow ==
    TypeOK /\ TypeOK' /\ WindowAccounted /\ HourlyBound /\ [Next]_vars
      => WindowAccounted' /\ HourlyBound'
<1> SUFFICES ASSUME TypeOK, TypeOK', WindowAccounted, HourlyBound, [Next]_vars
             PROVE  WindowAccounted' /\ HourlyBound'
  OBVIOUS
<1>0. slot \in Int /\ policy \in SpendPolicies /\ KeyHolders \subseteq Keys
  BY DEF TypeOK, Slots, Keys
<1>1. ASSUME NEW a \in Amounts, NEW k \in Keys, spend(k, a) \/ claim(k, a)
      PROVE  WindowAccounted' /\ HourlyBound'
  <2>1. check_and_record_spend(k, a) /\ created /\ created' /\ slot' = slot
    BY <1>1 DEF spend, claim
  <2> QED BY <2>1, LadderInWindow
<1>2. ASSUME NEW args \in Policies, create_vault(args)
      PROVE  WindowAccounted' /\ HourlyBound'
  <2>1. paidAt' = NoPayments /\ slot' = slot
    BY <1>2 DEF create_vault, history, WindowAccounted
  <2>2. policy'.window_start = policy.window_start
    BY <1>0, <1>2 DEF create_vault, SpendPolicies
  <2> QED BY <2>1, <2>2, WindowEmpty
<1>3. ASSUME NEW args \in Policies, update_policy(args)
      PROVE  WindowAccounted' /\ HourlyBound'
  <2>1. paidAt' = NoPayments /\ slot' = slot
    BY <1>3 DEF update_policy
  <2>2. policy'.window_start = policy.window_start
    BY <1>0, <1>3 DEF update_policy, SpendPolicies
  <2> QED BY <2>1, <2>2, WindowEmpty
<1>4. ASSUME \/ \E a \in Amounts : deposit(a)
             \/ \E a \in Amounts, k \in Keys :
                   withdraw(k, a) \/ request_spend(k, a)
             \/ \E p \in pending : approve_spend(p) \/ cancel_spend(p)
             \/ freeze_vault \/ unfreeze_vault \/ Environment
             \/ UNCHANGED vars
      PROVE  WindowAccounted' /\ HourlyBound'
  <2>1. /\ created' = created /\ policy' = policy /\ paidAt' = paidAt
        /\ slot' = slot \/ slot' = slot + 1
    BY <1>4 DEF deposit, withdraw, request_spend, approve_spend, cancel_spend,
       freeze_vault, unfreeze_vault, Environment, AdvanceSlot,
       ExternalTransfer, vars, program, history
  <2>2. slot' \in Int /\ slot' >= slot
    BY <1>0, <2>1
  <2> QED BY <2>1, <2>2, WindowUntouched
<1> QED BY <1>0, <1>1, <1>2, <1>3, <1>4 DEF Next, OwnerStep, AgentStep,
           ServiceStep

\* Ladder payments of any hour under one policy stay within twice the hourly
\* limit, however the payments fall and whichever limits came before
\* (the window of check_and_record_spend).
THEOREM HourlyLimitBinds == Spec => []HourlyBound
<1> DEFINE I == TypeOK /\ WindowAccounted /\ HourlyBound
<1>1. Init => I
  BY InitTypeOK, InitWindow
<1>2. I /\ [Next]_vars => I'
  BY NextTypeOK, NextWindow
<1>3. I => HourlyBound
  OBVIOUS
<1> QED BY <1>1, <1>2, <1>3, PTL DEF Spec

----------------------------------------------------------------------------
(* CreditVault implements Escrow: the initial states map to initial states *)
(* and every step to a step or to a stutter, given Inv.                    *)

Nonces == {p.nonce : p \in pending}

\* Closing a PendingSpend account removes its nonce and no other from the open
\* ones: the nonce is the account's address (approve_spend, cancel_spend).
LEMMA CloseNonce ==
    ASSUME RequestsAccounted, NEW p \in pending, Close(p)
    PROVE  p.nonce \in Nonces /\ Nonces' = Nonces \ {p.nonce}
<1>1. pending' = pending \ {p}
  BY DEF Close
<1>2. \A q \in pending : q.nonce = p.nonce => q = p
  BY DEF RequestsAccounted
<1> QED BY <1>1, <1>2 DEF Nonces

\* Tokens that leave the vault are covered by its funds, and come back only as
\* tokens past deposit (LeaveVault in spend, claim, approve_spend, withdraw).
LEMMA LeaveIsOut ==
    ASSUME TypeOK, NEW to \in Keys, NEW a \in Nat, a > 0, LeaveVault(to, a),
           vault'.total_deposited = vault.total_deposited
    PROVE  E!Out(a)
<1>0. /\ vault.total_deposited \in Nat /\ tokens \in [Keys -> Nat]
      /\ offBook \in Nat /\ Vault \in Keys /\ tokens[Vault] \in Nat
  BY DEF TypeOK, Vaults, U64, Keys
<1>1. /\ Transfer(Vault, to, a) /\ tokens[Vault] >= a
      /\ offBook' = IF to = Vault THEN offBook + a ELSE offBook
  BY DEF LeaveVault, Transfer
<1>2. CASE to = Vault
  <2>1. tokens'[Vault] = tokens[Vault]
    BY <1>0, <1>1, <1>2, TransferEffect
  <2> QED BY <1>0, <1>1, <1>2, <2>1 DEF E!Out
<1>3. CASE to # Vault
  <2>1. tokens'[Vault] = tokens[Vault] - a
    BY <1>0, <1>1, <1>3, TransferEffect
  <2> QED BY <1>0, <1>1, <1>3, <2>1 DEF E!Out
<1> QED BY <1>2, <1>3

\* A ladder payment, by the agent or by the service, is a payment of its own.
LEMMA LadderPays ==
    ASSUME TypeOK, NEW a \in Amounts, NEW k \in Keys,
           spend(k, a) \/ claim(k, a)
    PROVE  E!PayDirect(a)
<1>0. /\ vault \in Vaults /\ a \in Nat
  BY DEF TypeOK
<1>1. /\ a > 0 /\ ~vault.frozen /\ LeaveVault(k, a) /\ pending' = pending
  BY DEF spend, claim, check_and_record_spend
<1>2. /\ vault'.total_spent = vault.total_spent + a
      /\ vault'.total_deposited = vault.total_deposited
      /\ vault'.total_withdrawn = vault.total_withdrawn
      /\ vault'.frozen = vault.frozen
      /\ vault'.pending_count = vault.pending_count
  BY <1>0 DEF spend, claim, Vaults
<1>3. E!Out(a)
  BY <1>0, <1>1, <1>2, LeaveIsOut
<1> QED BY <1>1, <1>2, <1>3 DEF E!PayDirect, E!Pay

\* An approval is the settlement of one open request by a payment.
LEMMA ApprovalPaysRequest ==
    ASSUME TypeOK, RequestsAccounted, NEW p \in pending, approve_spend(p)
    PROVE  /\ E!PayRequest(p.amount, p.nonce)
           /\ p.amount \in U64
<1>0. /\ vault \in Vaults /\ p.amount \in U64 /\ p.amount \in Nat
      /\ p.service \in Keys
  BY DEF TypeOK, PendingSpends, U64
<1>1. /\ p.amount > 0 /\ ~vault.frozen /\ LeaveVault(p.service, p.amount)
      /\ Close(p)
  BY DEF approve_spend
<1>2. /\ vault'.total_spent = vault.total_spent + p.amount
      /\ vault'.total_deposited = vault.total_deposited
      /\ vault'.total_withdrawn = vault.total_withdrawn
      /\ vault'.frozen = vault.frozen
      /\ vault'.pending_count = vault.pending_count
  BY <1>0 DEF approve_spend, Vaults
<1>3. E!Out(p.amount)
  BY <1>0, <1>1, <1>2, LeaveIsOut
<1>4. p.nonce \in Nonces /\ Nonces' = Nonces \ {p.nonce}
  BY <1>1, CloseNonce
<1> QED BY <1>0, <1>1, <1>2, <1>3, <1>4 DEF E!PayRequest, E!Pay, Nonces

\* The steps that move no tokens and touch no counter the escrow sees.
LEMMA Stutters ==
    ASSUME TypeOK,
           \/ AdvanceSlot \/ UNCHANGED vars
           \/ \E args \in Policies : create_vault(args) \/ update_policy(args)
    PROVE  UNCHANGED E!escrow
<1>0. vault \in Vaults
  BY DEF TypeOK
<1>1. /\ tokens' = tokens /\ offBook' = offBook /\ pending' = pending
      /\ vault' = vault \/ vault' = [vault EXCEPT !.last_active_slot = slot]
  BY DEF AdvanceSlot, create_vault, update_policy, vars, program, history
<1>2. /\ vault'.total_spent = vault.total_spent
      /\ vault'.total_deposited = vault.total_deposited
      /\ vault'.total_withdrawn = vault.total_withdrawn
      /\ vault'.frozen = vault.frozen
      /\ vault'.pending_count = vault.pending_count
  BY <1>0, <1>1 DEF Vaults
<1> QED BY <1>1, <1>2 DEF E!escrow

\* Every instruction, and every token transfer past the program, is a step of
\* the escrow or leaves it alone.
LEMMA StepSimulates == Inv /\ [Next]_vars => [E!Next]_(E!escrow)
<1> SUFFICES ASSUME TypeOK, RequestsAccounted, [Next]_vars
             PROVE  E!Next \/ UNCHANGED E!escrow
  BY DEF Inv
<1>0. /\ vault \in Vaults /\ tokens \in [Keys -> Nat] /\ offBook \in Nat
      /\ Owner \in Keys /\ Vault \in Keys /\ KeyHolders \subseteq Keys
      /\ vault.total_deposited \in Nat /\ tokens[Vault] \in Nat
      /\ Amounts \subseteq U64 /\ U64 \subseteq Nat
  BY DEF TypeOK, Keys, KeyHolders, Vaults, U64
<1>1. ASSUME NEW a \in Amounts, deposit(a) PROVE E!PutIn(a)
  <2>1. /\ vault'.total_spent = vault.total_spent
        /\ vault'.total_deposited = vault.total_deposited + a
        /\ vault'.total_withdrawn = vault.total_withdrawn
        /\ vault'.frozen = vault.frozen
        /\ vault'.pending_count = vault.pending_count
    BY <1>0, <1>1 DEF deposit, Vaults
  <2>2. /\ Transfer(Owner, Vault, a) /\ offBook' = offBook
        /\ pending' = pending /\ a \in Nat
    BY <1>0, <1>1 DEF deposit, history
  <2>3. tokens'[Vault] = tokens[Vault] + a
    BY <1>0, <2>2, TransferEffect
  <2> QED BY <1>0, <2>1, <2>2, <2>3 DEF E!PutIn
<1>2. ASSUME NEW a \in Amounts, NEW k \in Keys, withdraw(k, a)
      PROVE  E!TakeOut(a)
  <2>1. /\ vault'.total_spent = vault.total_spent
        /\ vault'.total_deposited = vault.total_deposited
        /\ vault'.total_withdrawn = vault.total_withdrawn + a
        /\ vault'.frozen = vault.frozen
        /\ vault'.pending_count = vault.pending_count
    BY <1>0, <1>2 DEF withdraw, Vaults
  <2>2. /\ a \in Nat /\ a > 0 /\ LeaveVault(k, a) /\ pending' = pending
    BY <1>0, <1>2 DEF withdraw
  <2>3. E!Out(a)
    BY <2>1, <2>2, LeaveIsOut
  <2> QED BY <2>1, <2>2, <2>3 DEF E!TakeOut
<1>3. ASSUME NEW a \in Amounts, NEW k \in Keys, request_spend(k, a) PROVE E!Ask
  <2>1. /\ vault'.total_spent = vault.total_spent
        /\ vault'.total_deposited = vault.total_deposited
        /\ vault'.total_withdrawn = vault.total_withdrawn
        /\ vault'.frozen = vault.frozen /\ ~vault.frozen
        /\ vault'.pending_count = vault.pending_count + 1
    BY <1>0, <1>3 DEF request_spend, Vaults
  <2>2. /\ tokens' = tokens /\ offBook' = offBook
        /\ \E q : q.nonce = vault.pending_count /\ pending' = pending \cup {q}
    <3> DEFINE q == [nonce |-> vault.pending_count, service |-> k,
                     amount |-> a, requested_slot |-> slot]
    <3>1. tokens' = tokens /\ offBook' = offBook /\ pending' = pending \cup {q}
      BY <1>3 DEF request_spend, history
    <3>2. q.nonce = vault.pending_count
      OBVIOUS
    <3> QED BY <3>1, <3>2
  <2>3. Nonces' = Nonces \cup {vault.pending_count}
    BY <2>2 DEF Nonces
  <2> QED BY <2>1, <2>2, <2>3 DEF E!Ask, Nonces
<1>4. ASSUME NEW p \in pending, cancel_spend(p) PROVE E!Drop(p.nonce)
  <2>1. p.nonce \in Nonces /\ Nonces' = Nonces \ {p.nonce}
    BY <1>4, CloseNonce DEF cancel_spend
  <2> QED BY <1>4, <2>1 DEF E!Drop, Nonces, cancel_spend
<1>5. ASSUME freeze_vault \/ unfreeze_vault PROVE E!Toggle
  <2>1. /\ vault'.total_spent = vault.total_spent
        /\ vault'.total_deposited = vault.total_deposited
        /\ vault'.total_withdrawn = vault.total_withdrawn
        /\ vault'.frozen = ~vault.frozen
        /\ vault'.pending_count = vault.pending_count
    BY <1>0, <1>5 DEF freeze_vault, unfreeze_vault, Vaults
  <2> QED BY <1>5, <2>1 DEF E!Toggle, freeze_vault, unfreeze_vault, history
<1>6. ASSUME NEW a \in Amounts, NEW from \in KeyHolders, NEW to \in Keys,
             ExternalTransfer(from, to, a)
      PROVE  E!PutIn(a) \/ UNCHANGED E!escrow
  <2>1. /\ Transfer(from, to, a) /\ from # to /\ from # Vault
        /\ from \in Keys /\ a \in Nat
        /\ offBook' = IF to = Vault THEN offBook + a ELSE offBook
        /\ vault' = vault /\ pending' = pending
    BY <1>0, <1>6 DEF ExternalTransfer, KeyHolders, program
  <2>2. CASE to = Vault
    <3>1. tokens'[Vault] = tokens[Vault] + a
      BY <1>0, <2>1, <2>2, TransferEffect
    <3> QED BY <1>0, <2>1, <2>2, <3>1 DEF E!PutIn
  <2>3. CASE to # Vault
    <3>1. tokens'[Vault] = tokens[Vault]
      BY <1>0, <2>1, <2>3, TransferEffect
    <3> QED BY <2>1, <2>3, <3>1 DEF E!escrow
  <2> QED BY <2>2, <2>3
<1>7. CASE \E a \in Amounts : deposit(a)
  BY <1>0, <1>1, <1>7 DEF E!Next
<1>8. CASE \E a \in Amounts, k \in Keys : withdraw(k, a)
  BY <1>0, <1>2, <1>8 DEF E!Next
<1>9. CASE \E p \in pending : approve_spend(p)
  <2>1. PICK p \in pending : approve_spend(p)
    BY <1>9
  <2>2. /\ E!PayRequest(p.amount, p.nonce) /\ p.amount \in U64
        /\ p.nonce \in Nonces
    BY <2>1, ApprovalPaysRequest DEF Nonces
  <2> QED BY <2>2 DEF E!Next, Nonces
<1>10. CASE \E p \in pending : cancel_spend(p)
  <2>1. PICK p \in pending : cancel_spend(p)
    BY <1>10
  <2>2. E!Drop(p.nonce) /\ p.nonce \in Nonces
    BY <1>4, <2>1 DEF Nonces
  <2> QED BY <2>2 DEF E!Next, Nonces
<1>11. CASE freeze_vault \/ unfreeze_vault
  BY <1>5, <1>11 DEF E!Next
<1>12. CASE \E a \in Amounts, k \in Keys : spend(k, a)
  BY <1>0, <1>12, LadderPays DEF E!Next
<1>13. CASE \E a \in Amounts, k \in Keys : request_spend(k, a)
  BY <1>3, <1>13 DEF E!Next
<1>14. CASE \E a \in Amounts, k \in KeyHolders : claim(k, a)
  BY <1>0, <1>14, LadderPays DEF E!Next
<1>15. CASE \E a \in Amounts, from \in KeyHolders, to \in Keys :
               ExternalTransfer(from, to, a)
  BY <1>0, <1>6, <1>15 DEF E!Next
<1>16. CASE \/ AdvanceSlot \/ UNCHANGED vars
            \/ \E args \in Policies : create_vault(args) \/ update_policy(args)
  BY <1>16, Stutters
<1> QED BY <1>7, <1>8, <1>9, <1>10, <1>11, <1>12, <1>13, <1>14, <1>15, <1>16
        DEF Next, OwnerStep, AgentStep, ServiceStep, Environment

\* The empty vault is the empty escrow.
LEMMA InitSimulates == Init => E!Init
BY DEF Init, E!Init, Keys

\* The credit_vault program keeps the promise of the escrow: never overdrawn,
\* nothing paid while frozen, no request settled twice.
THEOREM VaultImplementsEscrow == Spec => ImplementsEscrow
BY InitSimulates, StepSimulates, Invariance, PTL
DEF Spec, ImplementsEscrow, E!Spec

----------------------------------------------------------------------------
(* The console's figures. *)

\* Spending that has reached the ceiling is at least 90 percent of it, rounded
\* as VaultRow rounds.
LEMMA ExhaustedIsDanger ==
    ASSUME NEW s \in Nat, NEW l \in Nat, l > 0, s >= l
    PROVE  (200 * s + l) \div (2 * l) >= 90
<1> DEFINE n == 200 * s + l  d == 2 * l  q == n \div d
<1>1. n \in Nat /\ d \in Nat /\ d > 0 /\ n > 100 * d
  OBVIOUS
<1> HIDE DEF n, d
<1>2. q \in Int /\ n < d * (q + 1)
  BY <1>1
<1>3. ASSUME q < 90 PROVE FALSE
  <2>1. d * (q + 1) <= d * 90
    BY <1>1, <1>2, <1>3
  <2> QED BY <1>1, <1>2, <2>1
<1> QED BY <1>2, <1>3 DEF n, d

\* What the console shows bounds what the ladder grants, in every reachable
\* state: see ShownBudgetBinds.
THEOREM ShownBudgetIsTrue == Spec => []ShownBudgetBinds
<1>1. ASSUME Inv PROVE ShownBudgetBinds
  <2>0. /\ vault.total_spent \in Nat /\ vault.total_deposited \in Nat
        /\ vault.total_withdrawn \in Nat /\ vault.total_claimed \in Nat
        /\ vault.frozen \in BOOLEAN
        /\ policy.lifetime_limit \in Nat /\ policy.hourly_limit \in Nat
        /\ WindowSpent \in Nat /\ tokens[Vault] \in Nat /\ offBook \in Nat
        /\ Amounts \subseteq Nat
    BY <1>1 DEF Inv, TypeOK, Vaults, SpendPolicies, U64, WindowSpent, Keys
  <2>1. ASSUME NEW a \in Amounts \ {0}, policy.lifetime_limit > 0
        PROVE  Within(vault.total_spent + a, policy.lifetime_limit)
                 <=> a <= VaultKpis(vault, policy).remaining
    BY <2>0, <2>1 DEF Within, VaultKpis, AtLeastZero
  <2>2. ASSUME NEW a \in Amounts \ {0}, WithinLimits(a), policy.hourly_limit > 0
        PROVE  a <= PreviewPanel(vault, policy).hourlyHeadroom
    <3>1. WindowSpent + a <= policy.hourly_limit
      BY <2>2 DEF WithinLimits
    <3>2. PreviewPanel(vault, policy).hourlyHeadroom = policy.hourly_limit
      BY DEF PreviewPanel
    <3> QED BY <2>0, <3>1, <3>2
  <2>3. ASSUME NEW a \in Amounts \ {0}, WithinLimits(a), policy.lifetime_limit > 0
        PROVE  \/ a <= PreviewPanel(vault, policy).afterCeiling
               \/ a > vaultBalance(vault)
    <3> DEFINE left == AtLeastZero(policy.lifetime_limit - vault.total_spent)
    <3>1. vaultBalance(vault) \in Int
      BY <2>0 DEF vaultBalance
    <3>2. a \in Nat /\ left \in Nat /\ a <= left
      BY <2>0, <2>3 DEF WithinLimits, Within, AtLeastZero
    <3>3. PreviewPanel(vault, policy).afterCeiling
            = IF vaultBalance(vault) > left THEN left ELSE vaultBalance(vault)
      BY DEF PreviewPanel
    <3> HIDE DEF left
    <3> QED BY <3>1, <3>2, <3>3
  <2>4. ASSUME policy.lifetime_limit > 0, vault.total_spent >= policy.lifetime_limit
        PROVE  StatusBadge(vault, policy) \in {"frozen", "danger"}
    <3>1. VaultRow(vault, policy) >= 90
      BY <2>0, <2>4, ExhaustedIsDanger DEF VaultRow
    <3>2. VaultRow(vault, policy) \notin 70..89
      BY <3>1
    <3>3. BudgetEnvelope(vault, policy) = "danger"
      BY <3>1, <3>2 DEF BudgetEnvelope
    <3> QED BY <2>0, <3>3 DEF StatusBadge
  <2>5. ASSUME "empty" \in {StatusBadge(vault, policy), LinkedVaults(vault)}
        PROVE  tokens[Vault] <= offBook
    <3>1. BudgetEnvelope(vault, policy) # "empty"
      BY DEF BudgetEnvelope
    <3>2. ~(vaultBalance(vault) > 0)
      BY <2>0, <2>5, <3>1 DEF StatusBadge, LinkedVaults
    <3>3. tokens[Vault] + vault.total_withdrawn + vault.total_spent
            = vault.total_deposited + offBook
      BY <1>1 DEF Inv, Conservation
    <3> QED BY <2>0, <3>2, <3>3 DEF vaultBalance
  <2> QED BY <2>1, <2>2, <2>3, <2>4, <2>5 DEF ShownBudgetBinds
<1> QED BY <1>1, Invariance, PTL
============================================================================
