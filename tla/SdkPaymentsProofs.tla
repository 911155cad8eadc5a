------------------------- MODULE SdkPaymentsProofs --------------------------
(***************************************************************************)
(* Proofs about the SDK's payment path (SdkPayments), for every number of  *)
(* processes with the agent's key, calls, transactions, owner's acts,      *)
(* recorder restarts and slots.                                            *)
(*                                                                         *)
(* The chain in SdkPayments is CreditVault, so its type correctness is not *)
(* proved again: the theorems of CreditVaultProofs are instantiated.  Each *)
(* step of Next is then reduced to what it does to the transactions        *)
(* (TxFrame: what was sent stays as sent, and an outcome is final), to the *)
(* requests on chain (VaultMoves: a request once made stays pending or     *)
(* settled), and to the one call that moves (CallMoves).  What a call      *)
(* relies on while it waits survives the steps of all others inside these  *)
(* frames.  The last part shows that the chain of the path takes only      *)
(* steps of the program, so what the program promises holds here as well.  *)
(***************************************************************************)
EXTENDS SdkPayments, DataTheorems

\* The theorems about the program, for the constants and the state of this
\* module.
P == INSTANCE CreditVaultProofs

\* The program's types are the same under its two instances.
LEMMA SameSets ==
    /\ CV!Keys = P!Keys /\ CV!U64 = P!U64 /\ CV!Slots = P!Slots
    /\ CV!Vaults = P!Vaults /\ CV!SpendPolicies = P!SpendPolicies
    /\ CV!PendingSpends = P!PendingSpends
BY DEF CV!Keys, P!Keys, CV!KeyHolders, P!KeyHolders, CV!U64, P!U64, CV!Slots,
       P!Slots, CV!Vaults, P!Vaults, CV!SpendPolicies, P!SpendPolicies,
       CV!PendingSpends, P!PendingSpends

\* So is its type invariant.
LEMMA SameTypes == CV!TypeOK <=> P!TypeOK
BY SameSets DEF CV!TypeOK, P!TypeOK

\* A step of the credit_vault program keeps its state typed.
LEMMA ProgramTyped ==
    ASSUME CV!TypeOK, P!Next PROVE CV!TypeOK'
<1>1. Policies \subseteq P!PolicyArgs
  BY PolicyAssumption, SameSets
     DEF CV!PolicyArgs, P!PolicyArgs, CV!Whitelists, P!Whitelists, CV!Cardinality, P!Cardinality
<1>2. P!TypeOK
  BY SameTypes
<1>3. P!TypeOK'
  BY <1>1, <1>2, ProgramAssumption, P!NextTypeOK
<1> QED BY <1>3 DEF CV!TypeOK, P!TypeOK, CV!Keys, P!Keys, CV!KeyHolders, P!KeyHolders, CV!U64, P!U64, CV!Slots,
       P!Slots, CV!Vaults, P!Vaults, CV!SpendPolicies, P!SpendPolicies,
       CV!PendingSpends, P!PendingSpends

\* A spend that lands is a step of the program.
LEMMA SpendIs ==
    ASSUME NEW k \in CV!Keys, NEW a \in Amounts, CV!spend(k, a) PROVE P!Next
<1>1. P!spend(k, a)
  BY DEF CV!spend, P!spend, CV!check_and_record_spend, P!check_and_record_spend,
         CV!LeaveVault, P!LeaveVault, CV!Transfer, P!Transfer,
         CV!CheckWhitelist, P!CheckWhitelist, CV!AnySet, P!AnySet,
         CV!WithinLimits, P!WithinLimits, CV!Within, P!Within,
         CV!WindowSpent, P!WindowSpent, CV!WindowStart, P!WindowStart,
         CV!WindowElapsed, P!WindowElapsed, CV!CheckedAdd, P!CheckedAdd
<1> QED BY <1>1, SameSets DEF P!Next, P!AgentStep

\* A request that lands is a step of the program.
LEMMA RequestIs ==
    ASSUME NEW k \in CV!Keys, NEW a \in Amounts, CV!request_spend(k, a) PROVE P!Next
<1>1. P!request_spend(k, a)
  BY DEF CV!request_spend, P!request_spend, CV!CheckedAdd, P!CheckedAdd,
         CV!history, P!history
<1> QED BY <1>1, SameSets DEF P!Next, P!AgentStep

\* What the owner does meanwhile is a step of the program.
LEMMA OwnerIs ==
    ASSUME CV!TypeOK, OwnerActs PROVE P!Next
<1> USE DEF P!Next, P!OwnerStep, P!Environment
<1>1. CASE CV!freeze_vault
  <2>1. P!freeze_vault
    BY <1>1 DEF CV!freeze_vault, P!freeze_vault, CV!history, P!history
  <2> QED BY <2>1
<1>2. CASE CV!unfreeze_vault
  <2>1. P!unfreeze_vault
    BY <1>2 DEF CV!unfreeze_vault, P!unfreeze_vault, CV!history, P!history
  <2> QED BY <2>1
<1>3. ASSUME NEW a \in Policies, CV!update_policy(a) PROVE P!Next
  <2>1. P!update_policy(a)
    BY <1>3 DEF CV!update_policy, P!update_policy, CV!NoPayments, P!NoPayments,
                CV!Slots, P!Slots
  <2> QED BY <2>1
<1>4. ASSUME NEW p \in pending, CV!approve_spend(p) PROVE P!Next
  <2>1. P!approve_spend(p)
    BY <1>4 DEF CV!approve_spend, P!approve_spend, CV!CheckWhitelist,
                P!CheckWhitelist, CV!AnySet, P!AnySet, CV!LeaveVault, P!LeaveVault,
                CV!Transfer, P!Transfer, CV!CheckedAdd, P!CheckedAdd,
                CV!Close, P!Close
  <2> QED BY <2>1
<1>5. ASSUME NEW p \in pending, CV!cancel_spend(p) PROVE P!Next
  <2>1. P!cancel_spend(p)
    BY <1>5 DEF CV!cancel_spend, P!cancel_spend, CV!Close, P!Close
  <2> QED BY <2>1
<1>6. CASE CV!AdvanceSlot
  <2>1. P!AdvanceSlot
    BY <1>6 DEF CV!AdvanceSlot, P!AdvanceSlot, CV!program, P!program,
                CV!history, P!history
  <2> QED BY <2>1
<1> QED BY <1>1, <1>2, <1>3, <1>4, <1>5, <1>6 DEF OwnerActs

\* A ladder answers ok when no rung refuses, and otherwise with the error of a
\* rung that does (the early returns of check_and_record_spend, guardSpend).
LEMMA FirstRefusalIs ==
    ASSUME NEW n \in Nat, NEW checks, DOMAIN checks = 1..n,
           \A i \in 1..n : checks[i][1] \in BOOLEAN /\ checks[i][2] # "ok"
    PROVE  \/ FirstRefusal(checks) = "ok" /\ \A i \in 1..n : ~checks[i][1]
           \/ \E i \in 1..n : checks[i][1] /\ FirstRefusal(checks) = checks[i][2]
<1> DEFINE first == {i \in DOMAIN checks : /\ checks[i][1]
                                           /\ \A j \in 1..(i - 1) : ~checks[j][1]}
           S == {i \in 1..n : checks[i][1]}
<1>1. FirstRefusal(checks) = IF first = {} THEN "ok"
                             ELSE checks[CHOOSE i \in first : TRUE][2]
  BY DEF FirstRefusal
<1>2. CASE first # {}
  <2> DEFINE i == CHOOSE j \in first : TRUE
  <2>1. i \in first
    BY <1>2
  <2> HIDE DEF i
  <2>2. i \in 1..n /\ checks[i][1]
    BY <2>1
  <2>3. FirstRefusal(checks) = checks[i][2]
    BY <1>1, <1>2 DEF i
  <2> QED BY <2>2, <2>3
<1>3. CASE first = {}
  <2>1. S = {}
    <3> SUFFICES ASSUME S # {} PROVE FALSE
      OBVIOUS
    <3> DEFINE m == Min(S)
    <3>0. S \in SUBSET (1..n)
      OBVIOUS
    <3>1. m \in S /\ \A x \in S : m <= x
      <4> HIDE DEF S
      <4> QED BY <3>0, MinIn
    <3> HIDE DEF m
    <3>2. m \in 1..n /\ checks[m][1]
      BY <3>1
    <3>3. ASSUME NEW j \in 1..(m - 1) PROVE ~checks[j][1]
      <4>1. j \in 1..n /\ ~(m <= j)
        BY <3>2
      <4> QED BY <3>1, <4>1
    <3>4. m \in first
      BY <3>2, <3>3
    <3> QED BY <1>3, <3>4
  <2> QED BY <1>1, <1>3, <2>1
<1> QED BY <1>2, <1>3

\* The typed errors of the spend path.
LEMMA VaultCodes ==
    DOMAIN VaultCode = {"ZeroAmount", "Frozen", "NotWhitelisted", "PerTx", "Hourly",
                        "Lifetime"}
BY DEF VaultCode

\* The types of the fields that the ladders read.
LEMMA ProgramFacts ==
    ASSUME CV!TypeOK
    PROVE  /\ vault.frozen \in BOOLEAN /\ vault.total_spent \in Nat
           /\ vault.pending_count \in Nat
           /\ policy.per_tx_limit \in Nat /\ policy.hourly_limit \in Nat
           /\ policy.lifetime_limit \in Nat /\ policy.window_spent \in Nat
           /\ policy.window_start \in Nat /\ slot \in Nat
           /\ CV!WindowSpent \in Nat /\ SlotsPerHour \in Nat
           /\ \A a \in Amounts : a \in Nat
           /\ \A k \in CV!Keys : tokens[k] \in Nat
           /\ Services \subseteq CV!Keys /\ Vault \in CV!Keys
<1>1. /\ vault \in CV!Vaults /\ policy \in CV!SpendPolicies /\ slot \in CV!Slots
      /\ tokens \in [CV!Keys -> Nat]
  BY DEF CV!TypeOK
<1>2. vault.frozen \in BOOLEAN /\ vault.total_spent \in Nat /\ vault.pending_count \in Nat
  BY <1>1, ProgramAssumption DEF CV!Vaults, CV!U64
<1>3. /\ policy.per_tx_limit \in Nat /\ policy.hourly_limit \in Nat
      /\ policy.lifetime_limit \in Nat /\ policy.window_spent \in Nat
      /\ policy.window_start \in Nat /\ slot \in Nat
  BY <1>1, ProgramAssumption DEF CV!SpendPolicies, CV!U64, CV!Slots
<1>4. CV!WindowSpent \in Nat
  BY <1>3 DEF CV!WindowSpent
<1>5. Services \subseteq CV!Keys /\ Vault \in CV!Keys
  BY DEF CV!Keys, CV!KeyHolders
<1> QED BY <1>1, <1>2, <1>3, <1>4, <1>5, ProgramAssumption

\* The program's ladder answers ok or one of the typed errors.
LEMMA LadderIn ==
    ASSUME CV!TypeOK, NEW to, NEW a \in Nat
    PROVE  Ladder(to, a) \in DOMAIN VaultCode \cup {"ok"}
<1> DEFINE c1 == vault.frozen
           c2 == a <= 0
           c3 == ~CV!CheckWhitelist(policy.whitelist, to)
           c4 == ~CV!Within(a, policy.per_tx_limit)
           c5 == policy.hourly_limit > 0 /\ CV!WindowSpent + a > policy.hourly_limit
           c6 == ~CV!Within(vault.total_spent + a, policy.lifetime_limit)
           checks == <<<<c1, "Frozen">>, <<c2, "ZeroAmount">>,
                       <<c3, "NotWhitelisted">>, <<c4, "PerTx">>, <<c5, "Hourly">>,
                       <<c6, "Lifetime">>>>
<1>1. Ladder(to, a) = FirstRefusal(checks)
  BY DEF Ladder
<1>2. /\ c1 \in BOOLEAN /\ c2 \in BOOLEAN /\ c3 \in BOOLEAN /\ c4 \in BOOLEAN
      /\ c5 \in BOOLEAN /\ c6 \in BOOLEAN
  BY ProgramFacts
<1> HIDE DEF c1, c2, c3, c4, c5, c6
<1>3. DOMAIN checks = 1..6
  OBVIOUS
<1>4. \A i \in 1..6 : /\ checks[i][1] \in BOOLEAN /\ checks[i][2] # "ok"
                      /\ checks[i][2] \in DOMAIN VaultCode
  BY <1>2, VaultCodes
<1> HIDE DEF checks
<1>5. \/ FirstRefusal(checks) = "ok"
      \/ \E i \in 1..6 : FirstRefusal(checks) = checks[i][2]
  BY <1>3, <1>4, FirstRefusalIs
<1> QED BY <1>1, <1>4, <1>5

\* guardSpend on the decoded state and check_and_record_spend on the raw one
\* give the same answer: dropping the padding of the whitelist, and asking for a
\* limit above zero before comparing, change nothing for a real destination.
LEMMA GuardAgrees ==
    ASSUME CV!TypeOK, NEW to, to # DefaultKey, NEW a \in Nat
    PROVE  guardSpend(vault, decodeSpendPolicy(policy), to, a, slot) = Ladder(to, a)
<1> DEFINE p == decodeSpendPolicy(policy)
           spent == IF slot - p.window_start >= SlotsPerHour THEN 0 ELSE p.window_spent
<1>0. policy \in CV!SpendPolicies
  BY DEF CV!TypeOK
<1>1. /\ p.whitelist = policy.whitelist \ {DefaultKey}
      /\ p.per_tx_limit = policy.per_tx_limit /\ p.hourly_limit = policy.hourly_limit
      /\ p.lifetime_limit = policy.lifetime_limit
      /\ p.window_start = policy.window_start /\ p.window_spent = policy.window_spent
  BY <1>0 DEF decodeSpendPolicy, CV!SpendPolicies
<1>g. guardSpend(vault, p, to, a, slot)
        = FirstRefusal(
          <<<<vault.frozen, "Frozen">>,
            <<a <= 0, "ZeroAmount">>,
            <<p.whitelist # {} /\ to \notin p.whitelist, "NotWhitelisted">>,
            <<p.per_tx_limit > 0 /\ a > p.per_tx_limit, "PerTx">>,
            <<p.hourly_limit > 0 /\ spent + a > p.hourly_limit, "Hourly">>,
            <<p.lifetime_limit > 0 /\ vault.total_spent + a > p.lifetime_limit,
              "Lifetime">>>>)
  BY DEF guardSpend
<1> HIDE DEF p
<1>2. (p.whitelist # {} /\ to \notin p.whitelist)
      = ~CV!CheckWhitelist(policy.whitelist, to)
  BY <1>1 DEF CV!CheckWhitelist, CV!AnySet
<1>3. (p.per_tx_limit > 0 /\ a > p.per_tx_limit) = ~CV!Within(a, policy.per_tx_limit)
  BY <1>1, ProgramFacts DEF CV!Within
<1>4. spent = CV!WindowSpent
  BY <1>1 DEF CV!WindowSpent, CV!WindowElapsed
<1> HIDE DEF spent
<1>5. (p.hourly_limit > 0 /\ spent + a > p.hourly_limit)
      = (policy.hourly_limit > 0 /\ CV!WindowSpent + a > policy.hourly_limit)
  BY <1>1, <1>4
<1>6. (p.lifetime_limit > 0 /\ vault.total_spent + a > p.lifetime_limit)
      = ~CV!Within(vault.total_spent + a, policy.lifetime_limit)
  BY <1>1, ProgramFacts DEF CV!Within
<1> QED BY <1>g, <1>2, <1>3, <1>5, <1>6, Zenon DEF Ladder, p

\* A request that is not refused was sent for the count that is on chain.
LEMMA RequestRefusal ==
    ASSUME CV!TypeOK, NEW t \in Transactions, t.op = "request"
    PROVE  \/ Refusal(t) = "ok" /\ t.nonce = vault.pending_count
           \/ Refusal(t) \in Refusals
<1> DEFINE c1 == t.nonce # vault.pending_count
           c2 == t.amount <= 0
           c3 == vault.frozen
           checks == <<<<c1, "Seeds">>, <<c2, "ZeroAmount">>, <<c3, "Frozen">>>>
<1>1. Refusal(t) = FirstRefusal(checks)
  BY DEF Refusal
<1>2. c1 \in BOOLEAN /\ c2 \in BOOLEAN /\ c3 \in BOOLEAN
  BY ProgramFacts
<1>c. ~c1 => t.nonce = vault.pending_count
  OBVIOUS
<1> HIDE DEF c1, c2, c3
<1>3. DOMAIN checks = 1..3 /\ checks[1][1] = c1
  OBVIOUS
<1>4. \A i \in 1..3 : /\ checks[i][1] \in BOOLEAN /\ checks[i][2] # "ok"
                      /\ checks[i][2] \in Refusals
  BY <1>2, VaultCodes DEF Refusals
<1> HIDE DEF checks
<1>5. \/ FirstRefusal(checks) = "ok" /\ \A i \in 1..3 : ~checks[i][1]
      \/ \E i \in 1..3 : checks[i][1] /\ FirstRefusal(checks) = checks[i][2]
  BY <1>3, <1>4, FirstRefusalIs
<1> QED BY <1>1, <1>c, <1>3, <1>4, <1>5

\* An attestation that is not refused uses a receipt for the first time.
LEMMA RecordRefusal ==
    ASSUME TypeOK, NEW t \in Transactions, t.op = "record"
    PROVE  \/ Refusal(t) = "ok" /\ t.receipt \notin receipts
           \/ Refusal(t) \in Refusals
<1> DEFINE c1 == t.receipt \in receipts
           c2 == ~active
           checks == <<<<c1, "AlreadyRecorded">>, <<c2, "ServiceInactive">>>>
<1>1. Refusal(t) = FirstRefusal(checks)
  BY DEF Refusal
<1>2. c1 \in BOOLEAN /\ c2 \in BOOLEAN
  BY DEF TypeOK
<1>c. ~c1 => t.receipt \notin receipts
  OBVIOUS
<1> HIDE DEF c1, c2
<1>3. DOMAIN checks = 1..2 /\ checks[1][1] = c1
  OBVIOUS
<1>4. \A i \in 1..2 : /\ checks[i][1] \in BOOLEAN /\ checks[i][2] # "ok"
                      /\ checks[i][2] \in Refusals
  BY <1>2 DEF Refusals
<1> HIDE DEF checks
<1>5. \/ FirstRefusal(checks) = "ok" /\ \A i \in 1..2 : ~checks[i][1]
      \/ \E i \in 1..2 : checks[i][1] /\ FirstRefusal(checks) = checks[i][2]
  BY <1>3, <1>4, FirstRefusalIs
<1> QED BY <1>1, <1>c, <1>3, <1>4, <1>5

\* A payment that is not refused uses its receipt for the first time.
LEMMA PayRefusal ==
    ASSUME TypeOK, NEW t \in Transactions, t.op \in {"spend", "pay"}
    PROVE  \/ Refusal(t) = "ok" /\ (t.op = "pay" => t.receipt \notin receipts)
           \/ Refusal(t) \in Refusals
<1> DEFINE l == Ladder(t.to, t.amount)
           c1 == l # "ok"
           c2 == tokens[Vault] < t.amount
           c3 == t.op = "pay" /\ t.receipt \in receipts
           c4 == t.op = "pay" /\ ~active
           checks == <<<<c1, l>>, <<c2, "Funds">>, <<c3, "AlreadyRecorded">>,
                       <<c4, "ServiceInactive">>>>
<1>0. t.amount \in Nat /\ CV!TypeOK
  BY ProgramFacts DEF Transactions, TypeOK
<1>l. l \in DOMAIN VaultCode \cup {"ok"}
  BY <1>0, LadderIn
<1>1. Refusal(t) = FirstRefusal(checks)
  BY DEF Refusal
<1>2. c1 \in BOOLEAN /\ c2 \in BOOLEAN /\ c3 \in BOOLEAN /\ c4 \in BOOLEAN
  OBVIOUS
<1>c. /\ ~c3 => (t.op = "pay" => t.receipt \notin receipts)
      /\ c1 = (l # "ok")
  OBVIOUS
<1> HIDE DEF c1, c2, c3, c4, l
<1>4. CASE l = "ok"
  <2> DEFINE rest == <<<<c1, "Frozen">>, <<c2, "Funds">>, <<c3, "AlreadyRecorded">>,
                       <<c4, "ServiceInactive">>>>
  <2>0. FirstRefusal(checks) = FirstRefusal(rest)
    <3>1. c1 = FALSE
      BY <1>c, <1>2, <1>4
    <3>2. DOMAIN checks = 1..4 /\ DOMAIN rest = 1..4
      OBVIOUS
    <3>3. \A i \in 1..4 : checks[i][1] = rest[i][1]
      OBVIOUS
    <3>4. \A i \in 1..4 : checks[i][1] => checks[i][2] = rest[i][2]
      BY <3>1
    <3> HIDE DEF checks, rest
    <3> DEFINE A == {i \in DOMAIN checks : /\ checks[i][1]
                                           /\ \A j \in 1..(i - 1) : ~checks[j][1]}
               B == {i \in DOMAIN rest : /\ rest[i][1]
                                         /\ \A j \in 1..(i - 1) : ~rest[j][1]}
    <3>5. A = B
      BY <3>2, <3>3
    <3>6. A # {} => (CHOOSE i \in A : TRUE) \in A
      OBVIOUS
    <3>7. A # {} => checks[CHOOSE i \in A : TRUE][2] = rest[CHOOSE i \in A : TRUE][2]
      BY <3>2, <3>4, <3>6
    <3> QED BY <3>5, <3>7 DEF FirstRefusal
  <2>3. DOMAIN rest = 1..4 /\ rest[3][1] = c3
    OBVIOUS
  <2>4. \A i \in 1..4 : /\ rest[i][1] \in BOOLEAN /\ rest[i][2] # "ok"
                        /\ rest[i][2] \in Refusals
    BY <1>2, VaultCodes DEF Refusals
  <2> HIDE DEF rest, checks
  <2>5. \/ FirstRefusal(rest) = "ok" /\ \A i \in 1..4 : ~rest[i][1]
        \/ \E i \in 1..4 : rest[i][1] /\ FirstRefusal(rest) = rest[i][2]
    BY <2>3, <2>4, FirstRefusalIs
  <2> QED BY <1>1, <1>c, <2>0, <2>3, <2>4, <2>5
<1>5. CASE l # "ok"
  <2>3. DOMAIN checks = 1..4 /\ checks[3][1] = c3
    OBVIOUS
  <2>4. \A i \in 1..4 : /\ checks[i][1] \in BOOLEAN /\ checks[i][2] # "ok"
                        /\ checks[i][2] \in Refusals
    BY <1>2, <1>l, <1>5, VaultCodes DEF Refusals
  <2> HIDE DEF checks
  <2>5. \/ FirstRefusal(checks) = "ok" /\ \A i \in 1..4 : ~checks[i][1]
        \/ \E i \in 1..4 : checks[i][1] /\ FirstRefusal(checks) = checks[i][2]
    BY <2>3, <2>4, FirstRefusalIs
  <2> QED BY <1>1, <1>c, <2>3, <2>4, <2>5
<1> QED BY <1>4, <1>5

-----------------------------------------------------------------------------

\* The PendingSpend of nonce n exists with amount a, or has been settled.
Owned(n, a) ==
    /\ n < vault.pending_count
    /\ n \in settled \/ \E p \in pending : p.nonce = n /\ p.amount = a

\* What the chain may do to the vault: it stays typed, and a request that was
\* made stays owned.
VaultMoves ==
    /\ CV!TypeOK'
    /\ \A n \in Nat, a \in Amounts : Owned(n, a) => Owned(n, a)'

\* A step that leaves the vault alone.
LEMMA SameVault ==
    ASSUME CV!TypeOK, UNCHANGED vaultVars PROVE VaultMoves
<1>1. CV!TypeOK'
  BY DEF vaultVars, CV!TypeOK
<1>2. \A n, a : Owned(n, a) => Owned(n, a)'
  BY DEF vaultVars, Owned
<1> QED BY <1>1, <1>2 DEF VaultMoves

\* Requests stay owned when the count never falls and what leaves pending is
\* settled.
LEMMA OwnedKept ==
    ASSUME CV!TypeOK, CV!TypeOK', vault'.pending_count >= vault.pending_count,
           settled \subseteq settled',
           \A p \in pending : p \in pending' \/ p.nonce \in settled'
    PROVE  VaultMoves
<1>1. vault.pending_count \in Nat /\ vault'.pending_count \in Nat
  BY ProgramAssumption DEF CV!TypeOK, CV!Vaults, CV!U64
<1> QED BY <1>1 DEF VaultMoves, Owned

\* spend keeps the requests.
LEMMA SpendMoves ==
    ASSUME CV!TypeOK, NEW k \in Services, NEW a \in Amounts, CV!spend(k, a)
    PROVE  VaultMoves
<1>1. CV!TypeOK'
  BY ProgramFacts, SpendIs, ProgramTyped
<1>2. vault \in CV!Vaults /\ vault.pending_count \in Nat
  BY ProgramFacts DEF CV!TypeOK
<1>3. vault'.pending_count = vault.pending_count
  BY <1>2 DEF CV!spend, CV!Vaults
<1>4. pending' = pending /\ settled' = settled
  BY DEF CV!spend
<1> QED BY <1>1, <1>2, <1>3, <1>4, OwnedKept

\* request_spend keeps the earlier requests and opens one at the count.
LEMMA RequestMoves ==
    ASSUME CV!TypeOK, NEW k \in Services, NEW a \in Amounts,
           CV!request_spend(k, a)
    PROVE  /\ VaultMoves
           /\ \A n : n = vault.pending_count => Owned(n, a)'
<1>1. CV!TypeOK'
  BY ProgramFacts, RequestIs, ProgramTyped
<1>2. vault \in CV!Vaults /\ vault.pending_count \in Nat
  BY ProgramFacts DEF CV!TypeOK
<1>3. vault'.pending_count = vault.pending_count + 1
  BY <1>2 DEF CV!request_spend, CV!Vaults
<1>4. settled' = settled /\ pending \subseteq pending'
  BY DEF CV!request_spend, CV!history
<1>5. VaultMoves
  BY <1>1, <1>2, <1>3, <1>4, OwnedKept
<1>6. \E p \in pending' : p.nonce = vault.pending_count /\ p.amount = a
  <2> DEFINE p == [nonce |-> vault.pending_count, service |-> k,
                   amount |-> a, requested_slot |-> slot]
  <2>1. p \in pending'
    BY DEF CV!request_spend
  <2> QED BY <2>1
<1> QED BY <1>2, <1>3, <1>5, <1>6 DEF Owned

\* approve_spend and cancel_spend settle what they close; the owner's other
\* instructions do not touch the requests.
LEMMA OwnerMoves ==
    ASSUME CV!TypeOK, OwnerActs PROVE VaultMoves
<1>1. CV!TypeOK'
  BY OwnerIs, ProgramTyped
<1>2. vault \in CV!Vaults /\ vault.pending_count \in Nat
  BY ProgramFacts DEF CV!TypeOK
<1>3. CASE CV!freeze_vault \/ CV!unfreeze_vault
  <2>1. vault'.pending_count = vault.pending_count
    BY <1>2, <1>3 DEF CV!freeze_vault, CV!unfreeze_vault, CV!Vaults
  <2>2. pending' = pending /\ settled' = settled
    BY <1>3 DEF CV!freeze_vault, CV!unfreeze_vault, CV!history
  <2> QED BY <1>1, <1>2, <2>1, <2>2, OwnedKept
<1>4. ASSUME NEW a \in Policies, CV!update_policy(a) PROVE VaultMoves
  <2>1. vault' = vault /\ pending' = pending /\ settled' = settled
    BY <1>4 DEF CV!update_policy
  <2> QED BY <1>1, <1>2, <2>1, OwnedKept
<1>5. ASSUME NEW p \in pending, CV!approve_spend(p) PROVE VaultMoves
  <2>1. vault'.pending_count = vault.pending_count
    BY <1>2, <1>5 DEF CV!approve_spend, CV!Vaults
  <2>2. pending' = pending \ {p} /\ settled' = settled \cup {p.nonce}
    BY <1>5 DEF CV!approve_spend, CV!Close
  <2> QED BY <1>1, <1>2, <2>1, <2>2, OwnedKept
<1>6. ASSUME NEW p \in pending, CV!cancel_spend(p) PROVE VaultMoves
  <2>1. vault' = vault /\ pending' = pending \ {p} /\ settled' = settled \cup {p.nonce}
    BY <1>6 DEF CV!cancel_spend, CV!Close
  <2> QED BY <1>1, <1>2, <2>1, OwnedKept
<1>7. CASE CV!AdvanceSlot
  <2>1. vault' = vault /\ pending' = pending /\ settled' = settled
    BY <1>7 DEF CV!AdvanceSlot, CV!program, CV!history
  <2> QED BY <1>1, <1>2, <2>1, OwnedKept
<1> QED BY <1>3, <1>4, <1>5, <1>6, <1>7 DEF OwnerActs

-----------------------------------------------------------------------------

\* What a transaction says is so: an attestation carries the receipt of the
\* spend it is about, a payment named by its order carries that receipt, and
\* one that landed left its receipt or its PendingSpend on chain.
TxTrue(i) ==
    /\ txs[i].op = "record" => /\ txs[i].nonce \in DOMAIN txs
                               /\ txs[i].receipt = <<"sig", txs[i].nonce>>
    /\ txs[i].op = "pay" /\ txs[i].nonce = 1 => txs[i].receipt = <<"given">>
    /\ txs[i].status = "ok" /\ txs[i].op = "pay" => txs[i].receipt \in receipts
    /\ txs[i].status = "ok" /\ txs[i].op = "request"
       => Owned(txs[i].nonce, txs[i].amount)

\* Two payments that landed have different receipts, and two requests that
\* landed different nonces.
TxsApart ==
    \A i, j \in DOMAIN txs :
       (/\ i # j /\ txs[i].status = "ok" /\ txs[j].status = "ok"
        /\ txs[i].op = txs[j].op) =>
          /\ txs[i].op = "pay" => txs[i].receipt # txs[j].receipt
          /\ txs[i].op = "request" => txs[i].nonce # txs[j].nonce

\* An attested spend has its receipt on chain, and is attested once.
RecordsTrue ==
    /\ \A r \in DOMAIN records :
          records[r].by = "record" => <<"sig", records[r].spend>> \in receipts
    /\ \A r, q \in DOMAIN records :
          (records[r].by = "record" /\ records[q].by = "record"
             /\ records[r].spend = records[q].spend) => r = q

\* What a call relies on at each await: before it sends it has no transaction
\* and its reads are in; afterwards its transaction is the one it sent, and the
\* result it returned is what became of that transaction.
CallTrue(k) ==
    /\ k.pc = "reads" =>
          /\ k.tx = 0 /\ k.sent = 0 /\ k.to \in Services /\ k.amount \in Amounts
          /\ "vault" \notin k.todo => k.v \in CV!Vaults
          /\ k.op = "pay" /\ k.nonce = 1 => k.receipt = <<"given">>
          /\ k.op # "none"
    /\ k.pc = "retry" => k.op = "x402" /\ txs[k.tx].status = "ok"
    /\ k.pc \in {"wait", "retry"} => k.tx \in DOMAIN txs /\ k.op # "none"
    /\ k.tx # 0 /\ k.op = "request" => /\ txs[k.tx].op = "request"
                                       /\ txs[k.tx].nonce = k.nonce
                                       /\ txs[k.tx].amount = k.amount
    /\ k.pc = "idle" /\ k.tx # 0 =>
          /\ k.result = "ok" => txs[k.tx].status = "ok"
          /\ k.result \notin {"ok", "raw"} => /\ txs[k.tx].status = "err"
                                              /\ txs[k.tx].why = k.result
    /\ k.tx = 0 => k.sent = 0 /\ (k.pc = "idle" => k.op = "none")

\* No two calls wait for the same transaction.
CallsApart ==
    \A c, d \in Callers : c # d /\ calls[c].tx # 0 => calls[c].tx # calls[d].tx

\* The types, and the truth of each transaction and each call.
Base ==
    /\ TypeOK
    /\ \A i \in DOMAIN txs : TxTrue(i)
    /\ \A c \in Callers : CallTrue(calls[c])

\* The inductive invariant.
Inv == Base /\ TxsApart /\ RecordsTrue /\ CallsApart

-----------------------------------------------------------------------------

\* A transaction stays as it was sent, and what became of it is final.
Kept(t, u) ==
    /\ u.op = t.op /\ u.to = t.to /\ u.amount = t.amount
    /\ u.receipt = t.receipt /\ u.nonce = t.nonce
    /\ t.status # "flying" => u = t

\* What any step does to the transactions: more of them, each kept.
TxFrame ==
    /\ txs' \in Seq(Transactions) /\ Len(txs) \in Nat /\ Len(txs') \in Nat
    /\ DOMAIN txs = 1..Len(txs) /\ DOMAIN txs' = 1..Len(txs')
    /\ Len(txs') >= Len(txs)
    /\ \A i \in 1..Len(txs) : Kept(txs[i], txs'[i])

\* A step that sends nothing is within the frame.
LEMMA SameTxs ==
    ASSUME TypeOK, UNCHANGED txs PROVE TxFrame
<1>1. txs \in Seq(Transactions)
  BY DEF TypeOK
<1>2. Len(txs) \in Nat /\ DOMAIN txs = 1..Len(txs)
  BY <1>1, LenProperties
<1> QED BY <1>1, <1>2 DEF TxFrame, Kept

\* So is sending one.
LEMMA MoreTxs ==
    ASSUME TypeOK, NEW t \in Transactions, txs' = Append(txs, t)
    PROVE  TxFrame /\ Extends(txs', txs, t)
<1>1. txs \in Seq(Transactions)
  BY DEF TypeOK
<1>2. Len(txs) \in Nat /\ DOMAIN txs = 1..Len(txs)
  BY <1>1, LenProperties
<1>3. txs' \in Seq(Transactions) /\ Extends(txs', txs, t)
  BY <1>1, AppendIs
<1> QED BY <1>2, <1>3 DEF TxFrame, Kept, Extends

\* So is an outcome of a flying transaction.
LEMMA OtherTx ==
    ASSUME TypeOK, NEW i \in DOMAIN txs, NEW u \in Transactions,
           Kept(txs[i], u), txs' = [txs EXCEPT ![i] = u]
    PROVE  TxFrame /\ Differs(txs', txs, i, u)
<1>1. txs \in Seq(Transactions)
  BY DEF TypeOK
<1>2. Len(txs) \in Nat /\ DOMAIN txs = 1..Len(txs)
  BY <1>1, LenProperties
<1>3. txs' \in Seq(Transactions) /\ Differs(txs', txs, i, u)
  BY <1>1, ExceptIs
<1> QED BY <1>2, <1>3 DEF TxFrame, Kept, Differs

\* What a call relies on survives every step of the others.
LEMMA CallKept ==
    ASSUME NEW k \in Calls, k.tx \in 0..Len(txs), TxFrame, CallTrue(k)
    PROVE  CallTrue(k)' /\ k.tx \in 0..Len(txs')
<1> USE DEF CallTrue, TxFrame, Kept
<1>1. k.tx \in 0..Len(txs') /\ (k.tx # 0 => k.tx \in 1..Len(txs))
  OBVIOUS
<1>2. CASE k.tx = 0
  BY <1>2
<1>3. CASE k.tx # 0
  <2>1. Kept(txs[k.tx], txs'[k.tx])
    BY <1>1, <1>3
  <2>2. k.tx \in DOMAIN txs'
    BY <1>1, <1>3
  <2> QED BY <1>1, <1>3, <2>1, <2>2
<1> QED BY <1>1, <1>2, <1>3

\* The call of c becomes k: it keeps its transaction, drops it, or has just
\* sent a new one.
CallMoves(c, k) ==
    /\ k \in Calls /\ calls' = [calls EXCEPT ![c] = k]
    /\ k.tx \in {0, calls[c].tx, Len(txs) + 1} /\ k.tx \in 0..Len(txs')
    /\ CallTrue(k)'

\* What any step does to the calls.
CallsMove == UNCHANGED calls \/ \E c \in Callers, k \in Calls : CallMoves(c, k)

\* Calls stay true and apart when one of them moves to a true state.
LEMMA CallsStep ==
    ASSUME Inv, TxFrame, CallsMove
    PROVE  /\ calls' \in [Callers -> Calls] /\ CallsApart'
           /\ \A c \in Callers : calls'[c].tx \in 0..Len(txs') /\ CallTrue(calls[c])'
<1>1. /\ calls \in [Callers -> Calls] /\ CallsApart
      /\ \A c \in Callers : calls[c].tx \in 0..Len(txs) /\ CallTrue(calls[c])
  BY DEF Inv, Base, TypeOK
<1>2. ASSUME NEW c \in Callers, calls'[c] = calls[c]
      PROVE  calls'[c].tx \in 0..Len(txs') /\ CallTrue(calls[c])'
  <2>1. PICK k \in Calls : k = calls[c]
    BY <1>1
  <2>2. CallTrue(k)' /\ k.tx \in 0..Len(txs')
    BY <1>1, <2>1, CallKept
  <2>3. calls[c]' = k
    BY <1>2, <2>1
  <2> QED BY <1>2, <2>1, <2>2, <2>3 DEF CallTrue
<1>3. CASE UNCHANGED calls
  BY <1>1, <1>2, <1>3 DEF CallsApart
<1>4. ASSUME NEW d \in Callers, NEW k \in Calls, CallMoves(d, k)
      PROVE  /\ calls' \in [Callers -> Calls] /\ CallsApart'
             /\ \A c \in Callers : calls'[c].tx \in 0..Len(txs') /\ CallTrue(calls[c])'
  <2>1. calls' \in [Callers -> Calls] /\ calls'[d] = k
    BY <1>1, <1>4 DEF CallMoves
  <2>2. \A c \in Callers : c # d => calls'[c] = calls[c]
    BY <1>1, <1>4 DEF CallMoves
  <2>3. ASSUME NEW c \in Callers
        PROVE  calls'[c].tx \in 0..Len(txs') /\ CallTrue(calls[c])'
    <3>1. CASE c = d
      BY <1>4, <2>1, <3>1 DEF CallMoves, CallTrue
    <3>2. CASE c # d
      BY <1>2, <2>2, <3>2
    <3> QED BY <3>1, <3>2
  <2>4. CallsApart'
    <3>1. k.tx \in {0, calls[d].tx, Len(txs) + 1}
      BY <1>4 DEF CallMoves
    <3>2. \A c \in Callers : calls[c].tx # Len(txs) + 1
      BY <1>1 DEF TxFrame
    <3> QED BY <1>1, <2>1, <2>2, <3>1, <3>2 DEF CallsApart
  <2> QED BY <2>1, <2>3, <2>4
<1> QED BY <1>3, <1>4 DEF CallsMove

-----------------------------------------------------------------------------

\* A transaction as it is sent.
Fresh(t) ==
    /\ t.status = "flying"
    /\ t.op = "record" => t.nonce \in DOMAIN txs /\ t.receipt = <<"sig", t.nonce>>
    /\ t.op = "pay" /\ t.nonce = 1 => t.receipt = <<"given">>

\* What a transaction leaves on chain when it lands.
Landed(i) ==
    /\ txs[i].op = "pay" => txs[i].receipt \in receipts
    /\ txs[i].op = "request" => Owned(txs[i].nonce, txs[i].amount)

\* What a step does to the transactions and to what they left on chain.
TxsGrow ==
    /\ TxFrame /\ VaultMoves /\ receipts \subseteq receipts'
    /\ \A i \in 1..Len(txs) :
          txs'[i].status = "ok" => txs[i].status = "ok" \/ Landed(i)'
    /\ \A i \in 1..Len(txs') : i \notin 1..Len(txs) => Fresh(txs'[i])

\* No transaction lands.
Quiet ==
    /\ TxsGrow /\ UNCHANGED <<receipts, records>>
    /\ \A i \in 1..Len(txs) : txs'[i].status = "ok" => txs[i].status = "ok"

\* Every transaction stays true, or becomes true by landing.
LEMMA TxsStep ==
    ASSUME Base, TxsGrow, NEW i \in DOMAIN txs' PROVE TxTrue(i)'
<1>f. /\ TxFrame /\ VaultMoves /\ receipts \subseteq receipts'
      /\ DOMAIN txs = 1..Len(txs) /\ DOMAIN txs' = 1..Len(txs')
  BY DEF TxsGrow, TxFrame
<1>1. CASE i \notin 1..Len(txs)
  <2>1. Fresh(txs'[i])
    BY <1>f, <1>1 DEF TxsGrow
  <2>2. DOMAIN txs \subseteq DOMAIN txs'
    BY <1>f DEF TxFrame
  <2> QED BY <2>1, <2>2 DEF TxTrue, Fresh
<1>2. CASE i \in 1..Len(txs)
  <2>1. TxTrue(i) /\ Kept(txs[i], txs'[i])
    BY <1>f, <1>2 DEF Base, TxFrame
  <2>2. DOMAIN txs \subseteq DOMAIN txs'
    BY <1>f DEF TxFrame
  <2>3. txs[i] \in Transactions
    BY <1>f, <1>2 DEF Base, TypeOK
  <2>4. CASE txs'[i].status # "ok"
    BY <2>1, <2>2, <2>4 DEF TxTrue, Kept
  <2>5. CASE txs'[i].status = "ok" /\ txs[i].status = "ok"
    <3>1. txs'[i] = txs[i]
      BY <2>1, <2>5 DEF Kept
    <3>2. txs[i].op = "request" => Owned(txs[i].nonce, txs[i].amount)
      BY <2>1, <2>5 DEF TxTrue
    <3>3. txs[i].nonce \in Nat /\ txs[i].amount \in Amounts
      BY <2>3 DEF Transactions
    <3>4. PICK n \in Nat, a \in Amounts : n = txs[i].nonce /\ a = txs[i].amount
      BY <3>3
    <3>5. txs[i].op = "request" => Owned(n, a)'
      BY <3>2, <3>4, <1>f DEF VaultMoves
    <3> QED BY <1>f, <2>1, <2>2, <2>5, <3>1, <3>4, <3>5 DEF TxTrue, Owned
  <2>6. CASE txs'[i].status = "ok" /\ txs[i].status # "ok"
    <3>1. Landed(i)'
      BY <1>2, <2>6 DEF TxsGrow
    <3> QED BY <2>1, <2>2, <3>1 DEF TxTrue, Kept, Landed
  <2> QED BY <2>4, <2>5, <2>6
<1> QED BY <1>1, <1>2

\* While nothing lands, nothing can collide.
LEMMA QuietStep ==
    ASSUME Inv, Quiet PROVE TxsApart' /\ RecordsTrue'
<1>f. TxFrame /\ TxsGrow /\ UNCHANGED <<receipts, records>>
  BY DEF TxsGrow, Quiet
<1>1. ASSUME NEW i \in DOMAIN txs', txs'[i].status = "ok"
      PROVE  i \in DOMAIN txs /\ txs[i].status = "ok" /\ txs'[i] = txs[i]
  <2>1. DOMAIN txs = 1..Len(txs) /\ DOMAIN txs' = 1..Len(txs')
    BY <1>f DEF TxFrame
  <2>2. i \in 1..Len(txs)
    BY <1>f, <1>1, <2>1 DEF TxsGrow, Fresh
  <2>3. Kept(txs[i], txs'[i])
    BY <1>f, <2>2 DEF TxFrame
  <2>4. txs[i].status = "ok"
    BY <1>1, <2>2 DEF Quiet
  <2> QED BY <2>1, <2>2, <2>3, <2>4 DEF Kept
<1>2. TxsApart'
  BY <1>1 DEF Inv, TxsApart
<1>3. RecordsTrue'
  BY <1>f DEF Inv, RecordsTrue
<1> QED BY <1>2, <1>3

-----------------------------------------------------------------------------

\* Transaction i, which is t, lands.
Confirms(i, t) ==
    /\ TxFrame /\ t \in Transactions /\ t = txs[i] /\ t.status = "flying"
    /\ Differs(txs', txs, i, [t EXCEPT !.status = "ok"])

\* Land on a transaction that the programs accept.
LEMMA LandConfirms ==
    ASSUME TypeOK, NEW i \in DOMAIN txs, Land(i), Refusal(txs[i]) = "ok"
    PROVE  Confirms(i, txs[i])
<1>0. txs[i] \in Transactions
  BY DEF TypeOK
<1>1. PICK t \in Transactions : t = txs[i]
  BY <1>0
<1> DEFINE u == [t EXCEPT !.status = "ok"]
<1>2. t.status = "flying" /\ txs' = [txs EXCEPT ![i] = u]
  BY <1>1 DEF Land
<1>3. u \in Transactions
  BY ZenonT(60) DEF Transactions
<1>4. Kept(t, u)
  BY <1>2 DEF Kept, Transactions
<1> HIDE DEF u
<1>5. TxFrame /\ Differs(txs', txs, i, u)
  BY <1>1, <1>2, <1>3, <1>4, OtherTx
<1> QED BY <1>1, <1>2, <1>5 DEF Confirms, u

\* Only the status of that transaction changes.
LEMMA ConfirmedTxs ==
    ASSUME NEW i \in DOMAIN txs, NEW t, Confirms(i, t)
    PROVE  /\ DOMAIN txs' = DOMAIN txs /\ txs'[i] = [t EXCEPT !.status = "ok"]
           /\ \A j \in DOMAIN txs : j # i => txs'[j] = txs[j]
           /\ DOMAIN txs = 1..Len(txs) /\ Len(txs') = Len(txs)
           /\ txs'[i].op = t.op /\ txs'[i].receipt = t.receipt
           /\ txs'[i].nonce = t.nonce /\ txs'[i].amount = t.amount
BY DEF Confirms, Differs, TxFrame, Transactions

\* Landing is one of the steps TxsGrow allows.
LEMMA ConfirmGrows ==
    ASSUME NEW i \in DOMAIN txs, NEW t, Confirms(i, t), VaultMoves,
           receipts \subseteq receipts',
           t.op = "pay" => t.receipt \in receipts',
           t.op = "request" => Owned(t.nonce, t.amount)'
    PROVE  TxsGrow
<1>1. /\ DOMAIN txs' = DOMAIN txs
      /\ \A j \in DOMAIN txs : j # i => txs'[j] = txs[j]
      /\ DOMAIN txs = 1..Len(txs) /\ Len(txs') = Len(txs)
      /\ txs'[i].op = t.op /\ txs'[i].receipt = t.receipt
      /\ txs'[i].nonce = t.nonce /\ txs'[i].amount = t.amount
  BY ConfirmedTxs
<1>2. Landed(i)'
  BY <1>1 DEF Landed, Owned
<1> QED BY <1>1, <1>2 DEF TxsGrow, Confirms

\* A payment that lands uses a new receipt and a request a new nonce, so they
\* differ from those of all that landed before.
LEMMA ConfirmApart ==
    ASSUME Inv, NEW i \in DOMAIN txs, NEW t, Confirms(i, t),
           t.op = "pay" => t.receipt \notin receipts,
           t.op = "request" => t.nonce = vault.pending_count
    PROVE  TxsApart'
<1>1. /\ DOMAIN txs' = DOMAIN txs
      /\ \A j \in DOMAIN txs : j # i => txs'[j] = txs[j]
      /\ txs'[i].op = t.op /\ txs'[i].receipt = t.receipt /\ txs'[i].nonce = t.nonce
  BY ConfirmedTxs
<1>2. ASSUME NEW j \in DOMAIN txs, txs[j].status = "ok", txs[j].op = t.op
      PROVE  /\ t.op = "pay" => txs[j].receipt # t.receipt
             /\ t.op = "request" => txs[j].nonce # t.nonce
  <2>1. TxTrue(j) /\ vault.pending_count \in Nat
    BY ProgramFacts DEF Inv, Base, TypeOK
  <2> QED BY <1>2, <2>1 DEF TxTrue, Owned
<1>3. TxsApart
  BY DEF Inv
<1> QED BY <1>1, <1>2, <1>3 DEF TxsApart

-----------------------------------------------------------------------------

\* The types of the rest of the state.
Rest ==
    /\ active \in BOOLEAN /\ receipts \subseteq Receipts
    /\ records \in Seq([spend : Nat, by : {"pay", "record"}])
    /\ \A r \in DOMAIN records : records[r].spend \in DOMAIN txs
    /\ seen \subseteq DOMAIN txs /\ acts \in 0..MaxOwner

\* All that a step of Next does.
Advance == TxsGrow /\ CallsMove /\ Rest' /\ TxsApart' /\ RecordsTrue'

\* Such a step keeps the invariant.
LEMMA AdvanceInv ==
    ASSUME Inv, Advance PROVE Inv'
<1>1. TxsGrow /\ TxFrame /\ CallsMove /\ Rest' /\ VaultMoves
  BY DEF Advance, TxsGrow
<1>2. /\ calls' \in [Callers -> Calls] /\ CallsApart'
      /\ \A c \in Callers : calls'[c].tx \in 0..Len(txs') /\ CallTrue(calls[c])'
  BY <1>1, CallsStep
<1>3. \A i \in DOMAIN txs' : TxTrue(i)'
  BY <1>1, TxsStep DEF Inv
<1>4. TypeOK'
  BY <1>1, <1>2 DEF TypeOK, Rest, TxFrame, VaultMoves
<1> QED BY <1>2, <1>3, <1>4 DEF Inv, Base, Advance

\* A step in which nothing lands is such a step.
LEMMA QuietAdvance ==
    ASSUME Inv, Quiet, CallsMove, active' \in BOOLEAN, seen' \subseteq DOMAIN txs',
           acts' \in 0..MaxOwner
    PROVE  Advance
<1>1. TxsApart' /\ RecordsTrue'
  BY QuietStep
<1>2. Rest'
  <2>1. DOMAIN txs \subseteq DOMAIN txs'
    BY DEF Quiet, TxsGrow, TxFrame
  <2>2. TypeOK /\ UNCHANGED <<receipts, records>>
    BY DEF Inv, Base, Quiet
  <2> QED BY <2>1, <2>2 DEF Rest, TypeOK
<1> QED BY <1>1, <1>2 DEF Advance, Quiet

\* record_payment, on its own or inside pay: a receipt that was not there
\* before goes with each record, so no spend is attested twice by the recorder.
LEMMA AttestAdvances ==
    ASSUME Inv, NEW i \in DOMAIN txs, NEW t, Confirms(i, t), VaultMoves,
           NEW n \in DOMAIN txs, Attest(t, n), UNCHANGED <<active, calls, seen, acts>>,
           t.op \in {"pay", "record"}, t.receipt \notin receipts,
           t.op = "record" => t.receipt = <<"sig", n>>
    PROVE  Advance
<1> DEFINE R == [spend : Nat, by : {"pay", "record"}]
           e == [spend |-> n, by |-> t.op]
<1>1. /\ receipts' = receipts \cup {t.receipt} /\ records' = Append(records, e)
      /\ t \in Transactions
  BY DEF Attest, Confirms
<1>2. DOMAIN txs' = DOMAIN txs /\ DOMAIN txs = 1..Len(txs)
  BY ConfirmedTxs
<1>3. TypeOK /\ records \in Seq(R)
  BY DEF Inv, Base, TypeOK
<1>4. e \in R
  BY <1>2
<1> HIDE DEF R
<1>5. records' \in Seq(R) /\ Extends(records', records, e)
  BY <1>1, <1>3, <1>4, AppendIs
<1>6. DOMAIN records = 1..Len(records) /\ Len(records) \in Nat
  BY <1>3, LenProperties
<1>7. TxsGrow
  BY <1>1, ConfirmGrows
<1>8. TxsApart'
  BY ConfirmApart
<1>9. Rest'
  <2>1. \A r \in DOMAIN records' : records'[r].spend \in DOMAIN txs'
    BY <1>2, <1>3, <1>5, <1>6 DEF Extends, TypeOK
  <2>2. t.receipt \in Receipts
    BY <1>1 DEF Transactions
  <2> QED BY <1>1, <1>2, <1>3, <1>5, <2>1, <2>2 DEF Rest, TypeOK, R
<1>10. RecordsTrue'
  <2>1. RecordsTrue
    BY DEF Inv
  <2>2. ASSUME NEW r \in DOMAIN records, records[r].by = "record", t.op = "record"
        PROVE  records[r].spend # n
    BY <2>1, <2>2 DEF RecordsTrue
  <2>3. t.op = "record" => <<"sig", n>> \in receipts'
    BY <1>1
  <2>4. ASSUME NEW r \in DOMAIN records', records'[r].by = "record"
        PROVE  <<"sig", records'[r].spend>> \in receipts'
    <3>1. CASE r \in DOMAIN records
      BY <1>1, <1>5, <1>6, <2>1, <2>4, <3>1 DEF RecordsTrue, Extends
    <3>2. CASE r = Len(records) + 1
      BY <1>5, <2>3, <2>4, <3>2 DEF Extends
    <3> QED BY <1>5, <1>6, <3>1, <3>2 DEF Extends
  <2>5. ASSUME NEW r \in DOMAIN records', NEW q \in DOMAIN records',
               records'[r].by = "record", records'[q].by = "record",
               records'[r].spend = records'[q].spend
        PROVE  r = q
    BY <1>5, <1>6, <2>1, <2>2, <2>5 DEF Extends, RecordsTrue
  <2> QED BY <2>4, <2>5 DEF RecordsTrue
<1> QED BY <1>7, <1>8, <1>9, <1>10 DEF Advance, CallsMove

\* A spend or a request lands.
LEMMA PlainAdvances ==
    ASSUME Inv, NEW i \in DOMAIN txs, NEW t, Confirms(i, t), VaultMoves,
           UNCHANGED <<receipts, records, active, calls, seen, acts>>,
           t.op \in {"spend", "request"},
           t.op = "request" => /\ t.nonce = vault.pending_count
                               /\ Owned(t.nonce, t.amount)'
    PROVE  Advance
<1>1. TxsGrow
  BY ConfirmGrows
<1>2. TxsApart'
  BY ConfirmApart
<1>3. RecordsTrue'
  BY DEF Inv, RecordsTrue
<1>4. DOMAIN txs' = DOMAIN txs
  BY ConfirmedTxs
<1>5. Rest'
  BY <1>4 DEF Inv, Base, TypeOK, Rest
<1> QED BY <1>1, <1>2, <1>3, <1>5 DEF Advance, CallsMove

\* A transaction that the programs accept lands.
LEMMA LandAdvances ==
    ASSUME Inv, NEW i \in DOMAIN txs, Land(i), Refusal(txs[i]) = "ok"
    PROVE  Advance
<1>0. TypeOK /\ CV!TypeOK
  BY DEF Inv, Base, TypeOK
<1>1. Confirms(i, txs[i]) /\ txs[i] \in Transactions
  BY <1>0, LandConfirms DEF Confirms
<1>2. PICK t \in Transactions : t = txs[i]
  BY <1>1
<1>3. Confirms(i, t) /\ Refusal(t) = "ok"
  BY <1>1, <1>2
<1>4. Executed(i) /\ UNCHANGED <<active, calls, seen, acts>>
  BY DEF Land
<1>5. /\ t.op \in {"spend", "pay", "request", "record"} /\ t.to \in Services
      /\ t.amount \in Amounts /\ t.nonce \in Nat
  BY DEF Transactions
<1>k. "ok" \notin Refusals
  BY VaultCodes DEF Refusals
<1>6. CASE t.op = "spend"
  <2>1. CV!spend(t.to, t.amount) /\ UNCHANGED <<receipts, records>>
    BY <1>2, <1>4, <1>6 DEF Executed
  <2>2. VaultMoves
    BY <1>0, <1>5, <2>1, SpendMoves
  <2> QED BY <1>3, <1>4, <1>6, <2>1, <2>2, PlainAdvances
<1>7. CASE t.op = "pay"
  <2>1. CV!spend(t.to, t.amount) /\ Attest(t, i)
    BY <1>2, <1>4, <1>7 DEF Executed
  <2>2. VaultMoves
    BY <1>0, <1>5, <2>1, SpendMoves
  <2>3. t.receipt \notin receipts
    BY <1>0, <1>3, <1>7, <1>k, PayRefusal
  <2> QED BY <1>3, <1>4, <1>7, <2>1, <2>2, <2>3, AttestAdvances
<1>8. CASE t.op = "request"
  <2>1. CV!request_spend(t.to, t.amount) /\ UNCHANGED <<receipts, records>>
    BY <1>2, <1>4, <1>8 DEF Executed
  <2>2. t.nonce = vault.pending_count
    BY <1>0, <1>3, <1>8, <1>k, RequestRefusal
  <2>3. VaultMoves /\ Owned(t.nonce, t.amount)'
    BY <1>0, <1>5, <2>1, <2>2, RequestMoves
  <2> QED BY <1>3, <1>4, <1>8, <2>1, <2>2, <2>3, PlainAdvances
<1>9. CASE t.op = "record"
  <2>1. Attest(t, t.nonce) /\ UNCHANGED vaultVars
    BY <1>2, <1>4, <1>9 DEF Executed
  <2>2. VaultMoves
    BY <1>0, <2>1, SameVault
  <2>3. t.receipt \notin receipts
    BY <1>0, <1>3, <1>9, <1>k, RecordRefusal
  <2>4. t.nonce \in DOMAIN txs /\ t.receipt = <<"sig", t.nonce>>
    BY <1>2, <1>9 DEF Inv, Base, TxTrue
  <2> QED BY <1>3, <1>4, <1>9, <2>1, <2>2, <2>3, <2>4, AttestAdvances
<1> QED BY <1>5, <1>6, <1>7, <1>8, <1>9

\* A transaction is refused or expires, and the chain stays as it was.
LEMMA FailsAdvances ==
    ASSUME Inv, NEW i \in DOMAIN txs, NEW u \in Transactions,
           Kept(txs[i], u), u.status # "ok", txs' = [txs EXCEPT ![i] = u],
           UNCHANGED <<chainVars, calls, seen, acts>>
    PROVE  Advance
<1>0. TypeOK /\ CV!TypeOK
  BY DEF Inv, Base, TypeOK
<1>1. TxFrame /\ Differs(txs', txs, i, u)
  BY <1>0, OtherTx
<1>2. VaultMoves
  BY <1>0, SameVault DEF chainVars
<1>3. UNCHANGED <<receipts, records>> /\ UNCHANGED active
  BY DEF chainVars
<1>4. Quiet
  BY <1>1, <1>2, <1>3 DEF Quiet, TxsGrow, Differs
<1>5. DOMAIN txs' = DOMAIN txs
  BY <1>1 DEF TxFrame, Differs
<1> QED BY <1>0, <1>3, <1>4, <1>5, QuietAdvance DEF CallsMove, TypeOK

\* Whatever the cluster does with a flying transaction.
LEMMA ClusterAdvances ==
    ASSUME Inv, NEW i \in DOMAIN txs, Land(i) \/ Expire(i) PROVE Advance
<1>0. TypeOK /\ CV!TypeOK
  BY DEF Inv, Base, TypeOK
<1>1. PICK t \in Transactions : t = txs[i]
  BY <1>0 DEF TypeOK
<1>2. t.status = "flying"
  BY <1>1 DEF Land, Expire
<1>3. CASE Expire(i)
  <2> DEFINE u == [t EXCEPT !.status = "expired"]
  <2>1. txs' = [txs EXCEPT ![i] = u] /\ UNCHANGED <<chainVars, calls, seen, acts>>
    BY <1>1, <1>3 DEF Expire
  <2>2. u \in Transactions
    BY ZenonT(60) DEF Transactions
  <2>3. Kept(t, u) /\ u.status # "ok"
    BY <1>2 DEF Kept, Transactions
  <2> HIDE DEF u
  <2> QED BY <1>1, <2>1, <2>2, <2>3, FailsAdvances
<1>4. CASE Land(i) /\ Refusal(txs[i]) # "ok"
  <2>0. PICK w : w = Refusal(t)
    OBVIOUS
  <2> DEFINE u == [t EXCEPT !.status = "err", !.why = w]
  <2>1. txs' = [txs EXCEPT ![i] = u] /\ UNCHANGED <<chainVars, calls, seen, acts>>
    BY <1>1, <1>4, <2>0 DEF Land, chainVars
  <2>2. w \in Refusals
    <3>1. t.op \in {"spend", "pay", "request", "record"}
      BY DEF Transactions
    <3> QED BY <1>0, <1>1, <1>4, <2>0, <3>1, PayRefusal, RecordRefusal, RequestRefusal
  <2>3. w \in Refusals \cup {"none"}
    BY <2>2
  <2>4. u \in Transactions
    BY <2>3, ZenonT(60) DEF Transactions
  <2>5. Kept(t, u) /\ u.status # "ok"
    BY <1>2 DEF Kept, Transactions
  <2> HIDE DEF u
  <2> QED BY <1>1, <2>1, <2>4, <2>5, FailsAdvances
<1>5. CASE Land(i) /\ Refusal(txs[i]) = "ok"
  BY <1>5, LandAdvances
<1> QED BY <1>3, <1>4, <1>5

\* A step that sends nothing and leaves the receipts is quiet.
LEMMA SameTxsQuiet ==
    ASSUME TypeOK, VaultMoves, UNCHANGED <<txs, receipts, records>> PROVE Quiet
<1>1. TxFrame
  BY SameTxs
<1> QED BY <1>1 DEF Quiet, TxsGrow

\* Sending is quiet: the transaction is still in flight.
LEMMA SentQuiet ==
    ASSUME TypeOK, NEW t \in Transactions, Fresh(t), txs' = Append(txs, t),
           UNCHANGED chainVars
    PROVE  /\ Quiet /\ TxFrame /\ Len(txs') = Len(txs) + 1
           /\ txs'[Len(txs) + 1] = t
<1>1. TxFrame /\ Extends(txs', txs, t)
  BY MoreTxs
<1>2. VaultMoves
  BY SameVault DEF chainVars, TypeOK
<1>3. UNCHANGED <<receipts, records>>
  BY DEF chainVars
<1> QED BY <1>1, <1>2, <1>3 DEF Quiet, TxsGrow, Extends, TxFrame

\* The owner and the service act, the recorder restarts.
LEMMA OwnerAdvances ==
    ASSUME Inv, OwnerActs \/ setServiceActive \/ RecorderRestarts PROVE Advance
<1>0. TypeOK /\ CV!TypeOK
  BY DEF Inv, Base, TypeOK
<1>n. MaxOwner \in Nat
  BY CallersAssumption
<1>1. CASE OwnerActs
  <2>1. VaultMoves
    BY <1>0, <1>1, OwnerMoves
  <2>2. UNCHANGED <<active, receipts, records, txs, calls, seen>>
    BY <1>1 DEF OwnerActs
  <2>3. acts' \in 0..MaxOwner
    BY <1>0, <1>1, <1>n DEF OwnerActs, TypeOK
  <2>4. Quiet
    BY <1>0, <2>1, <2>2, SameTxsQuiet
  <2> QED BY <1>0, <2>2, <2>3, <2>4, QuietAdvance DEF TypeOK, CallsMove
<1>2. CASE setServiceActive
  <2>1. VaultMoves
    BY <1>0, <1>2, SameVault DEF setServiceActive
  <2>2. UNCHANGED <<receipts, records, txs, calls, seen>> /\ active' \in BOOLEAN
    BY <1>2 DEF setServiceActive
  <2>3. acts' \in 0..MaxOwner
    BY <1>0, <1>2, <1>n DEF setServiceActive, TypeOK
  <2>4. Quiet
    BY <1>0, <2>1, <2>2, SameTxsQuiet
  <2> QED BY <1>0, <2>2, <2>3, <2>4, QuietAdvance DEF TypeOK, CallsMove
<1>3. CASE RecorderRestarts
  <2>1. VaultMoves
    BY <1>0, <1>3, SameVault DEF RecorderRestarts, chainVars
  <2>2. UNCHANGED <<receipts, records, active, txs, calls, acts>> /\ seen' = {}
    BY <1>3 DEF RecorderRestarts, chainVars
  <2>3. Quiet
    BY <1>0, <2>1, <2>2, SameTxsQuiet
  <2> QED BY <1>0, <2>2, <2>3, QuietAdvance DEF TypeOK, CallsMove
<1> QED BY <1>1, <1>2, <1>3

\* onFrame sends an attestation with the spend's receipt.
LEMMA FrameAdvances ==
    ASSUME Inv, NEW i \in DOMAIN txs, onFrame(i) PROVE Advance
<1>0. TypeOK /\ txs[i] \in Transactions /\ DOMAIN txs = 1..Len(txs)
  <2>1. txs \in Seq(Transactions)
    BY DEF Inv, Base, TypeOK
  <2> QED BY <2>1, LenProperties DEF Inv, Base, TypeOK
<1>1. PICK to, a : to = txs[i].to /\ a = txs[i].amount
  OBVIOUS
<1> DEFINE r == ReceiptOfSpend(i)
           t == [op |-> "record", to |-> to, amount |-> a, receipt |-> r,
                 nonce |-> i, status |-> "flying", why |-> "none"]
<1>2. r = <<"sig", i>> /\ r \in Receipts /\ i \in Nat
  BY <1>0 DEF ReceiptOfSpend, Receipts
<1>3. to \in Services /\ a \in Amounts
  BY <1>0, <1>1 DEF Transactions
<1>4. /\ txs' = Append(txs, t) /\ seen' = seen \cup {i}
      /\ UNCHANGED <<chainVars, calls, acts>>
  BY <1>1 DEF onFrame, Sent
<1> HIDE DEF r
<1>5. t \in Transactions /\ Fresh(t)
  BY <1>2, <1>3 DEF Transactions, Fresh
<1> HIDE DEF t
<1>6. Quiet /\ TxFrame
  BY <1>0, <1>4, <1>5, SentQuiet
<1>7. active' = active
  BY <1>4 DEF chainVars
<1>8. seen' \subseteq DOMAIN txs'
  BY <1>0, <1>4, <1>6 DEF TypeOK, TxFrame
<1> QED BY <1>0, <1>4, <1>6, <1>7, <1>8, QuietAdvance DEF TypeOK, CallsMove

-----------------------------------------------------------------------------

\* A call moves on its own, without sending.
LEMMA LocalAdvances ==
    ASSUME Inv, NEW c \in Callers, NEW k \in Calls, calls' = [calls EXCEPT ![c] = k],
           k.tx \in {0, calls[c].tx}, CallTrue(k), UNCHANGED <<chainVars, txs, seen, acts>>
    PROVE  Advance
<1>0. TypeOK /\ CV!TypeOK /\ calls[c].tx \in 0..Len(txs) /\ Len(txs) \in Nat
  <2>1. txs \in Seq(Transactions)
    BY DEF Inv, Base, TypeOK
  <2> QED BY <2>1, LenProperties DEF Inv, Base, TypeOK
<1>1. VaultMoves
  BY <1>0, SameVault DEF chainVars
<1>2. UNCHANGED <<receipts, records, active>>
  BY DEF chainVars
<1>3. Quiet
  BY <1>0, <1>1, <1>2, SameTxsQuiet
<1>4. k.tx \in 0..Len(txs') /\ CallTrue(k)'
  BY <1>0 DEF CallTrue
<1>5. CallsMove
  BY <1>4 DEF CallsMove, CallMoves
<1> QED BY <1>0, <1>2, <1>3, <1>5, QuietAdvance DEF TypeOK

\* A call sends its transaction and waits for it.
LEMMA SendAdvances ==
    ASSUME Inv, NEW c \in Callers, NEW k \in Calls, NEW t \in Transactions,
           calls' = [calls EXCEPT ![c] = k], txs' = Append(txs, t), Fresh(t),
           k.tx = Len(txs) + 1, k.pc = "wait", k.op # "none",
           k.op = "request" => t.op = "request" /\ t.nonce = k.nonce /\ t.amount = k.amount,
           UNCHANGED <<chainVars, seen, acts>>
    PROVE  Advance
<1>0. TypeOK
  BY DEF Inv, Base
<1>1. Quiet /\ TxFrame /\ Len(txs') = Len(txs) + 1 /\ txs'[Len(txs) + 1] = t
  BY <1>0, SentQuiet
<1>2. active' = active
  BY DEF chainVars
<1>3. k.tx \in DOMAIN txs' /\ txs'[k.tx] = t /\ k.tx # 0 /\ k.tx \in 0..Len(txs')
  BY <1>1 DEF TxFrame
<1>4. CallTrue(k)'
  BY <1>3 DEF CallTrue
<1>5. CallsMove
  BY <1>3, <1>4 DEF CallsMove, CallMoves
<1>6. seen' \subseteq DOMAIN txs'
  BY <1>0, <1>1 DEF TypeOK, TxFrame
<1> QED BY <1>0, <1>1, <1>2, <1>5, <1>6, QuietAdvance DEF TypeOK

\* A process without a call.
LEMMA IdleTrue == Idle \in Calls /\ CallTrue(Idle) /\ Idle.tx = 0
<1>1. 0 \in CV!Slots
  BY ProgramAssumption DEF CV!Slots
<1>2. Idle \in Calls
  BY <1>1 DEF Idle, Calls, Receipts, Results
<1>3. CallTrue(Idle) /\ Idle.tx = 0
  BY DEF Idle, CallTrue
<1> QED BY <1>2, <1>3

\* A call ends with what became of its transaction.
LEMMA EndsAdvances ==
    ASSUME Inv, NEW c \in Callers, NEW result \in Results, Ends(c, result),
           calls[c].pc \in {"wait", "retry"},
           result = "ok" => txs[calls[c].tx].status = "ok",
           result \notin {"ok", "raw"} => /\ txs[calls[c].tx].status = "err"
                                          /\ txs[calls[c].tx].why = result,
           UNCHANGED <<chainVars, txs, seen, acts>>
    PROVE  Advance
<1>1. calls[c] \in Calls /\ CallTrue(calls[c])
  BY DEF Inv, Base, TypeOK
<1>2. PICK h \in Calls : h = calls[c]
  BY <1>1
<1>3. txs \in Seq(Transactions)
  BY DEF Inv, Base, TypeOK
<1>4. h.tx # 0
  <2>1. h.tx \in DOMAIN txs
    BY <1>1, <1>2 DEF CallTrue
  <2> QED BY <1>3, <2>1, LenProperties
<1> DEFINE k == [Idle EXCEPT !.op = h.op, !.tx = h.tx, !.nonce = h.nonce,
                             !.amount = h.amount, !.sent = h.sent, !.result = result]
<1>5. calls' = [calls EXCEPT ![c] = k]
  BY <1>2, <1>4 DEF Ends
<1>6. /\ k.op = h.op /\ k.pc = "idle" /\ k.tx = h.tx /\ k.nonce = h.nonce
      /\ k.amount = h.amount /\ k.sent = h.sent /\ k.result = result
  BY DEF Idle
<1>7. /\ h.op \in {"none", "spend", "x402", "pay", "request"} /\ h.tx \in Nat
      /\ h.nonce \in Nat /\ h.amount \in Amounts \cup {0} /\ h.sent \in 0..1
  BY DEF Calls
<1>8. k \in Calls
  BY <1>7, IdleTrue, ZenonT(60) DEF Calls
<1>9. CallTrue(k) /\ k.tx = calls[c].tx
  BY <1>1, <1>2, <1>4, <1>6 DEF CallTrue
<1> HIDE DEF k
<1> QED BY <1>5, <1>8, <1>9, LocalAdvances

\* A call starts with all its reads before it.
LEMMA StartAdvances ==
    ASSUME Inv, NEW c \in Callers, NEW k \in Calls, calls' = [calls EXCEPT ![c] = k],
           k.op # "none", k.pc = "reads", k.to \in Services, k.amount \in Amounts,
           "vault" \in k.todo, k.tx = 0, k.sent = 0,
           k.op = "pay" /\ k.nonce = 1 => k.receipt = <<"given">>,
           UNCHANGED <<chainVars, txs, seen, acts>>
    PROVE  Advance
<1>1. CallTrue(k)
  BY DEF CallTrue
<1> QED BY <1>1, LocalAdvances

\* spend, the x402 wrapper, pay and requestSpend start.
LEMMA StartsAdvance ==
    ASSUME Inv, NEW c \in Callers, Starts(c) PROVE Advance
<1> DEFINE All == {"vault", "policy", "slot"}
<1>0. PICK to \in Services, a \in Amounts :
         \/ \E op \in {"spend", "x402"} : StartSpend(c, op, to, a)
         \/ \E given \in BOOLEAN : StartPay(c, to, a, given)
         \/ StartRequest(c, to, a)
  BY DEF Starts
<1>1. /\ to \in Services \cup {None} /\ a \in Amounts \cup {0}
      /\ "reads" \in {"idle", "reads", "wait", "retry"}
      /\ All \in SUBSET All /\ {"vault"} \in SUBSET All
      /\ "pay" \in {"none", "spend", "x402", "pay", "request"}
      /\ "request" \in {"none", "spend", "x402", "pay", "request"}
  OBVIOUS
<1>2. ASSUME NEW op \in {"spend", "x402"}, StartSpend(c, op, to, a) PROVE Advance
  <2> DEFINE k == [Idle EXCEPT !.op = op, !.pc = "reads", !.to = to, !.amount = a,
                               !.todo = All]
  <2>1. calls' = [calls EXCEPT ![c] = k] /\ UNCHANGED <<chainVars, txs, seen, acts>>
    BY <1>2 DEF StartSpend
  <2>2. /\ k.op = op /\ k.pc = "reads" /\ k.to = to /\ k.amount = a
        /\ k.todo = All /\ k.tx = 0 /\ k.sent = 0
    BY DEF Idle
  <2>3. op \in {"none", "spend", "x402", "pay", "request"}
    OBVIOUS
  <2>4. k \in Calls
    BY <1>1, <2>3, IdleTrue, ZenonT(60) DEF Calls
  <2> HIDE DEF k
  <2> QED BY <2>1, <2>2, <2>4, StartAdvances
<1>3. ASSUME NEW given \in BOOLEAN, StartPay(c, to, a, given) PROVE Advance
  <2>0. PICK r, n : r = parseReceiptHash(given, c) /\ n = IF given THEN 1 ELSE 0
    OBVIOUS
  <2> DEFINE k == [Idle EXCEPT !.op = "pay", !.pc = "reads", !.to = to, !.amount = a,
                               !.receipt = r, !.nonce = n, !.todo = All]
  <2>1. calls' = [calls EXCEPT ![c] = k] /\ UNCHANGED <<chainVars, txs, seen, acts>>
    BY <1>3, <2>0 DEF StartPay
  <2>2. /\ k.op = "pay" /\ k.pc = "reads" /\ k.to = to /\ k.amount = a
        /\ k.todo = All /\ k.tx = 0 /\ k.sent = 0 /\ k.receipt = r /\ k.nonce = n
    BY DEF Idle
  <2>3. r \in Receipts /\ n \in Nat /\ (n = 1 => r = <<"given">>)
    <3>1. txs \in Seq(Transactions)
      BY DEF Inv, Base, TypeOK
    <3>2. Len(txs) \in Nat
      BY <3>1, LenProperties
    <3> QED BY <2>0, <3>2 DEF parseReceiptHash, Receipts
  <2>4. k \in Calls
    BY <1>1, <2>3, IdleTrue, ZenonT(60) DEF Calls
  <2> HIDE DEF k
  <2> QED BY <2>1, <2>2, <2>3, <2>4, StartAdvances
<1>4. CASE StartRequest(c, to, a)
  <2> DEFINE k == [Idle EXCEPT !.op = "request", !.pc = "reads", !.to = to,
                               !.amount = a, !.todo = {"vault"}]
  <2>1. calls' = [calls EXCEPT ![c] = k] /\ UNCHANGED <<chainVars, txs, seen, acts>>
    BY <1>4 DEF StartRequest
  <2>2. /\ k.op = "request" /\ k.pc = "reads" /\ k.to = to /\ k.amount = a
        /\ k.todo = {"vault"} /\ k.tx = 0 /\ k.sent = 0
    BY DEF Idle
  <2>4. k \in Calls
    BY <1>1, IdleTrue, ZenonT(60) DEF Calls
  <2> HIDE DEF k
  <2> QED BY <2>1, <2>2, <2>4, StartAdvances
<1> QED BY <1>0, <1>2, <1>3, <1>4

\* A call awaits one of its reads.
LEMMA ReadAdvances ==
    ASSUME Inv, NEW c \in Callers, NEW what \in {"vault", "policy", "slot"},
           Read(c, what)
    PROVE  Advance
<1>1. calls \in [Callers -> Calls] /\ CallTrue(calls[c]) /\ CV!TypeOK
  BY DEF Inv, Base, TypeOK
<1>2. PICK h \in Calls : h = calls[c]
  BY <1>1
<1>3. PICK v, p, s : /\ v = IF what = "vault" THEN vault ELSE h.v
                     /\ p = IF what = "policy" THEN decodeSpendPolicy(policy) ELSE h.p
                     /\ s = IF what = "slot" THEN slot ELSE h.s
  OBVIOUS
<1> DEFINE k == [h EXCEPT !.todo = h.todo \ {what}, !.v = v, !.p = p, !.s = s]
<1>4. calls' = [calls EXCEPT ![c] = k]
  BY <1>1, <1>2, <1>3 DEF Read
<1>5. decodeSpendPolicy(policy) \in CV!SpendPolicies
  <2>1. policy \in CV!SpendPolicies
    BY <1>1 DEF CV!TypeOK
  <2>2. policy.whitelist \ {DefaultKey} \in SUBSET CV!Keys
    BY <2>1 DEF CV!SpendPolicies
  <2> QED BY <2>1, <2>2, ZenonT(60) DEF decodeSpendPolicy, CV!SpendPolicies
<1>6. /\ v \in CV!Vaults \cup {None} /\ p \in CV!SpendPolicies \cup {None}
      /\ s \in CV!Slots /\ h.todo \ {what} \in SUBSET {"vault", "policy", "slot"}
      /\ (what = "vault" => v \in CV!Vaults) /\ (what # "vault" => v = h.v)
  <2>1. /\ h.v \in CV!Vaults \cup {None} /\ h.p \in CV!SpendPolicies \cup {None}
        /\ h.s \in CV!Slots /\ h.todo \in SUBSET {"vault", "policy", "slot"}
    BY DEF Calls
  <2>2. vault \in CV!Vaults /\ slot \in CV!Slots
    BY <1>1 DEF CV!TypeOK
  <2> QED BY <1>3, <1>5, <2>1, <2>2
<1>7. k \in Calls
  BY <1>6, ZenonT(60) DEF Calls
<1>8. /\ k.op = h.op /\ k.pc = h.pc /\ k.to = h.to /\ k.amount = h.amount
      /\ k.todo = h.todo \ {what} /\ k.v = v /\ k.receipt = h.receipt
      /\ k.nonce = h.nonce /\ k.tx = h.tx /\ k.sent = h.sent /\ k.result = h.result
  BY DEF Calls
<1> HIDE DEF k
<1>9. CallTrue(k) /\ k.tx = calls[c].tx
  <2>1. h.pc = "reads" /\ CallTrue(h)
    BY <1>1, <1>2 DEF Read
  <2> QED BY <1>2, <1>6, <1>8, <2>1 DEF CallTrue
<1>10. UNCHANGED <<chainVars, txs, seen, acts>>
  BY DEF Read
<1> QED BY <1>4, <1>7, <1>9, <1>10, LocalAdvances

\* mapSpendError inverts the program's error numbers.
LEMMA CodesNameCauses ==
    ASSUME NEW why \in DOMAIN VaultCode PROVE mapSpendError(VaultCode[why]) = why
<1> DEFINE code == VaultCode[why]
           map == [ZeroAmount |-> 6001, Frozen |-> 6002, NotWhitelisted |-> 6003,
                   PerTx |-> 6004, Hourly |-> 6005, Lifetime |-> 6006]
<1>1. map = VaultCode /\ mapSpendError(code) = Typed(map, code)
  BY DEF VaultCode, mapSpendError
<1>2. \A e \in DOMAIN VaultCode : VaultCode[e] = VaultCode[why] => e = why
  BY DEF VaultCode
<1> HIDE DEF map
<1>3. map[why] = code /\ why \in DOMAIN map
  BY <1>1
<1>4. \A e \in DOMAIN map : map[e] = code => e = why
  BY <1>1, <1>2
<1> HIDE DEF code
<1>5. (CHOOSE e \in DOMAIN map : map[e] = code) = why
  BY <1>3, <1>4
<1> QED BY <1>1, <1>3, <1>5 DEF Typed, code

\* What is thrown for a refused transaction is the refusal, or untyped.
LEMMA ThrownIs ==
    ASSUME NEW op, NEW why
    PROVE  /\ Thrown(op, why) \in {"raw", why} /\ Thrown(op, why) \in Results
           /\ Thrown(op, why) # "ok"
<1>1. CASE op = "pay"
  BY <1>1 DEF Thrown, mapPayError, Results
<1>2. CASE op = "request"
  BY <1>2 DEF Thrown, Results
<1>3. CASE op # "pay" /\ op # "request"
  <2>1. Thrown(op, why) = IF why \in DOMAIN VaultCode
                          THEN mapSpendError(VaultCode[why]) ELSE "raw"
    BY <1>3 DEF Thrown
  <2>2. CASE why \in DOMAIN VaultCode
    <3>1. Thrown(op, why) = why
      BY <2>1, <2>2, CodesNameCauses
    <3> QED BY <2>2, <3>1, VaultCodes DEF Results
  <2>3. CASE why \notin DOMAIN VaultCode
    BY <2>1, <2>3 DEF Results
  <2> QED BY <2>2, <2>3
<1> QED BY <1>1, <1>2, <1>3

\* The guardrail throws before anything is sent, or the spend is sent.
LEMMA SpendAdvances ==
    ASSUME Inv, NEW c \in Callers, spend(c) PROVE Advance
<1>1. calls \in [Callers -> Calls] /\ CallTrue(calls[c]) /\ txs \in Seq(Transactions)
  BY DEF Inv, Base, TypeOK
<1>2. PICK h \in Calls : h = calls[c]
  BY <1>1
<1>3. /\ h.pc = "reads" /\ h.op # "request"
      /\ UNCHANGED <<chainVars, seen, acts>>
  BY <1>2 DEF spend
<1>4. /\ h.tx = 0 /\ h.sent = 0 /\ h.to \in Services /\ h.amount \in Amounts
      /\ (h.op = "pay" /\ h.nonce = 1 => h.receipt = <<"given">>) /\ h.op # "none"
  BY <1>1, <1>2, <1>3 DEF CallTrue
<1>5. PICK verdict : verdict = guardSpend(h.v, h.p, h.to, h.amount, h.s)
  OBVIOUS
<1>6. CASE verdict # "ok"
  <2>1. calls' = [calls EXCEPT ![c] = Idle] /\ UNCHANGED txs
    BY <1>2, <1>4, <1>5, <1>6 DEF spend, Ends
  <2> QED BY <1>3, <2>1, IdleTrue, LocalAdvances
<1>7. CASE verdict = "ok"
  <2>0. PICK n, op : n = Len(txs) + 1 /\ op = IF h.op = "x402" THEN "spend" ELSE h.op
    OBVIOUS
  <2> DEFINE t == [op |-> op, to |-> h.to, amount |-> h.amount, receipt |-> h.receipt,
                   nonce |-> h.nonce, status |-> "flying", why |-> "none"]
             k == [h EXCEPT !.pc = "wait", !.tx = n, !.sent = 1, !.v = None,
                            !.p = None, !.s = 0]
  <2>1. txs' = Append(txs, t)
    BY <1>2, <1>5, <1>7, <2>0 DEF spend, Sent
  <2>2. calls' = [calls EXCEPT ![c] = k]
    <3>1. calls[c].sent + 1 = 1
      BY <1>2, <1>4
    <3>2. calls' = [calls EXCEPT ![c].pc = "wait", ![c].tx = n, ![c].sent = @ + 1,
                                 ![c].v = None, ![c].p = None, ![c].s = 0]
      BY <1>2, <1>5, <1>7, <2>0 DEF spend
    <3>3. calls'[c] = [calls[c] EXCEPT !.pc = "wait", !.tx = n, !.sent = @ + 1,
                                       !.v = None, !.p = None, !.s = 0]
      BY <1>1, <3>2
    <3>4. calls'[c] = k
      BY <1>2, <3>1, <3>3
    <3>5. \A d \in Callers : d # c => calls'[d] = calls[d]
      BY <1>1, <3>2
    <3>6. calls' = [d \in Callers |-> calls'[d]]
      BY <1>1, <3>2
    <3> HIDE DEF k
    <3> QED BY <1>1, <3>4, <3>5, <3>6
  <2>3. op \in {"spend", "pay"} /\ h.receipt \in Receipts /\ h.nonce \in Nat
    BY <1>3, <1>4, <2>0 DEF Calls
  <2>4. t \in Transactions /\ Fresh(t)
    BY <1>4, <2>0, <2>3 DEF Transactions, Fresh
  <2>5. n \in Nat
    BY <1>1, <2>0, LenProperties
  <2>6. /\ 0 \in CV!Slots /\ None \in CV!Vaults \cup {None}
        /\ None \in CV!SpendPolicies \cup {None} /\ 1 \in 0..1
        /\ "wait" \in {"idle", "reads", "wait", "retry"}
    BY ProgramAssumption DEF CV!Slots
  <2>7. k \in Calls
    BY <2>5, <2>6, ZenonT(60) DEF Calls
  <2>8. k.op = h.op /\ k.pc = "wait" /\ k.tx = n
    BY DEF Calls
  <2> HIDE DEF k, t
  <2> QED BY <1>3, <1>4, <2>0, <2>1, <2>2, <2>4, <2>7, <2>8, SendAdvances
<1> QED BY <1>6, <1>7

\* requestSpend sends for the count it read.
LEMMA RequestAdvances ==
    ASSUME Inv, NEW c \in Callers, requestSpend(c) PROVE Advance
<1>1. calls \in [Callers -> Calls] /\ CallTrue(calls[c]) /\ txs \in Seq(Transactions)
  BY DEF Inv, Base, TypeOK
<1>2. PICK h \in Calls : h = calls[c]
  BY <1>1
<1>3. /\ h.pc = "reads" /\ h.op = "request" /\ h.todo = {}
      /\ UNCHANGED <<chainVars, seen, acts>>
  BY <1>2 DEF requestSpend
<1>4. /\ h.tx = 0 /\ h.to \in Services /\ h.amount \in Amounts
      /\ h.v \in CV!Vaults
  BY <1>1, <1>2, <1>3 DEF CallTrue
<1>5. PICK n, m : n = Len(txs) + 1 /\ m = h.v.pending_count
  OBVIOUS
<1>6. n \in Nat /\ m \in Nat
  <2>1. m \in Nat
    BY <1>4, <1>5, ProgramAssumption DEF CV!Vaults, CV!U64
  <2> QED BY <1>1, <1>5, <2>1, LenProperties
<1> DEFINE t == [op |-> "request", to |-> h.to, amount |-> h.amount, receipt |-> None,
                 nonce |-> m, status |-> "flying", why |-> "none"]
           k == [h EXCEPT !.pc = "wait", !.tx = n, !.nonce = m, !.v = None]
<1>7. txs' = Append(txs, t)
  BY <1>2, <1>5 DEF requestSpend, Sent
<1>8. calls' = [calls EXCEPT ![c] = k]
  BY <1>1, <1>2, <1>5 DEF requestSpend
<1>9. t \in Transactions /\ Fresh(t) /\ t.op = "request" /\ t.nonce = m
      /\ t.amount = h.amount
  BY <1>4, <1>6 DEF Transactions, Fresh, Receipts
<1>10. None \in CV!Vaults \cup {None} /\ "wait" \in {"idle", "reads", "wait", "retry"}
  OBVIOUS
<1>11. k \in Calls
  BY <1>6, <1>10, ZenonT(60) DEF Calls
<1>12. k.op = h.op /\ k.pc = "wait" /\ k.tx = n /\ k.nonce = m /\ k.amount = h.amount
  BY DEF Calls
<1> HIDE DEF k, t
<1> QED BY <1>3, <1>5, <1>7, <1>8, <1>9, <1>11, <1>12, SendAdvances

\* Every outcome, the client giving up included.
LEMMA ReturnAdvances ==
    ASSUME Inv, NEW c \in Callers, Return(c) PROVE Advance
<1>1. calls \in [Callers -> Calls] /\ CallTrue(calls[c])
  BY DEF Inv, Base, TypeOK
<1>2. PICK h \in Calls : h = calls[c]
  BY <1>1
<1>3. h.pc = "wait" /\ CallTrue(h) /\ UNCHANGED <<chainVars, txs, seen, acts>>
  BY <1>1, <1>2 DEF Return
<1>4. PICK t : t = txs[h.tx]
  OBVIOUS
<1>5. CASE t.status = "ok" /\ h.op = "x402"
  <2> DEFINE k == [h EXCEPT !.pc = "retry"]
  <2>1. calls' = [calls EXCEPT ![c] = k]
    BY <1>1, <1>2, <1>4, <1>5 DEF Return
  <2>2. k \in Calls
    BY ZenonT(60) DEF Calls
  <2>3. k.op = "x402" /\ k.pc = "retry" /\ k.tx = h.tx /\ k.sent = h.sent
    BY <1>5 DEF Calls
  <2> HIDE DEF k
  <2>4. CallTrue(k)
    BY <1>3, <1>4, <1>5, <2>3 DEF CallTrue
  <2> QED BY <1>2, <1>3, <2>1, <2>2, <2>3, <2>4, LocalAdvances
<1>6. CASE t.status = "ok" /\ h.op # "x402"
  <2>1. Ends(c, "ok")
    BY <1>2, <1>4, <1>6 DEF Return
  <2>2. "ok" \in Results
    BY DEF Results
  <2> QED BY <1>2, <1>3, <1>4, <1>6, <2>1, <2>2, EndsAdvances
<1>7. CASE t.status = "err"
  <2>1. PICK r : r = Thrown(h.op, t.why)
    OBVIOUS
  <2>2. Ends(c, r)
    BY <1>2, <1>4, <1>7, <2>1 DEF Return
  <2>3. r \in Results /\ r # "ok" /\ r \in {"raw", t.why}
    BY <2>1, ThrownIs
  <2> QED BY <1>2, <1>3, <1>4, <1>7, <2>2, <2>3, EndsAdvances
<1>8. CASE t.status # "ok" /\ t.status # "err"
  <2>1. Ends(c, "raw")
    BY <1>2, <1>4, <1>8 DEF Return
  <2>2. "raw" \in Results
    BY DEF Results
  <2> QED BY <1>2, <1>3, <2>1, <2>2, EndsAdvances
<1> QED BY <1>5, <1>6, <1>7, <1>8

\* The x402 wrapper's retry ends the call, without a second payment.
LEMMA RetryAdvances ==
    ASSUME Inv, NEW c \in Callers, paymentRequired(c) PROVE Advance
<1>1. CallTrue(calls[c])
  BY DEF Inv, Base
<1>2. /\ calls[c].pc = "retry" /\ UNCHANGED <<chainVars, txs, seen, acts>>
      /\ Ends(c, "ok") \/ Ends(c, "raw")
  BY DEF paymentRequired
<1>3. txs[calls[c].tx].status = "ok"
  BY <1>1, <1>2 DEF CallTrue
<1>4. "ok" \in Results /\ "raw" \in Results
  BY DEF Results
<1> QED BY <1>2, <1>3, <1>4, EndsAdvances

-----------------------------------------------------------------------------

\* A funded vault, and no call yet.
LEMMA InitInv == Init => Inv
<1> SUFFICES ASSUME Init PROVE Inv
  OBVIOUS
<1>1. CV!TypeOK
  <2>1. PICK a \in Policies :
         policy = [whitelist |-> a.whitelist, per_tx_limit |-> a.per_tx,
                   hourly_limit |-> a.hourly, lifetime_limit |-> a.lifetime,
                   window_start |-> 0, window_spent |-> 0,
                   allow_post_pay |-> a.post_pay]
    BY DEF Init
  <2>2. 0 \in CV!U64 /\ Supply \in CV!U64 /\ 0 \in CV!Slots /\ FirstSlot \in CV!Slots
    BY ProgramAssumption DEF CV!U64, CV!Slots
  <2>3. vault \in CV!Vaults
    BY <2>2 DEF Init, CV!Vaults
  <2>4. a \in CV!PolicyArgs
    BY PolicyAssumption
  <2>5. policy \in CV!SpendPolicies
    BY <2>1, <2>2, <2>4 DEF CV!SpendPolicies, CV!PolicyArgs, CV!Whitelists
  <2>6. tokens \in [CV!Keys -> Nat]
    BY <2>2, ProgramAssumption DEF Init
  <2> QED BY <2>2, <2>3, <2>5, <2>6 DEF Init, CV!TypeOK, CV!NoPayments
<1>2. txs = <<>> /\ records = <<>> /\ \A c \in Callers : calls[c] = Idle
  BY DEF Init
<1>3. DOMAIN txs = {} /\ DOMAIN records = {} /\ Len(txs) = 0
  BY <1>2
<1>4. TypeOK
  BY <1>1, <1>2, <1>3, IdleTrue, CallersAssumption DEF Init, TypeOK
<1>5. \A c \in Callers : CallTrue(calls[c]) /\ calls[c].tx = 0
  BY <1>2, IdleTrue
<1> QED BY <1>3, <1>4, <1>5 DEF Inv, Base, TxsApart, RecordsTrue, CallsApart

\* Each action of Next, in turn.
LEMMA NextAdvances ==
    ASSUME Inv, Next PROVE Advance
<1>0. DOMAIN txs = 1..Len(txs)
  <2>1. txs \in Seq(Transactions)
    BY DEF Inv, Base, TypeOK
  <2> QED BY <2>1, LenProperties
<1>1. CASE Cluster
  BY <1>0, <1>1, ClusterAdvances DEF Cluster
<1>2. CASE OwnerActs \/ setServiceActive \/ RecorderRestarts
  BY <1>2, OwnerAdvances
<1>3. ASSUME NEW c \in Callers, Starts(c) \/ CallStep(c) PROVE Advance
  BY <1>3, StartsAdvance, ReadAdvances, SpendAdvances, RequestAdvances,
     ReturnAdvances, RetryAdvances DEF CallStep
<1>4. ASSUME NEW i \in 1..Len(txs), onFrame(i) PROVE Advance
  BY <1>0, <1>4, FrameAdvances
<1> QED BY <1>1, <1>2, <1>3, <1>4 DEF Next

\* The invariant is inductive.
LEMMA NextInv == Inv /\ [Next]_vars => Inv'
<1>1. ASSUME Inv, Next PROVE Inv'
  BY <1>1, NextAdvances, AdvanceInv
<1>2. ASSUME Inv, UNCHANGED vars PROVE Inv'
  <2>1. TypeOK /\ CV!TypeOK
    BY <1>2 DEF Inv, Base, TypeOK
  <2>2. UNCHANGED <<chainVars, vaultVars, txs, calls, seen, acts, active, receipts, records>>
    BY <1>2 DEF vars, chainVars
  <2>3. Quiet
    BY <2>1, <2>2, SameVault, SameTxsQuiet
  <2>4. Advance
    BY <1>2, <2>1, <2>2, <2>3, QuietAdvance DEF CallsMove, TypeOK
  <2> QED BY <1>2, <2>4, AdvanceInv
<1> QED BY <1>1, <1>2

\* It always holds.
LEMMA AlwaysInv == Spec => []Inv
BY InitInv, NextInv, PTL DEF Spec

-----------------------------------------------------------------------------

\* Type correctness of the payment path: calls, transactions, receipts and
\* records always have their types.
THEOREM SdkTypeCorrect == Spec => []TypeOK
<1>1. Inv => TypeOK
  BY DEF Inv, Base
<1> QED BY <1>1, AlwaysInv, PTL

\* The local guardrail (guardrails.ts) and the program's ladder (policy.rs) always
\* give the same verdict with the same reason, for every destination a call can
\* name and every amount: neither is ahead of the other at a window's edge, at a
\* limit of zero or over a padded whitelist.
THEOREM LaddersAgree == Spec => []LadderAgrees
<1>1. ASSUME Inv PROVE LadderAgrees
  <2>1. CV!TypeOK
    BY <1>1 DEF Inv, Base, TypeOK
  <2>2. \A to \in Services \cup {Owner} : to # DefaultKey
    BY ProgramAssumption
  <2>3. \A a \in Amounts \cup {0, Supply} : a \in Nat
    BY ProgramAssumption
  <2> QED BY <2>1, <2>2, <2>3, GuardAgrees DEF LadderAgrees
<1> QED BY <1>1, AlwaysInv, PTL

\* A typed error that a call threw for a refused transaction is what the chain
\* refused it for, however the state moved between the reads and the landing.
THEOREM ErrorsNameCauses == Spec => []ErrorNamesCause
<1>1. ASSUME Inv PROVE ErrorNamesCause
  BY <1>1 DEF Inv, Base, CallTrue, ErrorNamesCause
<1> QED BY <1>1, AlwaysInv, PTL

\* A requestSpend that returned owns the PendingSpend it names, and no two
\* calls are told the same one, although both may have read the same count.
THEOREM RequestsOwnTheirNonce == Spec => []RequestOwnsNonce
<1>1. ASSUME Inv PROVE RequestOwnsNonce
  <2>1. ASSUME NEW c \in Callers, calls[c].pc = "idle", calls[c].op = "request",
               calls[c].result = "ok"
        PROVE  /\ calls[c].tx # 0 /\ calls[c].tx \in DOMAIN txs
               /\ txs[calls[c].tx].status = "ok" /\ txs[calls[c].tx].op = "request"
               /\ txs[calls[c].tx].nonce = calls[c].nonce
               /\ Owned(calls[c].nonce, calls[c].amount)
    <3>1. CallTrue(calls[c]) /\ calls[c].tx \in 0..Len(txs) /\ txs \in Seq(Transactions)
      BY <1>1 DEF Inv, Base, TypeOK
    <3>2. calls[c].tx # 0
      BY <2>1, <3>1 DEF CallTrue
    <3>3. calls[c].tx \in DOMAIN txs
      BY <3>1, <3>2, LenProperties
    <3>4. /\ txs[calls[c].tx].status = "ok" /\ txs[calls[c].tx].op = "request"
          /\ txs[calls[c].tx].nonce = calls[c].nonce
          /\ txs[calls[c].tx].amount = calls[c].amount
      BY <2>1, <3>1, <3>2 DEF CallTrue
    <3>5. TxTrue(calls[c].tx)
      BY <1>1, <3>3 DEF Inv, Base
    <3>6. Owned(calls[c].nonce, calls[c].amount)
      BY <3>4, <3>5 DEF TxTrue
    <3> QED BY <3>2, <3>3, <3>4, <3>6
  <2>2. ASSUME NEW c \in Callers, NEW d \in Callers, c # d,
               calls[c].pc = "idle", calls[c].op = "request", calls[c].result = "ok",
               calls[d].pc = "idle", calls[d].op = "request", calls[d].result = "ok"
        PROVE  calls[d].nonce # calls[c].nonce
    <3>1. calls[c].tx # calls[d].tx
      BY <1>1, <2>1, <2>2 DEF Inv, CallsApart
    <3> QED BY <1>1, <2>1, <2>2, <3>1 DEF Inv, TxsApart
  <2> QED BY <2>1, <2>2 DEF RequestOwnsNonce, Owned
<1> QED BY <1>1, AlwaysInv, PTL

\* A payment retried under its receipt is made at most once, an x402 request
\* pays at most once, and the recorder attests a spend at most once, through
\* timeouts, late landings, duplicate frames and restarts.
THEOREM RetriesAreSafe == Spec => []RetriesRepeatNothing
<1>1. ASSUME Inv PROVE RetriesRepeatNothing
  <2>0. DOMAIN txs = 1..Len(txs) /\ DOMAIN records = 1..Len(records)
    <3>1. txs \in Seq(Transactions) /\ records \in Seq([spend : Nat, by : {"pay", "record"}])
      BY <1>1 DEF Inv, Base, TypeOK
    <3> QED BY <3>1, LenProperties
  <2>1. GivenReceiptPaysOnce
    <3> DEFINE S == {i \in 1..Len(txs) : /\ txs[i].op = "pay" /\ txs[i].status = "ok"
                                         /\ txs[i].nonce = 1}
    <3>1. \A i \in S : TxTrue(i) /\ txs[i].receipt = <<"given">>
      BY <1>1, <2>0 DEF Inv, Base, TxTrue
    <3>2. \A i, j \in S : i = j
      BY <1>1, <2>0, <3>1 DEF Inv, TxsApart
    <3> HIDE DEF S
    <3>3. Cardinality(S) <= 1
      BY <3>2, AtMostOne
    <3> QED BY <3>3 DEF GivenReceiptPaysOnce, S
  <2>2. OneSpendPerRequest
    BY <1>1 DEF Inv, Base, TypeOK, Calls, OneSpendPerRequest
  <2>3. RecorderAttestsOnce
    <3> SUFFICES ASSUME NEW i \in 1..Len(txs)
                 PROVE  Cardinality({r \in 1..Len(records) :
                                      records[r] = [spend |-> i, by |-> "record"]}) <= 1
      BY DEF RecorderAttestsOnce
    <3> DEFINE S == {r \in 1..Len(records) : records[r] = [spend |-> i, by |-> "record"]}
    <3>1. \A r, q \in S : r = q
      BY <1>1, <2>0 DEF Inv, RecordsTrue
    <3> HIDE DEF S
    <3>2. Cardinality(S) <= 1
      BY <3>1, AtMostOne
    <3> QED BY <3>2 DEF S
  <2> QED BY <2>1, <2>2, <2>3 DEF RetriesRepeatNothing
<1> QED BY <1>1, AlwaysInv, PTL

-----------------------------------------------------------------------------
(* The program under these callers.  The state of CreditVault moves only by *)
(* its own steps, so what CreditVaultProofs says of a step holds here too.  *)

\* The parameters the owner passes are those the program takes.
LEMMA ProgramPolicies == Policies \subseteq P!PolicyArgs
BY PolicyAssumption, SameSets
   DEF CV!PolicyArgs, P!PolicyArgs, CV!Whitelists, P!Whitelists, CV!Cardinality, P!Cardinality

\* A step that leaves vaultVars leaves the program.
LEMMA VaultAside ==
    ASSUME UNCHANGED vaultVars PROVE UNCHANGED P!vars
BY DEF vaultVars, P!vars, P!program, P!history

\* A transaction that lands is one instruction of the program, or none when it is
\* refused or only attests.
LEMMA LandRuns ==
    ASSUME TypeOK, NEW i \in 1..Len(txs), Land(i) PROVE [P!Next]_(P!vars)
<1>1. txs[i].to \in Services /\ txs[i].amount \in Amounts
      /\ txs[i].op \in {"spend", "pay", "request", "record"}
  <2>1. txs \in Seq(Transactions)
    BY DEF TypeOK
  <2>2. txs[i] \in Transactions
    BY <2>1, LenProperties
  <2> QED BY <2>2 DEF Transactions
<1>2. txs[i].to \in CV!Keys
  BY <1>1 DEF CV!Keys, CV!KeyHolders
<1>3. CASE Refusal(txs[i]) = "ok"
  <2>1. Executed(i)
    BY <1>3 DEF Land
  <2>2. CASE txs[i].op \in {"spend", "pay"}
    <3>1. CV!spend(txs[i].to, txs[i].amount)
      BY <2>1, <2>2 DEF Executed
    <3> QED BY <1>1, <1>2, <3>1, SpendIs
  <2>3. CASE txs[i].op = "request"
    <3>1. CV!request_spend(txs[i].to, txs[i].amount)
      BY <2>1, <2>3 DEF Executed
    <3> QED BY <1>1, <1>2, <3>1, RequestIs
  <2>4. CASE txs[i].op = "record"
    <3>1. UNCHANGED vaultVars
      BY <2>1, <2>4 DEF Executed
    <3> QED BY <3>1, VaultAside
  <2> QED BY <1>1, <2>2, <2>3, <2>4
<1>4. CASE Refusal(txs[i]) # "ok"
  <2>1. UNCHANGED vaultVars
    BY <1>4 DEF Land
  <2> QED BY <2>1, VaultAside
<1> QED BY <1>3, <1>4

\* Whatever a step of agents, owner, service, recorder or cluster does, the
\* program takes one of its steps or none.
LEMMA StepRuns == TypeOK /\ [Next]_vars => [P!Next]_(P!vars)
<1> SUFFICES ASSUME TypeOK, [Next]_vars PROVE [P!Next]_(P!vars)
  OBVIOUS
<1>1. ASSUME NEW i \in 1..Len(txs), Land(i) \/ Expire(i)
      PROVE  [P!Next]_(P!vars)
  <2>1. CASE Land(i)
    BY <2>1, LandRuns
  <2>2. CASE Expire(i)
    <3>1. UNCHANGED vaultVars
      BY <2>2 DEF Expire, chainVars
    <3> QED BY <3>1, VaultAside
  <2> QED BY <1>1, <2>1, <2>2
<1>2. CASE OwnerActs
  <2>1. CV!TypeOK
    BY DEF TypeOK
  <2> QED BY <1>2, <2>1, OwnerIs
<1>3. ASSUME NEW c \in Callers, Starts(c) \/ CallStep(c) PROVE UNCHANGED vaultVars
  BY <1>3 DEF Starts, StartSpend, StartPay, StartRequest, CallStep, Read, spend,
     requestSpend, Return, paymentRequired, chainVars
<1>4. CASE \/ setServiceActive \/ RecorderRestarts \/ UNCHANGED vars
           \/ \E i \in 1..Len(txs) : onFrame(i)
  <2>1. UNCHANGED vaultVars
    BY <1>4 DEF setServiceActive, RecorderRestarts, onFrame, vars, chainVars
  <2> QED BY <2>1, VaultAside
<1> QED BY <1>1, <1>2, <1>3, <1>4, VaultAside DEF Next, Cluster

\* Every behaviour of the payment path is a behaviour of the program, from a
\* funded vault on: no call, retry or attestation gives the chain a step that
\* CreditVault does not have.
THEOREM PathRunsTheProgram == Spec => [][P!Next]_(P!vars)
BY StepRuns, SdkTypeCorrect, PTL DEF Spec

\* What the program's proofs rest on holds of the funded vault.
LEMMA FundedVault == Init => P!Inv /\ P!WindowAccounted /\ P!HourlyBound
<1> SUFFICES ASSUME Init PROVE P!Inv /\ P!WindowAccounted /\ P!HourlyBound
  OBVIOUS
<1>1. P!TypeOK
  BY InitInv, SameTypes DEF Inv, Base, TypeOK
<1>2. /\ vault.total_deposited = Supply /\ vault.total_withdrawn = 0
      /\ vault.total_spent = 0 /\ vault.total_claimed = 0 /\ vault.pending_count = 0
      /\ pending = {} /\ settled = {} /\ offBook = 0 /\ Supply \in Nat
  BY ProgramAssumption DEF Init
<1>3. tokens[Vault] = Supply
  <2>1. Vault \in CV!Keys
    BY DEF CV!Keys
  <2> QED BY <2>1 DEF Init
<1>4. P!Conservation /\ P!ClaimedWithinSpent
  BY <1>2, <1>3 DEF P!Conservation, P!ClaimedWithinSpent
<1>5. P!RequestsAccounted
  BY <1>2, ProgramAssumption DEF P!RequestsAccounted, P!U64
<1>6. P!WindowAccounted /\ P!HourlyBound
  <2>1. paidAt = P!NoPayments
    BY SameSets DEF Init, CV!NoPayments, P!NoPayments
  <2>2. policy.window_start <= slot
    BY ProgramAssumption DEF Init
  <2> QED BY <1>1, <2>1, <2>2, ProgramAssumption, ProgramPolicies, P!WindowUnused
<1> QED BY <1>1, <1>4, <1>5, <1>6 DEF P!Inv

\* The program's own steps keep it.
LEMMA ProgramKeeps ==
    P!Inv /\ P!WindowAccounted /\ P!HourlyBound /\ [P!Next]_(P!vars)
      => (P!Inv /\ P!WindowAccounted /\ P!HourlyBound)'
<1> SUFFICES ASSUME P!Inv, P!WindowAccounted, P!HourlyBound, [P!Next]_(P!vars)
             PROVE  (P!Inv /\ P!WindowAccounted /\ P!HourlyBound)'
  OBVIOUS
<1>1. P!TypeOK /\ P!Conservation /\ P!ClaimedWithinSpent /\ P!RequestsAccounted
  BY DEF P!Inv
<1>2. P!TypeOK'
  BY <1>1, ProgramAssumption, ProgramPolicies, P!NextTypeOK
<1>3. P!Conservation' /\ P!ClaimedWithinSpent'
  BY <1>1, ProgramAssumption, ProgramPolicies, P!NextBooks
<1>4. P!RequestsAccounted'
  BY <1>1, ProgramAssumption, ProgramPolicies, P!NextRequests
<1>5. P!WindowAccounted' /\ P!HourlyBound'
  BY <1>1, <1>2, ProgramAssumption, ProgramPolicies, P!NextWindow
<1> QED BY <1>2, <1>3, <1>4, <1>5 DEF P!Inv

\* However many processes race with the agent's key, retry, time out and give
\* up, the vault's books explain its balance, no request is lost or settled twice
\* and an hour's payments stay within twice the limit.
THEOREM PathKeepsTheBooks ==
    Spec => [](P!Conservation /\ P!RequestsAccounted /\ P!HourlyBound)
<1> DEFINE I == P!Inv /\ P!WindowAccounted /\ P!HourlyBound
<1>1. Init => I
  BY FundedVault
<1>2. I /\ [P!Next]_(P!vars) => I'
  BY ProgramKeeps
<1>3. I => P!Conservation /\ P!RequestsAccounted /\ P!HourlyBound
  BY DEF P!Inv
<1> HIDE DEF I
<1> QED BY <1>1, <1>2, <1>3, PathRunsTheProgram, PTL DEF Spec

\* The types of the program, which its action properties need.
LEMMA PathTyped == Spec => []P!TypeOK
<1>1. TypeOK => P!TypeOK
  BY SameTypes DEF TypeOK
<1> QED BY <1>1, SdkTypeCorrect, PTL

\* What the owner set limits for holds against all of them together: a payment over
\* a limit, measured when it lands and not when it was checked locally, consumes a
\* request the owner approved; a frozen vault pays nobody and queues nothing; and
\* whoever is paid is on the whitelist in force at that moment.
THEOREM PathObeysTheOwner ==
    Spec => P!OverLimitNeedsApproval /\ P!FrozenInert /\ P!PaymentsWhitelisted
<1>1. []P!TypeOK /\ [][P!Next]_(P!vars) => P!OverLimitNeedsApproval
  BY ProgramAssumption, ProgramPolicies, P!LimitsStep
<1>2. []P!TypeOK /\ [][P!Next]_(P!vars) => P!FrozenInert
  BY ProgramAssumption, ProgramPolicies, P!FrozenStep
<1>3. []P!TypeOK /\ [][P!Next]_(P!vars) => P!PaymentsWhitelisted
  BY ProgramAssumption, ProgramPolicies, P!WhitelistStep
<1> QED BY <1>1, <1>2, <1>3, PathTyped, PathRunsTheProgram, PTL

\* The owner's escrow sees only its own steps: each payment, request, approval and
\* stop of the path is one of them, and everything else is invisible to it.
THEOREM PathStepsTheEscrow == Spec => [][P!E!Next]_(P!E!escrow)
<1> DEFINE I == P!Inv /\ P!WindowAccounted /\ P!HourlyBound
<1>1. Init => I
  BY FundedVault
<1>2. I /\ [P!Next]_(P!vars) => I'
  BY ProgramKeeps
<1>3. I /\ [P!Next]_(P!vars) => [P!E!Next]_(P!E!escrow)
  BY ProgramAssumption, ProgramPolicies, P!StepSimulates
<1> HIDE DEF I
<1> QED BY <1>1, <1>2, <1>3, PathRunsTheProgram, PTL DEF Spec
=============================================================================
