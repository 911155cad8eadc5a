---------------------------- MODULE CreditVault ----------------------------
(***************************************************************************)
(* The credit_vault Anchor program (programs/credit_vault/src): one vault  *)
(* PDA, its SpendPolicy, its USDC token account and its PendingSpend       *)
(* accounts.  A Solana transaction is atomic: a failed require! or CPI     *)
(* rolls back everything, so each instruction is one action whose guard is *)
(* the conjunction of the account constraints and require!s.               *)
(*                                                                         *)
(* A token account is identified with the key that owns it.  The vault's   *)
(* own token account (owned by the vault PDA) is a legal destination of    *)
(* spend, approve_spend and withdraw, which check the mint only.           *)
(***************************************************************************)
EXTENDS Integers, FiniteSets, FiniteSums

CONSTANTS
    Owner, Vault,   \* the owner's key and the vault PDA
    Services,       \* keys of services
    DefaultKey,     \* Pubkey::default(), the padding of the whitelist array
    Supply,         \* USDC in circulation
    Amounts,        \* values of an instruction's amount_usdc argument
    Policies,       \* argument tuples of create_vault and update_policy
    WhitelistLen,   \* WHITELIST_LEN
    SlotsPerHour,   \* SLOTS_PER_HOUR
    MaxU64,         \* u64::MAX
    FirstSlot,      \* the slot at genesis of the model
    MaxSlot         \* bound of the run: the last slot reached

ASSUME ConstantsAssumption ==
    /\ Owner \notin Services /\ Vault \notin Services
    /\ DefaultKey \notin Services
    /\ Owner # Vault /\ Owner # DefaultKey /\ Vault # DefaultKey
    /\ MaxU64 \in Nat /\ Supply \in 0..MaxU64
    /\ Amounts \subseteq 0..MaxU64
    /\ WhitelistLen \in Nat /\ SlotsPerHour \in Nat \ {0}
    /\ MaxSlot \in Nat /\ FirstSlot \in 0..MaxSlot

\* Keys somebody can sign with; the other two are a PDA and a zero key.
KeyHolders == Services \cup {Owner}
Keys == KeyHolders \cup {Vault, DefaultKey}
U64 == 0..MaxU64
Slots == 0..MaxSlot

\* The whitelist array, as the set of values in its WHITELIST_LEN entries.
\* Unused entries hold DefaultKey, and the membership test sees them too.
Whitelists == {w \in SUBSET Keys : w # {} /\ Cardinality(w) <= WhitelistLen}

\* What the owner passes to create_vault (which takes no whitelist) and
\* update_policy; a limit of 0 is no limit.
PolicyArgs == [per_tx : U64, hourly : U64, lifetime : U64,
               post_pay : BOOLEAN, whitelist : Whitelists]

ASSUME PoliciesAssumption == Policies \subseteq PolicyArgs

VARIABLES
    created,    \* has create_vault run for this (owner, agent)?
    vault,      \* the CreditVault account
    policy,     \* the SpendPolicy account
    tokens,     \* USDC held by the token account of each key
    pending,    \* the open PendingSpend accounts
    slot,       \* Clock::get()?.slot
    \* history, read by the properties only
    offBook,    \* USDC the token account got outside deposit
    settled,    \* nonces of the PendingSpend accounts already closed
    paidAt      \* ladder payments at each slot since the last policy change

program == <<created, vault, policy, pending>>
history == <<offBook, settled, paidAt>>
vars == <<program, tokens, slot, history>>

PendingSpends ==
    [nonce : U64, service : Keys, amount : U64, requested_slot : Slots]

Vaults ==
    [total_deposited : U64, total_withdrawn : U64, total_spent : U64,
     total_claimed : U64, frozen : BOOLEAN, last_active_slot : Slots,
     pending_count : U64]

SpendPolicies ==
    [whitelist : SUBSET Keys, per_tx_limit : U64, hourly_limit : U64,
     lifetime_limit : U64, window_start : Slots, window_spent : U64,
     allow_post_pay : BOOLEAN]

TypeOK ==
    /\ created \in BOOLEAN
    /\ vault \in Vaults
    /\ policy \in SpendPolicies
    /\ tokens \in [Keys -> Nat]
    /\ pending \subseteq PendingSpends
    /\ slot \in Slots
    /\ offBook \in Nat
    /\ settled \subseteq U64
    /\ paidAt \in [Slots -> Nat]

NoPayments == [s \in Slots |-> 0]

Init ==
    /\ created = FALSE
    /\ vault = [total_deposited |-> 0, total_withdrawn |-> 0,
                total_spent |-> 0, total_claimed |-> 0, frozen |-> FALSE,
                last_active_slot |-> 0, pending_count |-> 0]
    /\ policy = [whitelist |-> {DefaultKey}, per_tx_limit |-> 0,
                 hourly_limit |-> 0, lifetime_limit |-> 0,
                 window_start |-> 0, window_spent |-> 0,
                 allow_post_pay |-> FALSE]
    /\ tokens = [k \in Keys |-> IF k = Owner THEN Supply ELSE 0]
    /\ pending = {}
    /\ slot = FirstSlot
    /\ offBook = 0 /\ settled = {} /\ paidAt = NoPayments

----------------------------------------------------------------------------
(* The policy ladder, shared by spend and claim.                           *)

AnySet(whitelist) == whitelist \ {DefaultKey} # {}

CheckWhitelist(whitelist, recipient) ==
    AnySet(whitelist) => recipient \in whitelist

Within(amount, limit) == limit > 0 => amount <= limit

\* Mutant: plain addition.
CheckedAddUnchecked(total, amount) == TRUE

CheckedAdd(total, amount) == total + amount <= MaxU64

\* Mutant: a window that ends with the slot it started in.
WindowElapsedNextSlot == slot - policy.window_start >= 1

WindowElapsed == slot - policy.window_start >= SlotsPerHour

WindowStart == IF WindowElapsed THEN slot ELSE policy.window_start

WindowSpent == IF WindowElapsed THEN 0 ELSE policy.window_spent

WithinLimits(amount) ==
    /\ Within(amount, policy.per_tx_limit)
    /\ policy.hourly_limit > 0 => WindowSpent + amount <= policy.hourly_limit
    /\ Within(vault.total_spent + amount, policy.lifetime_limit)

\* Mutant: of the limits, only the per-transaction one is checked.
check_and_record_spend_PerTxOnly(recipient, amount) ==
    /\ ~vault.frozen
    /\ amount > 0
    /\ CheckWhitelist(policy.whitelist, recipient)
    /\ Within(amount, policy.per_tx_limit)
    /\ CheckedAdd(vault.total_spent, amount)
    /\ UNCHANGED policy
    /\ paidAt' = [paidAt EXCEPT ![slot] = @ + amount]

\* The guards and the window bookkeeping; the caller moves the tokens and
\* writes the vault account, total_spent included.
check_and_record_spend(recipient, amount) ==
    /\ ~vault.frozen
    /\ amount > 0
    /\ CheckWhitelist(policy.whitelist, recipient)
    /\ WithinLimits(amount)
    /\ CheckedAdd(vault.total_spent, amount)
    /\ policy' = IF policy.hourly_limit > 0
                 THEN [policy EXCEPT !.window_start = WindowStart,
                                     !.window_spent = WindowSpent + amount]
                 ELSE policy
    /\ paidAt' = [paidAt EXCEPT ![slot] = @ + amount]

----------------------------------------------------------------------------
(* The SPL token program and the cluster (external).                       *)

Transfer(from, to, amount) ==
    /\ tokens[from] >= amount
    /\ tokens' = [tokens EXCEPT ![from] = @ - amount, ![to] = @ + amount]

\* Tokens that leave the vault come straight back when the destination is
\* the vault's own token account.
LeaveVault(to, amount) ==
    /\ Transfer(Vault, to, amount)
    /\ offBook' = IF to = Vault THEN offBook + amount ELSE offBook

\* A plain SPL transfer by a key holder, past the program.
ExternalTransfer(from, to, amount) ==
    /\ from # to
    /\ to = Vault => created
    /\ Transfer(from, to, amount)
    /\ offBook' = IF to = Vault THEN offBook + amount ELSE offBook
    /\ UNCHANGED <<program, slot, settled, paidAt>>

AdvanceSlot ==
    /\ slot < MaxSlot
    /\ slot' = slot + 1
    /\ UNCHANGED <<program, tokens, history>>

----------------------------------------------------------------------------
(* Instructions.                                                           *)

create_vault(args) ==
    /\ ~created
    /\ created' = TRUE
    /\ vault' = [vault EXCEPT !.last_active_slot = slot]
    /\ policy' = [policy EXCEPT !.per_tx_limit = args.per_tx,
                                !.hourly_limit = args.hourly,
                                !.lifetime_limit = args.lifetime,
                                !.allow_post_pay = args.post_pay]
    /\ UNCHANGED <<tokens, pending, slot, history>>

deposit(amount) ==
    /\ created
    /\ amount > 0
    /\ Transfer(Owner, Vault, amount)
    /\ CheckedAdd(vault.total_deposited, amount)
    /\ vault' = [vault EXCEPT !.total_deposited = @ + amount,
                              !.last_active_slot = slot]
    /\ UNCHANGED <<created, policy, pending, slot, history>>

\* Signed by the agent; the recipient is the token account's owner.
spend(recipient, amount) ==
    /\ created
    /\ check_and_record_spend(recipient, amount)
    /\ LeaveVault(recipient, amount)
    /\ vault' = [vault EXCEPT !.total_spent = @ + amount,
                              !.last_active_slot = slot]
    /\ UNCHANGED <<created, pending, slot, settled>>

\* Mutant: claims counted beside total_spent, not in it.
claim_CountedApart(service, amount) ==
    /\ created
    /\ policy.allow_post_pay
    /\ check_and_record_spend(service, amount)
    /\ LeaveVault(service, amount)
    /\ CheckedAdd(vault.total_claimed, amount)
    /\ vault' = [vault EXCEPT !.total_claimed = @ + amount,
                              !.last_active_slot = slot]
    /\ UNCHANGED <<created, pending, slot, settled>>

\* Post-pay settlement, signed by the service, into its own token account.
claim(service, amount) ==
    /\ created
    /\ policy.allow_post_pay
    /\ check_and_record_spend(service, amount)
    /\ LeaveVault(service, amount)
    /\ CheckedAdd(vault.total_claimed, amount)
    /\ vault' = [vault EXCEPT !.total_spent = @ + amount,
                              !.total_claimed = @ + amount,
                              !.last_active_slot = slot]
    /\ UNCHANGED <<created, pending, slot, settled>>

\* Signed by the agent.  The new account's address is derived from
\* pending_count, and init fails if that address is in use.
request_spend(recipient, amount) ==
    /\ created
    /\ amount > 0
    /\ ~vault.frozen
    /\ \A p \in pending : p.nonce # vault.pending_count
    /\ CheckedAdd(vault.pending_count, 1)
    /\ pending' = pending \cup
          {[nonce |-> vault.pending_count, service |-> recipient,
            amount |-> amount, requested_slot |-> slot]}
    /\ vault' = [vault EXCEPT !.pending_count = @ + 1,
                              !.last_active_slot = slot]
    /\ UNCHANGED <<created, policy, tokens, slot, history>>

\* Mutant: the settled account is not closed.
CloseForgotten(p) ==
    /\ UNCHANGED pending
    /\ settled' = settled \cup {p.nonce}

\* The close constraint: the account is deleted, its rent returned.
Close(p) ==
    /\ pending' = pending \ {p}
    /\ settled' = settled \cup {p.nonce}

\* Mutant: an approval that trusts the state at request time.
approve_spend_Unchecked(p) ==
    /\ created
    /\ p \in pending
    /\ LeaveVault(p.service, p.amount)
    /\ CheckedAdd(vault.total_spent, p.amount)
    /\ vault' = [vault EXCEPT !.total_spent = @ + p.amount,
                              !.last_active_slot = slot]
    /\ Close(p)
    /\ UNCHANGED <<created, policy, slot, paidAt>>

\* Signed by the owner.  Bypasses the three limits and the hourly window.
approve_spend(p) ==
    /\ created
    /\ p \in pending
    /\ ~vault.frozen
    /\ p.amount > 0
    /\ CheckWhitelist(policy.whitelist, p.service)
    /\ LeaveVault(p.service, p.amount)
    /\ CheckedAdd(vault.total_spent, p.amount)
    /\ vault' = [vault EXCEPT !.total_spent = @ + p.amount,
                              !.last_active_slot = slot]
    /\ Close(p)
    /\ UNCHANGED <<created, policy, slot, paidAt>>

cancel_spend(p) ==
    /\ created
    /\ p \in pending
    /\ Close(p)
    /\ UNCHANGED <<created, vault, policy, tokens, slot, offBook, paidAt>>

freeze_vault ==
    /\ created
    /\ ~vault.frozen
    /\ vault' = [vault EXCEPT !.frozen = TRUE, !.last_active_slot = slot]
    /\ UNCHANGED <<created, policy, tokens, pending, slot, history>>

unfreeze_vault ==
    /\ created
    /\ vault.frozen
    /\ vault' = [vault EXCEPT !.frozen = FALSE, !.last_active_slot = slot]
    /\ UNCHANGED <<created, policy, tokens, pending, slot, history>>

\* Leaves the hourly window and last_active_slot as they are.
update_policy(args) ==
    /\ created
    /\ policy' = [policy EXCEPT !.per_tx_limit = args.per_tx,
                                !.hourly_limit = args.hourly,
                                !.lifetime_limit = args.lifetime,
                                !.allow_post_pay = args.post_pay,
                                !.whitelist = args.whitelist]
    /\ paidAt' = NoPayments
    /\ UNCHANGED <<created, vault, tokens, pending, slot, offBook, settled>>

\* Signed by the owner, into any USDC token account.
withdraw(to, amount) ==
    /\ created
    /\ amount > 0
    /\ LeaveVault(to, amount)
    /\ CheckedAdd(vault.total_withdrawn, amount)
    /\ vault' = [vault EXCEPT !.total_withdrawn = @ + amount,
                              !.last_active_slot = slot]
    /\ UNCHANGED <<created, policy, pending, slot, settled, paidAt>>

----------------------------------------------------------------------------
OwnerStep ==
    \/ \E a \in Amounts : deposit(a)
    \/ \E a \in Amounts, k \in Keys : withdraw(k, a)
    \/ \E p \in pending : approve_spend(p) \/ cancel_spend(p)
    \/ freeze_vault
    \/ unfreeze_vault
    \/ \E args \in Policies : create_vault(args) \/ update_policy(args)

AgentStep ==
    \E a \in Amounts, k \in Keys : spend(k, a) \/ request_spend(k, a)

ServiceStep == \E a \in Amounts, k \in KeyHolders : claim(k, a)

Environment ==
    \/ AdvanceSlot
    \/ \E a \in Amounts, from \in KeyHolders, to \in Keys :
          ExternalTransfer(from, to, a)

Next == OwnerStep \/ AgentStep \/ ServiceStep \/ Environment

Spec == Init /\ [][Next]_vars

----------------------------------------------------------------------------
(* Properties.                                                             *)

\* The vault's books explain its token balance to the unit: what it holds
\* is what was deposited, less withdrawals and payments, plus what reached
\* the token account past deposit.  (deposit, spend, claim, approve_spend and
\* withdraw each pair one transfer with one counter.)
Conservation ==
    tokens[Vault] + vault.total_withdrawn + vault.total_spent
        = vault.total_deposited + offBook

\* Every request ever made is open or settled, never both and never lost:
\* pending_count as the PDA seed gives no address out twice, so a settled
\* request cannot come back and be approved again.
RequestsAccounted ==
    /\ {p.nonce : p \in pending} \cup settled = {n \in U64 : n < vault.pending_count}
    /\ \A p \in pending :
          /\ p.nonce \notin settled
          /\ \A q \in pending : p.nonce = q.nonce => p = q

\* claim counts a payment twice on purpose, in total_spent (by the ladder)
\* and in total_claimed: claims are a part of the spending, not besides it.
ClaimedWithinSpent == vault.total_claimed <= vault.total_spent

\* Ladder payments of any SlotsPerHour consecutive slots under one policy stay
\* within twice the hourly limit: the window restarts at a payment, so a span
\* of that length meets at most two windows of check_and_record_spend.
PaidInSpan(t) == SumOver(paidAt, t..(t + SlotsPerHour - 1) \cap Slots)

HourlyBound ==
    policy.hourly_limit > 0 =>
        \A t \in Slots : PaidInSpan(t) <= 2 * policy.hourly_limit

\* While the vault is frozen nothing is paid, no request is queued and only
\* withdraw takes tokens out (the guards of check_and_record_spend,
\* approve_spend and request_spend, whatever the order of the calls).
FrozenInert ==
    [][vault.frozen =>
         /\ vault'.total_spent = vault.total_spent
         /\ pending' \subseteq pending
         /\ tokens'[Vault] < tokens[Vault] =>
               vault'.total_withdrawn > vault.total_withdrawn]_vars

\* A payment beyond the per-transaction, hourly or lifetime limit then in
\* force happens only as the approval of one open request of that amount.
OverLimitNeedsApproval ==
    [][LET paid == vault'.total_spent - vault.total_spent IN
       paid > 0 /\ ~WithinLimits(paid) =>
          \E p \in pending : p.amount = paid /\ pending' = pending \ {p}]_vars

\* Payments obey the whitelist in force when they are made, the approval of a
\* request queued under an earlier whitelist included.
PaymentsWhitelisted ==
    [][\A k \in Keys \ {Vault} :
          /\ vault'.total_spent > vault.total_spent
          /\ tokens'[k] > tokens[k]
          => CheckWhitelist(policy.whitelist, k)]_vars

\* The vault is an Escrow: tokens past deposit count as put in, a request is
\* its nonce, and everything else the instructions do is a stutter.
E == INSTANCE Escrow WITH
        Sums <- U64, funds <- tokens[Vault],
        given <- vault.total_deposited + offBook,
        paid <- vault.total_spent, returned <- vault.total_withdrawn,
        stopped <- vault.frozen, asked <- vault.pending_count,
        open <- {p.nonce : p \in pending}

\* Whatever the order of the instructions, every one of them is a step of the
\* escrow the owner was promised, or none: no payment beyond the funds or
\* while frozen, and no request settled twice.
ImplementsEscrow == E!Spec

\* The balance the SDK derives from the account (clients/sdk/src/decoders.ts).
SdkBalance ==
    vault.total_deposited - vault.total_withdrawn - vault.total_spent
        + vault.total_claimed

\* The derived balance is off by exactly the claims, which total_spent holds
\* already, and by the tokens that came past deposit: it may be trusted for a
\* vault that never settled post-pay, and for no other.
SdkBalanceOffByClaims ==
    SdkBalance = tokens[Vault] - offBook + vault.total_claimed

============================================================================
