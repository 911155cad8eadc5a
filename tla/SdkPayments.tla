---------------------------- MODULE SdkPayments -----------------------------
(***************************************************************************)
(* Agents paying through the TypeScript SDK (clients/sdk/src), the CLI and *)
(* the x402 wrapper, beside the owner and a service that attests payments  *)
(* (examples/service-recorder).  The chain is the credit_vault program of  *)
(* CreditVault and, of the reputation program, the service's active flag   *)
(* and the used receipts.  A call awaits its reads one by one, checks the  *)
(* ladder locally, sends, and awaits the outcome; other callers and the    *)
(* owner act between any two awaits.                                       *)
(***************************************************************************)
EXTENDS Integers, Sequences, FiniteSets

CONSTANTS
    Owner, Vault, Services, DefaultKey, Supply, Amounts, Policies,
    WhitelistLen, SlotsPerHour, MaxU64, FirstSlot, MaxSlot,  \* see CreditVault
    Callers,      \* processes that hold the agent's key
    MaxCalls,     \* bound: transactions of SDK calls
    MaxTx,        \* bound: transactions in all
    MaxOwner,     \* bound: what the owner and the service do meanwhile
    None          \* no value

ASSUME CallersAssumption == MaxCalls \in Nat /\ MaxTx \in Nat /\ MaxOwner \in Nat

\* The constants of the program, as CreditVault assumes them.
ASSUME ProgramAssumption ==
    /\ Owner \notin Services /\ Vault \notin Services /\ DefaultKey \notin Services
    /\ Owner # Vault /\ Owner # DefaultKey /\ Vault # DefaultKey
    /\ MaxU64 \in Nat /\ Supply \in 0..MaxU64 /\ Amounts \subseteq 0..MaxU64
    /\ WhitelistLen \in Nat /\ SlotsPerHour \in Nat \ {0}
    /\ MaxSlot \in Nat /\ FirstSlot \in 0..MaxSlot

VARIABLES
    created, vault, policy, tokens, pending, slot,   \* see CreditVault
    offBook, settled, paidAt,
    active,       \* the service's registry is active
    receipts,     \* receipt hashes with a ReceiptUsed account
    records,      \* attested payments: the spend's transaction and by whom
    txs,          \* transactions sent
    calls,        \* the SDK call of each process
    seen,         \* the recorder's in-process guard
    acts          \* what the owner and the service have done

CV == INSTANCE CreditVault

ASSUME PolicyAssumption == Policies \subseteq CV!PolicyArgs

vaultVars == <<created, vault, policy, tokens, pending, slot, offBook, settled, paidAt>>
chainVars == <<vaultVars, active, receipts, records>>
vars == <<chainVars, txs, calls, seen, acts>>

Idle == [op |-> "none", pc |-> "idle", to |-> None, amount |-> 0, todo |-> {},
         v |-> None, p |-> None, s |-> 0, receipt |-> None, nonce |-> 0,
         tx |-> 0, sent |-> 0, result |-> "none"]

\* A funded vault under one of the policies; the service is registered.
Init ==
    /\ created = TRUE
    /\ vault = [total_deposited |-> Supply, total_withdrawn |-> 0, total_spent |-> 0,
                total_claimed |-> 0, frozen |-> FALSE, last_active_slot |-> 0,
                pending_count |-> 0]
    /\ \E a \in Policies :
         policy = [whitelist |-> a.whitelist, per_tx_limit |-> a.per_tx,
                   hourly_limit |-> a.hourly, lifetime_limit |-> a.lifetime,
                   window_start |-> 0, window_spent |-> 0,
                   allow_post_pay |-> a.post_pay]
    /\ tokens = [k \in CV!Keys |-> IF k = Vault THEN Supply ELSE 0]
    /\ pending = {} /\ slot = FirstSlot
    /\ offBook = 0 /\ settled = {} /\ paidAt = CV!NoPayments
    /\ active = TRUE /\ receipts = {} /\ records = <<>>
    /\ txs = <<>> /\ calls = [c \in Callers |-> Idle] /\ seen = {}
    /\ acts = 0

-----------------------------------------------------------------------------
(* The local ladder. *)

\* decodeSpendPolicy drops the padding of the whitelist.
decodeSpendPolicy(p) == [p EXCEPT !.whitelist = @ \ {DefaultKey}]

\* The first check of a ladder that refuses; each is <<refuses, error>>.
FirstRefusal(checks) ==
    LET first == {i \in DOMAIN checks : /\ checks[i][1]
                                        /\ \A j \in 1..(i - 1) : ~checks[j][1]}
    IN  IF first = {} THEN "ok" ELSE checks[CHOOSE i \in first : TRUE][2]

guardSpendLateWindow(v, p, to, amount, now) ==
    LET spent == IF now - p.window_start > SlotsPerHour THEN 0 ELSE p.window_spent
    IN  FirstRefusal(
          <<<<v.frozen, "Frozen">>,
            <<amount <= 0, "ZeroAmount">>,
            <<p.whitelist # {} /\ to \notin p.whitelist, "NotWhitelisted">>,
            <<p.per_tx_limit > 0 /\ amount > p.per_tx_limit, "PerTx">>,
            <<p.hourly_limit > 0 /\ spent + amount > p.hourly_limit, "Hourly">>,
            <<p.lifetime_limit > 0 /\ v.total_spent + amount > p.lifetime_limit,
              "Lifetime">>>>)

guardSpend(v, p, to, amount, now) ==
    LET spent == IF now - p.window_start >= SlotsPerHour THEN 0 ELSE p.window_spent
    IN  FirstRefusal(
          <<<<v.frozen, "Frozen">>,
            <<amount <= 0, "ZeroAmount">>,
            <<p.whitelist # {} /\ to \notin p.whitelist, "NotWhitelisted">>,
            <<p.per_tx_limit > 0 /\ amount > p.per_tx_limit, "PerTx">>,
            <<p.hourly_limit > 0 /\ spent + amount > p.hourly_limit, "Hourly">>,
            <<p.lifetime_limit > 0 /\ v.total_spent + amount > p.lifetime_limit,
              "Lifetime">>>>)

-----------------------------------------------------------------------------
(* Errors.  Custom error numbers of the two programs start at 6000.        *)

VaultCode == [ZeroAmount |-> 6001, Frozen |-> 6002, NotWhitelisted |-> 6003,
              PerTx |-> 6004, Hourly |-> 6005, Lifetime |-> 6006]
ReputationCode == [Overflow |-> 6000, ServiceInactive |-> 6001, ZeroAmount |-> 6002]

\* The typed errors by number; every other error is thrown as it came.
Typed(map, code) ==
    IF \E e \in DOMAIN map : map[e] = code
    THEN CHOOSE e \in DOMAIN map : map[e] = code ELSE "raw"

mapSpendErrorShifted(code) ==
    Typed([ZeroAmount |-> 6000, Frozen |-> 6001, NotWhitelisted |-> 6002,
           PerTx |-> 6003, Hourly |-> 6004, Lifetime |-> 6005], code)

mapSpendError(code) ==
    Typed([ZeroAmount |-> 6001, Frozen |-> 6002, NotWhitelisted |-> 6003,
           PerTx |-> 6004, Hourly |-> 6005, Lifetime |-> 6006], code)

\* pay sends through sendAndConfirmTransaction, whose errors are never Anchor
\* errors: only the "already in use" text is recognised.
mapPayError(why) == IF why = "AlreadyRecorded" THEN "AlreadyRecorded" ELSE "raw"

Thrown(op, why) ==
    CASE op = "pay" -> mapPayError(why)
      [] op = "request" -> "raw"
      [] OTHER -> IF why \in DOMAIN VaultCode THEN mapSpendError(VaultCode[why]) ELSE "raw"

-----------------------------------------------------------------------------
(* What the programs answer to a transaction, in the order they check.     *)

\* check_and_record_spend of the program.
Ladder(to, amount) == FirstRefusal(
    <<<<vault.frozen, "Frozen">>,
      <<amount <= 0, "ZeroAmount">>,
      <<~CV!CheckWhitelist(policy.whitelist, to), "NotWhitelisted">>,
      <<~CV!Within(amount, policy.per_tx_limit), "PerTx">>,
      <<policy.hourly_limit > 0 /\ CV!WindowSpent + amount > policy.hourly_limit,
        "Hourly">>,
      <<~CV!Within(vault.total_spent + amount, policy.lifetime_limit), "Lifetime">>>>)

Refusal(t) ==
    CASE t.op = "request" ->
           FirstRefusal(<<<<t.nonce # vault.pending_count, "Seeds">>,
                          <<t.amount <= 0, "ZeroAmount">>,
                          <<vault.frozen, "Frozen">>>>)
      [] t.op = "record" ->
           FirstRefusal(<<<<t.receipt \in receipts, "AlreadyRecorded">>,
                          <<~active, "ServiceInactive">>>>)
      [] OTHER ->
           FirstRefusal(<<<<Ladder(t.to, t.amount) # "ok", Ladder(t.to, t.amount)>>,
                          <<tokens[Vault] < t.amount, "Funds">>,
                          <<t.op = "pay" /\ t.receipt \in receipts, "AlreadyRecorded">>,
                          <<t.op = "pay" /\ ~active, "ServiceInactive">>>>)

Attest(t, spend) ==
    /\ receipts' = receipts \cup {t.receipt}
    /\ records' = Append(records, [spend |-> spend, by |-> t.op])

Executed(i) ==
    LET t == txs[i] IN
    CASE t.op = "spend" -> CV!spend(t.to, t.amount) /\ UNCHANGED <<receipts, records>>
      [] t.op = "pay" -> CV!spend(t.to, t.amount) /\ Attest(t, i)
      [] t.op = "request" ->
           CV!request_spend(t.to, t.amount) /\ UNCHANGED <<receipts, records>>
      [] t.op = "record" -> Attest(t, t.nonce) /\ UNCHANGED vaultVars

Land(i) ==
    /\ txs[i].status = "flying"
    /\ IF Refusal(txs[i]) = "ok"
       THEN Executed(i) /\ txs' = [txs EXCEPT ![i].status = "ok"]
       ELSE /\ txs' = [txs EXCEPT ![i].status = "err", ![i].why = Refusal(txs[i])]
            /\ UNCHANGED <<vaultVars, receipts, records>>
    /\ UNCHANGED <<active, calls, seen, acts>>

Expire(i) ==
    /\ txs[i].status = "flying"
    /\ txs' = [txs EXCEPT ![i].status = "expired"]
    /\ UNCHANGED <<chainVars, calls, seen, acts>>

Cluster == \E i \in 1..Len(txs) : Land(i) \/ Expire(i)

\* The owner meanwhile: kill switch, policy, approvals; and the service's own.
OwnerActs ==
    /\ acts < MaxOwner /\ acts' = acts + 1
    /\ \/ CV!freeze_vault \/ CV!unfreeze_vault
       \/ \E a \in Policies : CV!update_policy(a)
       \/ \E p \in pending : CV!approve_spend(p) \/ CV!cancel_spend(p)
       \/ CV!AdvanceSlot
    /\ UNCHANGED <<active, receipts, records, txs, calls, seen>>

setServiceActive ==
    /\ acts < MaxOwner /\ acts' = acts + 1
    /\ active' = ~active
    /\ UNCHANGED <<vaultVars, receipts, records, txs, calls, seen>>

Sent(op, to, amount, receipt, nonce) ==
    txs' = Append(txs, [op |-> op, to |-> to, amount |-> amount, receipt |-> receipt,
                      nonce |-> nonce, status |-> "flying", why |-> "none"])

-----------------------------------------------------------------------------
(* SDK calls. *)

Records == {i \in 1..Len(txs) : txs[i].op = "record"}
Open == {c \in Callers : calls[c].pc # "idle"}

\* A process starts its next call when the last one is over; a bound.
MayStart(c) ==
    /\ c \notin Open
    /\ Len(txs) - Cardinality(Records) + Cardinality(Open) < MaxCalls
    /\ Len(txs) + Cardinality(Open) < MaxTx

\* The call ends with a value or an exception.  What is kept of it names its
\* transaction; a call that threw before it sent one leaves nothing behind.
Ends(c, result) ==
    calls' = [calls EXCEPT ![c] =
        IF calls[c].tx = 0 THEN Idle
        ELSE [Idle EXCEPT !.op = calls[c].op, !.tx = calls[c].tx, !.nonce = calls[c].nonce,
                          !.amount = calls[c].amount, !.sent = calls[c].sent,
                          !.result = result]]

\* The x402 wrapper's first request: an answer other than 402, or a payload
\* without a positive amount, ends it before anything is read.
parseRequirement(op, amount) == op = "x402" => amount > 0

\* spend, on its own or inside the x402 wrapper.
StartSpend(c, op, to, amount) ==
    /\ MayStart(c) /\ parseRequirement(op, amount)
    /\ calls' = [calls EXCEPT ![c] =
          [Idle EXCEPT !.op = op, !.pc = "reads", !.to = to, !.amount = amount,
                       !.todo = {"vault", "policy", "slot"}]]
    /\ UNCHANGED <<chainVars, txs, seen, acts>>

\* The CLI takes the receipt hash as an option, or draws one.
parseReceiptHashDrawn(given, c) == <<"drawn", c, Len(txs)>>

parseReceiptHash(given, c) == IF given THEN <<"given">> ELSE <<"drawn", c, Len(txs)>>

\* nonce 1: the caller pays one order of its own, and names its receipt.
StartPay(c, to, amount, given) ==
    /\ MayStart(c) /\ amount > 0
    /\ calls' = [calls EXCEPT ![c] =
          [Idle EXCEPT !.op = "pay", !.pc = "reads", !.to = to, !.amount = amount,
                       !.receipt = parseReceiptHash(given, c),
                       !.nonce = IF given THEN 1 ELSE 0,
                       !.todo = {"vault", "policy", "slot"}]]
    /\ UNCHANGED <<chainVars, txs, seen, acts>>

StartRequest(c, to, amount) ==
    /\ MayStart(c) /\ amount > 0
    /\ calls' = [calls EXCEPT ![c] =
          [Idle EXCEPT !.op = "request", !.pc = "reads", !.to = to,
                       !.amount = amount, !.todo = {"vault"}]]
    /\ UNCHANGED <<chainVars, txs, seen, acts>>

\* spend awaits its reads in turn, pay all at once.
Before == [vault |-> {}, policy |-> {"vault"}, slot |-> {"vault", "policy"}]

Read(c, what) ==
    /\ calls[c].pc = "reads" /\ what \in calls[c].todo
    /\ calls[c].op = "pay" \/ Before[what] \cap calls[c].todo = {}
    /\ calls' = [calls EXCEPT
          ![c].todo = @ \ {what},
          ![c].v = IF what = "vault" THEN vault ELSE @,
          ![c].p = IF what = "policy" THEN decodeSpendPolicy(policy) ELSE @,
          ![c].s = IF what = "slot" THEN slot ELSE @]
    /\ UNCHANGED <<chainVars, txs, seen, acts>>

\* After the reads: the guardrail throws, or the transaction is sent.
spend(c) ==
    LET k == calls[c]
        op == IF k.op = "x402" THEN "spend" ELSE k.op
        verdict == guardSpend(k.v, k.p, k.to, k.amount, k.s)
    IN  /\ k.pc = "reads" /\ k.todo = {} /\ k.op # "request"
        /\ IF verdict # "ok" THEN Ends(c, verdict) /\ UNCHANGED txs
           ELSE /\ Sent(op, k.to, k.amount, k.receipt, k.nonce)
                /\ calls' = [calls EXCEPT ![c].pc = "wait", ![c].tx = Len(txs) + 1,
                                          ![c].sent = @ + 1, ![c].v = None,
                                          ![c].p = None, ![c].s = 0]
        /\ UNCHANGED <<chainVars, seen, acts>>

\* The PendingSpend address is derived from the count just read.
requestSpend(c) ==
    LET k == calls[c] IN
    /\ k.pc = "reads" /\ k.todo = {} /\ k.op = "request"
    /\ Sent("request", k.to, k.amount, None, k.v.pending_count)
    /\ calls' = [calls EXCEPT ![c].pc = "wait", ![c].tx = Len(txs) + 1,
                              ![c].nonce = k.v.pending_count, ![c].v = None]
    /\ UNCHANGED <<chainVars, seen, acts>>

\* Confirmed, refused, expired; or the client gives up on a flying transaction.
ReturnRereading(c) ==
    LET k == calls[c] t == txs[k.tx] IN
    /\ k.pc = "wait"
    /\ CASE t.status = "ok" ->
              IF k.op = "x402" THEN calls' = [calls EXCEPT ![c].pc = "retry"]
              ELSE calls' = [calls EXCEPT ![c].pc = "idle", ![c].result = "ok",
                                          ![c].nonce = vault.pending_count]
         [] t.status = "err" -> Ends(c, Thrown(k.op, t.why))
         [] OTHER -> Ends(c, "raw")
    /\ UNCHANGED <<chainVars, txs, seen, acts>>

Return(c) ==
    LET k == calls[c] t == txs[k.tx] IN
    /\ k.pc = "wait"
    /\ CASE t.status = "ok" ->
              IF k.op = "x402" THEN calls' = [calls EXCEPT ![c].pc = "retry"]
              ELSE Ends(c, "ok")
         [] t.status = "err" -> Ends(c, Thrown(k.op, t.why))
         [] OTHER -> Ends(c, "raw")
    /\ UNCHANGED <<chainVars, txs, seen, acts>>

\* One retry with the signature; whatever it answers is the caller's.
paymentRequiredLoop(c) ==
    /\ calls[c].pc = "retry"
    /\ \/ Ends(c, "ok")
       \/ calls' = [calls EXCEPT ![c].pc = "reads",
                                 ![c].todo = {"vault", "policy", "slot"}]
    /\ UNCHANGED <<chainVars, txs, seen, acts>>

paymentRequired(c) ==
    /\ calls[c].pc = "retry"
    /\ Ends(c, "ok") \/ Ends(c, "raw")
    /\ UNCHANGED <<chainVars, txs, seen, acts>>

CallStep(c) ==
    \/ \E what \in {"vault", "policy", "slot"} : Read(c, what)
    \/ spend(c) \/ requestSpend(c) \/ Return(c) \/ paymentRequired(c)

\* The pulse agent, the CLI and x402 clients start calls one after the other,
\* whatever the last one answered.
Starts(c) == \E to \in Services, a \in Amounts :
    \/ \E op \in {"spend", "x402"} : StartSpend(c, op, to, a)
    \/ \E given \in BOOLEAN : StartPay(c, to, a, given)
    \/ StartRequest(c, to, a)

-----------------------------------------------------------------------------
(* The recorder.  A Spent frame may come again after a reconnect; seen is  *)
(* lost with the process, and a failed attestation is not tried again.     *)

ReceiptOfAttempt(i) == <<"sig", i, Len(txs)>>

ReceiptOfSpend(i) == <<"sig", i>>

onFrame(i) ==
    /\ txs[i].op \in {"spend", "pay"} /\ txs[i].status = "ok"
    /\ i \notin seen /\ Len(txs) + Cardinality(Open) < MaxTx
    /\ seen' = seen \cup {i}
    /\ Sent("record", txs[i].to, txs[i].amount, ReceiptOfSpend(i), i)
    /\ UNCHANGED <<chainVars, calls, acts>>

RecorderRestarts ==
    /\ seen # {} /\ seen' = {}
    /\ UNCHANGED <<chainVars, txs, calls, acts>>

Next ==
    \/ Cluster \/ OwnerActs \/ setServiceActive
    \/ \E c \in Callers : Starts(c) \/ CallStep(c)
    \/ \E i \in 1..Len(txs) : onFrame(i)
    \/ RecorderRestarts

Spec == Init /\ [][Next]_vars

-----------------------------------------------------------------------------
(* Properties. *)

Results == {"none", "ok", "raw", "AlreadyRecorded"} \cup DOMAIN VaultCode

Refusals ==
    DOMAIN VaultCode
       \cup {"Seeds", "AlreadyRecorded", "ServiceInactive", "Funds"}

Receipts ==
    {None, <<"given">>} \cup ({"drawn"} \X Callers \X Nat) \cup ({"sig"} \X Nat)

Calls ==
    [op : {"none", "spend", "x402", "pay", "request"},
     pc : {"idle", "reads", "wait", "retry"},
     to : Services \cup {None}, amount : Amounts \cup {0},
     todo : SUBSET {"vault", "policy", "slot"},
     v : CV!Vaults \cup {None}, p : CV!SpendPolicies \cup {None}, s : CV!Slots,
     receipt : Receipts, nonce : Nat, tx : Nat, sent : 0..1, result : Results]

Transactions ==
    [op : {"spend", "pay", "request", "record"}, to : Services, amount : Amounts,
     receipt : Receipts, nonce : Nat,
     status : {"flying", "ok", "err", "expired"}, why : Refusals \cup {"none"}]

\* Everything has its type: the calls, their transactions and the records.
TypeOK ==
    /\ CV!TypeOK
    /\ active \in BOOLEAN /\ receipts \subseteq Receipts
    /\ records \in Seq([spend : Nat, by : {"pay", "record"}])
    /\ \A r \in DOMAIN records : records[r].spend \in DOMAIN txs
    /\ txs \in Seq(Transactions)
    /\ calls \in [Callers -> Calls]
    /\ \A c \in Callers : calls[c].tx \in 0..Len(txs)
    /\ seen \subseteq DOMAIN txs
    /\ acts \in 0..MaxOwner

\* The local guardrail and the program's ladder are two implementations of one
\* rule: in every reachable state, on what is on chain at that moment, they
\* give the same verdict and name the same reason.
LadderAgrees ==
    \A to \in Services \cup {Owner}, a \in Amounts \cup {0, Supply} :
        guardSpend(vault, decodeSpendPolicy(policy), to, a, slot) = Ladder(to, a)

\* A typed error thrown for a refused transaction names what the chain refused,
\* although the state may have moved since the reads.
ErrorNamesCause ==
    \A c \in Callers :
        (/\ calls[c].pc = "idle" /\ calls[c].tx # 0
         /\ calls[c].result \notin {"ok", "raw"}) =>
            /\ txs[calls[c].tx].status = "err"
            /\ txs[calls[c].tx].why = calls[c].result

\* A request that returned owns the PendingSpend it names: it is open with the
\* amount asked for, or settled; concurrent requests never share one.
RequestOwnsNonce ==
    \A c \in Callers :
        (calls[c].pc = "idle" /\ calls[c].op = "request" /\ calls[c].result = "ok") =>
            /\ \/ calls[c].nonce \in settled
               \/ \E p \in pending : p.nonce = calls[c].nonce /\ p.amount = calls[c].amount
            /\ \A d \in Callers \ {c} :
                 (calls[d].pc = "idle" /\ calls[d].op = "request"
                    /\ calls[d].result = "ok") => calls[d].nonce # calls[c].nonce

\* A payment retried under its receipt hash, after a timeout or a crash, is
\* made at most once.
GivenReceiptPaysOnce ==
    Cardinality({i \in 1..Len(txs) : /\ txs[i].op = "pay" /\ txs[i].status = "ok"
                                     /\ txs[i].nonce = 1}) <= 1

\* x402: "a second 402 propagates to the caller so a misbehaving server can't
\* drain the vault in a loop".
OneSpendPerRequest == \A c \in Callers : calls[c].op = "x402" => calls[c].sent <= 1

\* The recorder attests a spend at most once, over duplicate frames, restarts
\* that empty its guard, and attestations that landed after they seemed lost.
RecorderAttestsOnce ==
    \A i \in 1..Len(txs) :
        Cardinality({r \in 1..Len(records) : records[r] = [spend |-> i, by |-> "record"]}) <= 1

\* Nothing is repeated when a call is: not a payment under its receipt, not the
\* payment of an x402 request, not the attestation of a spend.
RetriesRepeatNothing ==
    GivenReceiptPaysOnce /\ OneSpendPerRequest /\ RecorderAttestsOnce

=============================================================================
