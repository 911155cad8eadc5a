------------------------- MODULE OwnerConsoleProofs -------------------------
(***************************************************************************)
(* Proofs about the console's modals and the devnet scripts beside them    *)
(* (OwnerConsole), for every number of transactions, generated keys, runs  *)
(* and handlers.                                                           *)
(*                                                                         *)
(* The invariant Inv follows an account back to the click or the command   *)
(* that asked for it.  ChainTrue says what the accounts may be; TxTrue,    *)
(* that executing a transaction still on its way keeps that so; FlowTrue,  *)
(* ModalTrue and ScriptTrue, that what a handler, an open form or a script *)
(* is about to send will be such a transaction; DiskTrue, what the files   *)
(* of earlier runs say about it.  RerunsTrue weighs what runs of the       *)
(* bootstrap deposited and minted against what the vault and the mint have *)
(* been through, and has an owner for every such order still on its way.   *)
(* Each step is shown to keep the parts it may disturb; frames (Keeps and  *)
(* the like) carry the others over.                                        *)
(*                                                                         *)
(* The last part does the same for the vault's page (VaultScreen), which   *)
(* is the other composition of the same chain, scripts and handlers.       *)
(***************************************************************************)
EXTENDS OwnerConsole, VaultScreen, DataTheorems, TLAPS

-----------------------------------------------------------------------------
(* Types. *)

\* What a transaction can be asked to do by the console or by a script.
Orders ==
    [ix : {"fund"}] \cup [ix : {"createMint"}, key : Nat]
    \cup [ix : {"mintTo"}, amount : Nat, prog : {"web", "bootstrap", "topup"}]
    \cup [ix : {"initAgent", "register"}, key : Nat]
    \cup [ix : {"createVault"}, key : Nat, init : BOOLEAN]
    \cup [ix : {"deposit"}, amount : Nat \ {0}, prog : {"web", "bootstrap", "topup"}]
    \cup [ix : {"setActive"}, key : Nat, active : BOOLEAN]

Statuses == {"flying", "ok", "err", "expired"}
Txs == [status : Statuses, by : {"web", "script"}, order : Orders]

Chains ==
    [serviceSol : BOOLEAN, mints : SUBSET Nat, ownerAta : BOOLEAN, owner_usdc : Int,
     supply : Nat, services : SUBSET Nat, agents : SUBSET Nat, vaults : SUBSET Nat,
     vault_usdc : Nat, vault_out : Nat, frozen : BOOLEAN,
     cap : Caps \cup {DefaultCap}, whitelist : SUBSET Services, active : BOOLEAN]

BootSteps ==
    {"ownerSol", "fund", "mint", "mintTo", "service", "agent", "vault", "deposit",
     "verify"}

Scripts ==
    [prog : {"none", "bootstrap", "topup"},
     step : BootSteps \cup {"none", "short", "topup"},
     at : {"none", "check", "send", "wait"}, tx : Nat, cap : {0}, whitelist : {{}},
     amount : Nat, mint : Nat]

Flows == [at : {"reading", "signing", "waiting"} \cup Settled, tx : Nat, t : Orders,
          chosen : {"generate", "other", "pubkey"}]

Modals ==
    [kind : Selectors \cup {"none", "vaultForAgent", "setActive", "deposit"},
     mode : {"none", "generate", "other", "pubkey"}, key : Nat, ready : BOOLEAN,
     flow : Nat, airdrop : Nat]

Typed ==
    /\ chain \in Chains /\ txs \in Seq(Txs)
    /\ script \in Scripts
    /\ disk \in [mint : Nat, keys : Nat, manifest : BOOLEAN]
    /\ runs \in Nat /\ abandoned \in SUBSET Nat
    /\ flows \in Seq(Flows) /\ modal \in Modals
    /\ keys \in [made : Nat, saved : SUBSET Nat]

-----------------------------------------------------------------------------
(* What an executed transaction does to the accounts.                      *)

\* Accounts are only added, each by the order that names its key; no order of the
\* owner's tools takes tokens from the vault or the supply.
Execution(c, t, d) ==
    /\ d \in Chains
    /\ d.mints = IF t.ix = "createMint" THEN c.mints \cup {t.key} ELSE c.mints
    /\ d.agents = IF t.ix = "initAgent" \/ (t.ix = "createVault" /\ t.init)
                  THEN c.agents \cup {t.key} ELSE c.agents
    /\ d.vaults = IF t.ix = "createVault" THEN c.vaults \cup {t.key} ELSE c.vaults
    /\ d.services = IF t.ix = "register" THEN c.services \cup {t.key} ELSE c.services
    /\ d.vault_usdc = IF t.ix = "deposit" THEN c.vault_usdc + t.amount ELSE c.vault_usdc
    /\ d.vault_out = c.vault_out
    /\ d.ownerAta = IF t.ix = "mintTo" THEN TRUE ELSE c.ownerAta
    /\ d.supply = IF t.ix = "mintTo" THEN c.supply + t.amount ELSE c.supply

\* Executed is an Execution, for each order.
LEMMA ExecutedIs ==
    ASSUME NEW c \in Chains, NEW t \in Orders
    PROVE  Execution(c, t, Executed(c, t))
<1>1. CASE t \in [ix : {"fund"}]
  <2>1. Executed(c, t) = [c EXCEPT !.serviceSol = TRUE]
    BY <1>1 DEF Executed
  <2> QED BY <1>1, <2>1 DEF Chains, Execution
<1>2. CASE t \in [ix : {"createMint"}, key : Nat]
  <2>1. Executed(c, t) = [c EXCEPT !.mints = @ \cup {t.key}]
    BY <1>2 DEF Executed
  <2>2. PICK m \in SUBSET Nat : m = c.mints \cup {t.key}
    BY <1>2 DEF Chains
  <2>3. Executed(c, t) = [c EXCEPT !.mints = m]
    BY <2>1, <2>2
  <2> QED BY <1>2, <2>2, <2>3 DEF Chains, Execution
<1>3. CASE t \in [ix : {"mintTo"}, amount : Nat, prog : {"web", "bootstrap", "topup"}]
  <2>1. Executed(c, t) = [c EXCEPT !.ownerAta = TRUE, !.owner_usdc = @ + t.amount,
                                   !.supply = @ + t.amount]
    BY <1>3 DEF Executed
  <2>2. c.owner_usdc + t.amount \in Int /\ c.supply + t.amount \in Nat
    BY <1>3 DEF Chains
  <2>3. PICK x \in Int, y \in Nat :
          /\ Executed(c, t) = [c EXCEPT !.ownerAta = TRUE, !.owner_usdc = x, !.supply = y]
          /\ y = c.supply + t.amount
    BY <2>1, <2>2
  <2>4. /\ Executed(c, t) \in Chains
        /\ Executed(c, t).mints = c.mints /\ Executed(c, t).agents = c.agents
        /\ Executed(c, t).vaults = c.vaults /\ Executed(c, t).services = c.services
        /\ Executed(c, t).vault_usdc = c.vault_usdc
        /\ Executed(c, t).vault_out = c.vault_out
        /\ Executed(c, t).ownerAta = TRUE /\ Executed(c, t).supply = y
    BY <2>3 DEF Chains
  <2>5. t.ix = "mintTo"
    BY <1>3
  <2> QED BY <2>3, <2>4, <2>5 DEF Execution
<1>4. CASE t \in [ix : {"initAgent", "register"}, key : Nat]
  <2>1. Executed(c, t) = IF t.ix = "initAgent" THEN [c EXCEPT !.agents = @ \cup {t.key}]
                         ELSE [c EXCEPT !.services = @ \cup {t.key}]
    BY <1>4 DEF Executed
  <2>2. PICK x \in SUBSET Nat, y \in SUBSET Nat :
          /\ x = c.agents \cup {t.key} /\ y = c.services \cup {t.key}
    BY <1>4 DEF Chains
  <2>3. CASE t.ix = "initAgent"
    <3>1. Executed(c, t) = [c EXCEPT !.agents = x]
      BY <2>1, <2>2, <2>3
    <3> QED BY <2>2, <2>3, <3>1 DEF Chains, Execution
  <2>4. CASE t.ix = "register"
    <3>1. Executed(c, t) = [c EXCEPT !.services = y]
      BY <2>1, <2>2, <2>4
    <3> QED BY <2>2, <2>4, <3>1 DEF Chains, Execution
  <2> QED BY <1>4, <2>3, <2>4
<1>5. CASE t \in [ix : {"createVault"}, key : Nat, init : BOOLEAN]
  <2>1. Executed(c, t) = [c EXCEPT !.vaults = @ \cup {t.key},
                                   !.agents = IF t.init THEN @ \cup {t.key} ELSE @]
    BY <1>5 DEF Executed
  <2>2. PICK x \in SUBSET Nat, y \in SUBSET Nat :
          /\ Executed(c, t) = [c EXCEPT !.vaults = x, !.agents = y]
          /\ x = c.vaults \cup {t.key}
          /\ y = IF t.init THEN c.agents \cup {t.key} ELSE c.agents
    <3>1. /\ c.vaults \cup {t.key} \in SUBSET Nat
          /\ (IF t.init THEN c.agents \cup {t.key} ELSE c.agents) \in SUBSET Nat
      BY <1>5 DEF Chains
    <3> QED BY <2>1, <3>1
  <2>3. /\ Executed(c, t) \in Chains
        /\ Executed(c, t).mints = c.mints /\ Executed(c, t).agents = y
        /\ Executed(c, t).vaults = x /\ Executed(c, t).services = c.services
        /\ Executed(c, t).vault_usdc = c.vault_usdc
        /\ Executed(c, t).vault_out = c.vault_out
        /\ Executed(c, t).ownerAta = c.ownerAta /\ Executed(c, t).supply = c.supply
    BY <2>2 DEF Chains
  <2> QED BY <1>5, <2>2, <2>3 DEF Execution
<1>6. CASE t \in [ix : {"deposit"}, amount : Nat \ {0},
                  prog : {"web", "bootstrap", "topup"}]
  <2>1. Executed(c, t) = [c EXCEPT !.owner_usdc = @ - t.amount,
                                   !.vault_usdc = @ + t.amount]
    BY <1>6 DEF Executed
  <2>2. PICK x \in Int, y \in Nat :
          /\ Executed(c, t) = [c EXCEPT !.owner_usdc = x, !.vault_usdc = y]
          /\ y = c.vault_usdc + t.amount
    <3>1. c.owner_usdc - t.amount \in Int /\ c.vault_usdc + t.amount \in Nat
      BY <1>6 DEF Chains
    <3> QED BY <2>1, <3>1
  <2>3. /\ Executed(c, t) \in Chains
        /\ Executed(c, t).mints = c.mints /\ Executed(c, t).agents = c.agents
        /\ Executed(c, t).vaults = c.vaults /\ Executed(c, t).services = c.services
        /\ Executed(c, t).vault_usdc = y
        /\ Executed(c, t).vault_out = c.vault_out
        /\ Executed(c, t).ownerAta = c.ownerAta /\ Executed(c, t).supply = c.supply
    BY <2>2 DEF Chains
  <2> QED BY <1>6, <2>2, <2>3 DEF Execution
<1>7. CASE t \in [ix : {"setActive"}, key : Nat, active : BOOLEAN]
  <2>1. Executed(c, t) = [c EXCEPT !.active = IF t.key = 0 THEN t.active ELSE @]
    BY <1>7 DEF Executed
  <2> QED BY <1>7, <2>1 DEF Chains, Execution
<1> QED BY <1>1, <1>2, <1>3, <1>4, <1>5, <1>6, <1>7 DEF Orders

-----------------------------------------------------------------------------
(* The inductive invariant. *)

Named == {"initAgent", "createVault", "register"}

\* What the accounts look like: one mint, downloaded keys, agents of vaults.
ChainTrue == chain.mints \subseteq {1} /\ KeysSaved /\ VaultHasAgent

\* A transaction names a key that is saved (or key 0), creates an agentless
\* vault only of an agent that exists, and has had its effect when it executed.
TxTrue(i) ==
    LET t == txs[i].order IN
    /\ t.ix \in Named => t.key \in keys.saved \cup {0}
    /\ t.ix = "createVault" /\ ~t.init => t.key \in chain.agents
    /\ t.ix = "createMint" => t.key = 1
    /\ Status(i) = "ok" /\ t.ix = "initAgent" => t.key \in chain.agents

\* What a handler is about to send, and what it has learnt.
Sound(f) ==
    /\ f.t.ix \in Named => f.t.key \in keys.saved \cup {0}
    /\ f.t.ix = "createVault" /\ ~f.t.init /\ f.at = "signing" => f.t.key \in chain.agents
    /\ f.t.ix # "createMint"
    /\ f.t.ix \in {"deposit", "mintTo"} => f.t.prog = "web"
    /\ f.at \in {"waiting", "done"} => f.tx \in 1..Len(txs)
    /\ f.at = "done" => Status(f.tx) = "ok"

FlowTrue(i) == Sound(flows[i])

\* A form that can be submitted holds a downloaded key, or a key on chain.
ModalTrue ==
    /\ modal.kind = "none" => modal.mode = "none"
    /\ modal.kind \in Selectors => /\ modal.mode \in {"generate", "other"}
                                   /\ modal.ready => modal.key \in keys.saved
    /\ modal.kind \notin Selectors \cup {"none"} => modal.mode = "pubkey"
    /\ modal.kind = "vaultForAgent" => modal.key \in keys.saved \cup {0}

\* Where the running script stands.
ScriptTrue ==
    /\ script.prog = "none" => script.step = "none" /\ script.at = "none"
    /\ script.prog = "bootstrap" => script.step \in BootSteps /\ script.mint = 1
    /\ script.prog = "topup" => script.step \in {"short", "topup"} /\ script.amount = 1
    /\ IF script.at = "wait" THEN script.tx \in 1..Len(txs) ELSE script.tx = 0
    /\ At("agent", "wait") => txs[script.tx].order = [ix |-> "initAgent", key |-> 0]
    /\ script.step = "vault" => 0 \in chain.agents

\* The first key generated is the mint's, and it is on disk before it is used.
DiskTrue == disk.keys = disk.mint /\ disk.mint \in {0, 1}

\* A deposit or a mint of the bootstrap.
Boot(t) == t.ix \in {"deposit", "mintTo"} /\ t.prog = "bootstrap"

\* Such an order is for the constant amount, and while it is on its way either the
\* running script waits for it, at the step of that name, or it was abandoned.
OwnTrue(i) ==
    LET t == txs[i].order IN
    Boot(t) => /\ t.amount = IF t.ix = "deposit" THEN DepositTarget ELSE InitialMint
               /\ Status(i) = "flying" =>
                    i \in abandoned \/ (i = script.tx /\ script.step = t.ix)

\* A run that decided to deposit had found the vault below the target: what earlier
\* runs deposited has left it, but for less than one target.
DepositDue ==
    script.step = "deposit" /\ script.at \in {"send", "wait"} =>
        DepositTarget * Cardinality(Awaited("deposit") \ {script.tx})
            < chain.vault_out + DepositTarget

\* Likewise a run that decided to mint is the first.
MintDue ==
    script.step = "mintTo" /\ script.at \in {"send", "wait"} =>
        Awaited("mintTo") \subseteq {script.tx}

\* What runs deposited is in the vault or has left it; what they minted exists.
Backed ==
    /\ DepositTarget * Cardinality(Awaited("deposit"))
         <= chain.vault_usdc + chain.vault_out
    /\ Awaited("mintTo") # {} => chain.ownerAta /\ chain.supply >= InitialMint

RerunsTrue ==
    /\ \A i \in 1..Len(txs) : OwnTrue(i)
    /\ DepositDue /\ MintDue /\ Backed
    /\ BootstrapRefills /\ InitialMintOnce

Inv ==
    /\ Typed /\ ChainTrue
    /\ \A i \in 1..Len(txs) : TxTrue(i)
    /\ \A i \in 1..Len(flows) : FlowTrue(i)
    /\ ModalTrue /\ ScriptTrue /\ DiskTrue /\ RerunsTrue

-----------------------------------------------------------------------------
(* Transactions: what is sent, what lands. *)

\* Sending appends a flying transaction with its order (Send).
LEMMA SendIs ==
    ASSUME txs \in Seq(Txs), NEW by \in {"web", "script"}, NEW t \in Orders, Send(by, t)
    PROVE  /\ txs' \in Seq(Txs)
           /\ Extends(txs', txs, [status |-> "flying", by |-> by, order |-> t])
<1>1. [status |-> "flying", by |-> by, order |-> t] \in Txs
  BY DEF Txs, Statuses
<1> QED BY <1>1, AppendIs DEF Send

\* An outcome changes one status for good; the accounts change when it is "ok"
\* (Land, Expire).
LEMMA OutcomeIs ==
    ASSUME chain \in Chains, txs \in Seq(Txs), NEW i \in 1..Len(txs), Land(i) \/ Expire(i)
    PROVE  /\ txs[i].status = "flying" /\ txs[i] \in Txs
           /\ txs' \in Seq(Txs)
           /\ \E s \in Statuses \ {"flying"} :
                /\ Differs(txs', txs, i, [txs[i] EXCEPT !.status = s])
                /\ IF s = "ok" THEN Execution(chain, txs[i].order, chain')
                               ELSE chain' = chain
<1>1. i \in DOMAIN txs /\ txs[i] \in Txs
  BY ElementOfSeq, LenProperties
<1>2. txs[i].order \in Orders /\ txs[i].status = "flying"
  BY <1>1 DEF Txs, Land, Expire, Status
<1>3. \E s \in Statuses \ {"flying"} :
        /\ txs' = [txs EXCEPT ![i] = [txs[i] EXCEPT !.status = s]]
        /\ IF s = "ok" THEN chain' = Executed(chain, txs[i].order) ELSE chain' = chain
  <2>1. CASE Land(i) /\ Accepts(chain, txs[i].order)
    <3>1. /\ txs' = [txs EXCEPT ![i] = [txs[i] EXCEPT !.status = "ok"]]
          /\ chain' = Executed(chain, txs[i].order)
      BY <2>1 DEF Land
    <3> QED BY <3>1 DEF Statuses
  <2>2. CASE Land(i) /\ ~Accepts(chain, txs[i].order)
    <3>1. /\ txs' = [txs EXCEPT ![i] = [txs[i] EXCEPT !.status = "err"]]
          /\ chain' = chain
      BY <2>2 DEF Land
    <3>2. "err" \in Statuses \ {"flying"} /\ "err" # "ok"
      BY DEF Statuses
    <3> QED BY <3>1, <3>2
  <2>3. CASE Expire(i)
    <3>1. /\ txs' = [txs EXCEPT ![i] = [txs[i] EXCEPT !.status = "expired"]]
          /\ chain' = chain
      BY <2>3 DEF Expire
    <3>2. "expired" \in Statuses \ {"flying"} /\ "expired" # "ok"
      BY DEF Statuses
    <3> QED BY <3>1, <3>2
  <2> QED BY <2>1, <2>2, <2>3
<1>4. PICK s \in Statuses \ {"flying"} :
        /\ txs' = [txs EXCEPT ![i] = [txs[i] EXCEPT !.status = s]]
        /\ IF s = "ok" THEN chain' = Executed(chain, txs[i].order) ELSE chain' = chain
  BY <1>3
<1>5. [txs[i] EXCEPT !.status = s] \in Txs
  BY <1>1, <1>4 DEF Txs
<1>6. /\ txs' \in Seq(Txs)
      /\ Differs(txs', txs, i, [txs[i] EXCEPT !.status = s])
  BY <1>1, <1>4, <1>5, ExceptIs
<1>7. IF s = "ok" THEN Execution(chain, txs[i].order, chain') ELSE chain' = chain
  BY <1>2, <1>4, ExecutedIs
<1> QED BY <1>1, <1>2, <1>4, <1>6, <1>7

\* What every step keeps: agents and the supply grow, and so does what the vault
\* holds and has paid out together; saved keys stay, orders stay, an executed
\* transaction stays executed.
AccountsGrow ==
    /\ chain'.agents \in SUBSET Nat /\ chain.agents \subseteq chain'.agents
    /\ chain'.vault_usdc \in Nat /\ chain'.vault_out \in Nat
    /\ chain.vault_out <= chain'.vault_out
    /\ chain.vault_usdc + chain.vault_out <= chain'.vault_usdc + chain'.vault_out
    /\ chain.ownerAta => chain'.ownerAta
    /\ chain'.supply \in Nat /\ chain.supply <= chain'.supply

SavedGrow == keys.saved \subseteq keys'.saved

TxsStand ==
    /\ Len(txs') \in Nat /\ Len(txs) <= Len(txs')
    /\ \A i \in 1..Len(txs) : /\ txs'[i].order = txs[i].order
                              /\ txs[i].status = "ok" => txs'[i].status = "ok"

Keeps == AccountsGrow /\ SavedGrow /\ TxsStand

\* Facts about a handler outlast what others do.
LEMMA FlowKept ==
    ASSUME Inv, Keeps, NEW i \in 1..Len(flows), flows'[i] = flows[i]
    PROVE  FlowTrue(i)'
<1>0. FlowTrue(i) /\ Len(txs) \in Nat
  BY LenProperties DEF Inv, Typed
<1>1. flows[i].tx \in 1..Len(txs) => flows[i].tx \in 1..Len(txs')
  BY <1>0 DEF Keeps, AccountsGrow, SavedGrow, TxsStand
<1> QED BY <1>0, <1>1 DEF Keeps, AccountsGrow, SavedGrow, TxsStand, FlowTrue, Sound, Status

\* Facts about a transaction outlast what others do, its own outcome apart.
LEMMA TxKept ==
    ASSUME Inv, Keeps, NEW i \in 1..Len(txs),
           txs'[i].status = "ok" => txs[i].status = "ok"
    PROVE  TxTrue(i)'
<1>0. TxTrue(i)
  BY DEF Inv
<1> QED BY <1>0 DEF Keeps, AccountsGrow, SavedGrow, TxsStand, TxTrue, Status

\* A script that waits or ran goes on as it stood.
LEMMA ScriptKept ==
    ASSUME Inv, Keeps, UNCHANGED script
    PROVE  ScriptTrue'
<1>0. ScriptTrue /\ Len(txs) \in Nat
  BY LenProperties DEF Inv, Typed
<1>1. script.at = "wait" => /\ script.tx \in 1..Len(txs')
                            /\ txs'[script.tx].order = txs[script.tx].order
  BY <1>0 DEF Keeps, AccountsGrow, SavedGrow, TxsStand, ScriptTrue
<1> QED BY <1>0, <1>1 DEF Keeps, AccountsGrow, SavedGrow, TxsStand, ScriptTrue, At

\* So does a form.
LEMMA ModalKept ==
    ASSUME ModalTrue, keys.saved \subseteq keys'.saved, UNCHANGED modal
    PROVE  ModalTrue'
BY DEF ModalTrue

-----------------------------------------------------------------------------
(* Counting what the bootstrap's runs did. *)

\* A part of a finite set counts no more than the whole.
LEMMA PartCounts ==
    ASSUME NEW S, NEW T, IsFiniteSet(T), S \subseteq T
    PROVE  /\ IsFiniteSet(S) /\ Cardinality(S) \in Nat /\ Cardinality(T) \in Nat
           /\ Cardinality(S) <= Cardinality(T)
BY FS_Subset, FS_CardinalityType

\* Awaited is finite, as the transactions are.
LEMMA AwaitedFinite ==
    ASSUME Len(txs) \in Nat, NEW ix
    PROVE  /\ Awaited(ix) \subseteq 1..Len(txs) /\ IsFiniteSet(Awaited(ix))
           /\ \A x : Cardinality(Awaited(ix) \ {x}) \in Nat
           /\ Cardinality(Awaited(ix)) \in Nat
<1>1. Awaited(ix) \subseteq 1..Len(txs)
  BY DEF Awaited
<1>2. IsFiniteSet(Awaited(ix))
  <2>1. IsFiniteSet(1..Len(txs))
    BY FS_Interval
  <2> QED BY <1>1, <2>1, FS_Subset
<1> HIDE DEF Awaited
<1>3. ASSUME NEW x PROVE Cardinality(Awaited(ix) \ {x}) \in Nat
  <2>1. Awaited(ix) \ {x} \subseteq Awaited(ix)
    OBVIOUS
  <2> QED BY <1>2, <2>1, PartCounts
<1> QED BY <1>1, <1>2, <1>3, FS_CardinalityType

\* A step that has nothing land for the bootstrap adds nothing to the count; what
\* the script does next must be due.
LEMMA CountKept ==
    ASSUME Inv, Keeps, \A i \in 1..Len(txs') : OwnTrue(i)',
           Awaited("deposit")' = Awaited("deposit"), Awaited("mintTo")' = Awaited("mintTo"),
           DepositDue', MintDue'
    PROVE  RerunsTrue'
<1>0. /\ RerunsTrue /\ Len(txs) \in Nat /\ chain.vault_usdc \in Nat
      /\ chain.vault_out \in Nat /\ chain.supply \in Nat
  BY LenProperties DEF Inv, Typed, Chains
<1>1. Cardinality(Awaited("deposit")) \in Nat
  BY <1>0, AwaitedFinite
<1>2. Backed'
  BY <1>0, <1>1 DEF RerunsTrue, Backed, Keeps, AccountsGrow, DepositTarget, InitialMint
<1>3. BootstrapRefills'
  BY <1>0, <1>1 DEF RerunsTrue, BootstrapRefills, Keeps, AccountsGrow, DepositTarget
<1>4. InitialMintOnce'
  BY <1>0 DEF RerunsTrue, InitialMintOnce
<1> QED BY <1>2, <1>3, <1>4 DEF RerunsTrue

\* What the script is about to send, or waits for, stays due.
LEMMA DueKept ==
    ASSUME Inv, Keeps, UNCHANGED script,
           Awaited("deposit")' = Awaited("deposit"), Awaited("mintTo")' = Awaited("mintTo")
    PROVE  DepositDue' /\ MintDue'
<1>0. RerunsTrue /\ Len(txs) \in Nat /\ chain.vault_out \in Nat
  BY LenProperties DEF Inv, Typed, Chains
<1>1. Cardinality(Awaited("deposit") \ {script.tx}) \in Nat
  BY <1>0, AwaitedFinite
<1>2. PICK D : D = Awaited("deposit") /\ D = Awaited("deposit")'
  OBVIOUS
<1>3. PICK o \in Nat : o = chain'.vault_out /\ chain.vault_out <= o
  BY DEF Keeps, AccountsGrow
<1>4. DepositDue'
  <2>1. script.step = "deposit" /\ script.at \in {"send", "wait"} =>
          DepositTarget * Cardinality(D \ {script.tx}) < o + DepositTarget
    BY <1>0, <1>1, <1>2, <1>3 DEF RerunsTrue, DepositDue, DepositTarget
  <2> QED BY <1>2, <1>3, <2>1 DEF DepositDue
<1>5. MintDue'
  BY <1>0 DEF RerunsTrue, MintDue
<1> QED BY <1>4, <1>5

\* A step that leaves the transactions and the script alone keeps all of it.
LEMMA RerunsKept ==
    ASSUME Inv, Keeps, UNCHANGED <<txs, script, abandoned>>
    PROVE  RerunsTrue'
<1>1. Awaited("deposit")' = Awaited("deposit") /\ Awaited("mintTo")' = Awaited("mintTo")
  BY DEF Awaited, Status
<1>2. ASSUME NEW i \in 1..Len(txs') PROVE OwnTrue(i)'
  BY DEF Inv, RerunsTrue, OwnTrue, Boot, Status
<1> QED BY <1>1, <1>2, DueKept, CountKept

-----------------------------------------------------------------------------
(* Every step keeps the invariant: the cluster. *)

\* When a deposit or a mint of the bootstrap lands that was not abandoned, it is
\* the running script's own, and it was due.
LEMMA LandedTrue ==
    ASSUME Inv, Keeps, UNCHANGED <<script, abandoned>>,
           NEW i \in 1..Len(txs), NEW s \in Statuses \ {"flying"}, NEW u, NEW t \in Orders,
           txs[i].status = "flying", txs[i].order = t, u.status = s, u.order = t,
           Len(txs') = Len(txs),
           \A j \in 1..Len(txs) : txs'[j] = IF j = i THEN u ELSE txs[j],
           IF s = "ok" THEN Execution(chain, t, chain') ELSE chain' = chain
    PROVE  RerunsTrue'
<1>0. /\ Len(txs) \in Nat /\ chain.vault_usdc \in Nat /\ chain.vault_out \in Nat
      /\ chain.supply \in Nat
      /\ RerunsTrue /\ ScriptTrue /\ OwnTrue(i)
  BY LenProperties DEF Inv, Typed, Chains, RerunsTrue
<1>1. ASSUME NEW j \in 1..Len(txs') PROVE OwnTrue(j)'
  <2>1. OwnTrue(j) /\ txs'[j] = IF j = i THEN u ELSE txs[j]
    BY <1>0 DEF RerunsTrue
  <2>2. CASE j = i
    BY <2>1, <2>2 DEF OwnTrue, Boot, Status
  <2>3. CASE j # i
    BY <2>1, <2>3 DEF OwnTrue, Boot, Status
  <2> QED BY <2>2, <2>3
<1>2. ASSUME NEW ix
      PROVE  /\ i \notin Awaited(ix)
             /\ Awaited(ix)' = IF s = "ok" /\ t.ix = ix /\ t.prog = "bootstrap"
                                    /\ i \notin abandoned
                               THEN Awaited(ix) \cup {i} ELSE Awaited(ix)
  <2> DEFINE In(x) == x.order.ix = ix /\ x.status = "ok" /\ x.order.prog = "bootstrap"
  <2>1. /\ Awaited(ix) = {j \in 1..Len(txs) : In(txs[j]) /\ j \notin abandoned}
        /\ Awaited(ix)' = {j \in 1..Len(txs) : In(txs'[j]) /\ j \notin abandoned}
    BY DEF Awaited, Status
  <2>2. ~In(txs[i]) /\ (In(txs'[i]) <=> s = "ok" /\ t.ix = ix /\ t.prog = "bootstrap")
    BY DEF Statuses
  <2>3. \A j \in 1..Len(txs) : j # i => (In(txs'[j]) <=> In(txs[j]))
    OBVIOUS
  <2> HIDE DEF In
  <2> QED BY <2>1, <2>2, <2>3
<1>3. PICK D, E, M, N : /\ D = Awaited("deposit") /\ E = Awaited("deposit")'
                        /\ M = Awaited("mintTo") /\ N = Awaited("mintTo")'
  OBVIOUS
<1>4. /\ IsFiniteSet(D) /\ Cardinality(D) \in Nat
      /\ DepositTarget * Cardinality(D) <= chain.vault_usdc + chain.vault_out
      /\ M # {} => chain.ownerAta /\ chain.supply >= InitialMint
      /\ DepositTarget * Cardinality(D) < chain.vault_out + 2 * DepositTarget
      /\ \A x, y \in M : x = y
  BY <1>0, <1>3, AwaitedFinite DEF RerunsTrue, Backed, BootstrapRefills, InitialMintOnce
<1>5. CASE ~(s = "ok" /\ Boot(t) /\ i \notin abandoned)
  <2>1. Awaited("deposit")' = Awaited("deposit") /\ Awaited("mintTo")' = Awaited("mintTo")
    BY <1>2, <1>5 DEF Boot
  <2> QED BY <1>1, <2>1, DueKept, CountKept
<1>6. CASE s = "ok" /\ Boot(t) /\ i \notin abandoned
  <2>1. /\ i = script.tx /\ script.step = t.ix /\ t.prog = "bootstrap"
        /\ t.amount = IF t.ix = "deposit" THEN DepositTarget ELSE InitialMint
    BY <1>0, <1>6 DEF OwnTrue, Boot, Status
  <2>2. script.at = "wait"
    BY <1>0, <2>1 DEF ScriptTrue
  <2>3. Execution(chain, t, chain')
    BY <1>6
  <2>4. CASE t.ix = "deposit"
    <3>1. E = D \cup {i} /\ D \ {i} = D /\ E \ {i} = D /\ N = M
      BY <1>2, <1>3, <1>6, <2>1, <2>4
    <3>2. DepositTarget * Cardinality(D) < chain.vault_out + DepositTarget
      BY <1>0, <1>3, <2>1, <2>2, <2>4, <3>1 DEF RerunsTrue, DepositDue
    <3>3. Cardinality(E) \in Nat /\ Cardinality(E) <= Cardinality(D) + 1
      BY <1>4, <3>1, AddOne
    <3>4. /\ chain'.vault_usdc = chain.vault_usdc + DepositTarget
          /\ chain'.vault_out = chain.vault_out
          /\ chain'.ownerAta = chain.ownerAta /\ chain'.supply = chain.supply
      BY <2>1, <2>3, <2>4 DEF Execution
    <3>5. DepositTarget * Cardinality(E) < chain.vault_out + 2 * DepositTarget
      BY <1>0, <1>4, <3>2, <3>3 DEF DepositTarget
    <3>6. DepositTarget * Cardinality(E) <= chain'.vault_usdc + chain'.vault_out
      BY <1>0, <1>4, <3>3, <3>4 DEF DepositTarget
    <3>7. Backed'
      BY <1>3, <1>4, <3>1, <3>4, <3>6 DEF Backed
    <3>8. BootstrapRefills' /\ InitialMintOnce'
      BY <1>3, <1>4, <3>1, <3>4, <3>5 DEF BootstrapRefills, InitialMintOnce
    <3>9. DepositDue' /\ MintDue'
      BY <1>3, <2>1, <2>4, <3>1, <3>2, <3>4 DEF DepositDue, MintDue
    <3> QED BY <1>1, <3>7, <3>8, <3>9 DEF RerunsTrue
  <2>5. CASE t.ix = "mintTo"
    <3>1. N = M \cup {i} /\ E = D
      BY <1>2, <1>3, <1>6, <2>1, <2>5
    <3>2. M \subseteq {i}
      BY <1>0, <1>3, <2>1, <2>2, <2>5 DEF RerunsTrue, MintDue
    <3>3. /\ chain'.vault_usdc = chain.vault_usdc /\ chain'.vault_out = chain.vault_out
          /\ chain'.ownerAta = TRUE /\ chain'.supply = chain.supply + InitialMint
      BY <2>1, <2>3, <2>5 DEF Execution
    <3>4. Backed'
      BY <1>0, <1>3, <1>4, <3>1, <3>3 DEF Backed, InitialMint
    <3>5. BootstrapRefills' /\ InitialMintOnce'
      BY <1>3, <1>4, <3>1, <3>2, <3>3 DEF BootstrapRefills, InitialMintOnce
    <3>6. DepositDue' /\ MintDue'
      BY <1>3, <2>1, <2>5, <3>1, <3>2 DEF DepositDue, MintDue
    <3> QED BY <1>1, <3>4, <3>5, <3>6 DEF RerunsTrue
  <2> QED BY <1>6, <2>4, <2>5 DEF Boot
<1> QED BY <1>5, <1>6

\* A transaction that lands has an effect its sender was entitled to, and one
\* that fails or expires has none.
LEMMA NetworkInv ==
    ASSUME Inv, NetworkStep
    PROVE  Inv'
<1>0. /\ chain \in Chains /\ txs \in Seq(Txs)
      /\ Len(txs) \in Nat /\ DOMAIN txs = 1..Len(txs)
      /\ UNCHANGED <<script, disk, runs, abandoned, flows, modal, keys>>
  BY LenProperties DEF Inv, Typed, NetworkStep, scriptVars, webVars
<1>1. PICK i \in 1..Len(txs) : Land(i) \/ Expire(i)
  BY DEF NetworkStep, Network
<1>2. PICK s \in Statuses \ {"flying"} :
        /\ Differs(txs', txs, i, [txs[i] EXCEPT !.status = s])
        /\ IF s = "ok" THEN Execution(chain, txs[i].order, chain') ELSE chain' = chain
  BY <1>0, <1>1, OutcomeIs
<1>3. /\ txs[i].status = "flying" /\ txs[i] \in Txs /\ txs' \in Seq(Txs)
  BY <1>0, <1>1, OutcomeIs
<1>4. PICK u : /\ u = [txs[i] EXCEPT !.status = s]
               /\ u.status = s /\ u.order = txs[i].order
  <2> DEFINE v == [txs[i] EXCEPT !.status = s]
  <2>1. v.status = s /\ v.order = txs[i].order
    BY <1>3 DEF Txs
  <2> HIDE DEF v
  <2>2. \E u : u = v /\ u.status = s /\ u.order = txs[i].order
    BY <2>1
  <2> QED BY <2>2 DEF v
<1>5. /\ Len(txs') = Len(txs)
      /\ \A j \in 1..Len(txs) : txs'[j] = IF j = i THEN u ELSE txs[j]
  BY <1>2, <1>4 DEF Differs
<1>6. PICK t \in Orders : t = txs[i].order
  BY <1>3 DEF Txs
<1>7. /\ chain' \in Chains
      /\ chain.agents \subseteq chain'.agents
      /\ chain.vault_usdc <= chain'.vault_usdc /\ chain'.vault_out = chain.vault_out
      /\ chain.supply <= chain'.supply /\ (chain.ownerAta => chain'.ownerAta)
  <2>1. chain.vault_usdc \in Nat /\ chain.supply \in Nat
    BY <1>0 DEF Chains
  <2>2. t.ix \in {"deposit", "mintTo"} => t.amount \in Nat
    BY <1>6 DEF Orders
  <2>3. CASE s = "ok"
    <3>1. Execution(chain, t, chain')
      BY <1>2, <1>6, <2>3
    <3>2. chain' \in Chains /\ chain.agents \subseteq chain'.agents
      BY <3>1 DEF Execution
    <3>3. chain.vault_usdc <= chain'.vault_usdc /\ chain'.vault_out = chain.vault_out
      BY <2>1, <2>2, <3>1 DEF Execution
    <3>4. chain.supply <= chain'.supply
      BY <2>1, <2>2, <3>1 DEF Execution
    <3>5. chain.ownerAta => chain'.ownerAta
      BY <3>1 DEF Execution
    <3> QED BY <3>2, <3>3, <3>4, <3>5
  <2>4. CASE s # "ok"
    BY <1>0, <1>2, <2>1, <2>4
  <2> QED BY <2>3, <2>4
<1>8. Keeps
  <2>1. AccountsGrow
    BY <1>0, <1>7 DEF AccountsGrow, Chains
  <2>2. TxsStand
    <3>1. Len(txs') \in Nat /\ Len(txs) <= Len(txs')
      BY <1>0, <1>5
    <3>2. ASSUME NEW j \in 1..Len(txs)
          PROVE  /\ txs'[j].order = txs[j].order
                 /\ txs[j].status = "ok" => txs'[j].status = "ok"
      BY <1>3, <1>4, <1>5
    <3> QED BY <3>1, <3>2 DEF TxsStand
  <2>3. SavedGrow
    BY <1>0 DEF SavedGrow
  <2> QED BY <2>1, <2>2, <2>3 DEF Keeps
<1>9. Typed'
  BY <1>0, <1>3, <1>7 DEF Inv, Typed
<1>10. ChainTrue'
  <2>1. TxTrue(i) /\ ChainTrue
    BY DEF Inv
  <2>2. /\ t.ix \in Named => t.key \in keys.saved \cup {0}
        /\ t.ix = "createVault" /\ ~t.init => t.key \in chain.agents
        /\ t.ix = "createMint" => t.key = 1
    BY <1>6, <2>1 DEF TxTrue
  <2>3. CASE s = "ok"
    <3>1. Execution(chain, t, chain')
      BY <1>2, <1>6, <2>3
    <3>2. chain'.mints \subseteq {1}
      BY <2>1, <2>2, <3>1 DEF Execution, ChainTrue
    <3>3. KeysSaved'
      BY <1>0, <2>1, <2>2, <3>1 DEF Execution, ChainTrue, KeysSaved, Named
    <3>4. VaultHasAgent'
      BY <2>1, <2>2, <3>1 DEF Execution, ChainTrue, VaultHasAgent
    <3> QED BY <3>2, <3>3, <3>4 DEF ChainTrue
  <2>4. CASE s # "ok"
    BY <1>0, <1>2, <2>1, <2>4 DEF ChainTrue, KeysSaved, VaultHasAgent
  <2> QED BY <2>3, <2>4
<1>11. ASSUME NEW j \in 1..Len(txs') PROVE TxTrue(j)'
  <2>0. j \in 1..Len(txs)
    BY <1>5
  <2>1. CASE j # i
    BY <1>5, <1>8, <2>0, <2>1, TxKept DEF Status
  <2>2. CASE j = i /\ s # "ok"
    BY <1>4, <1>5, <1>8, <2>0, <2>2, TxKept DEF Status
  <2>3. CASE j = i /\ s = "ok"
    <3>1. Execution(chain, t, chain') /\ TxTrue(i)
      BY <1>0, <1>2, <1>6, <2>3 DEF Inv
    <3>3. txs'[j].order = t /\ txs[i].order = t
      BY <1>4, <1>5, <1>6, <2>0, <2>3
    <3>4. t.ix = "initAgent" => t.key \in chain'.agents
      BY <3>1 DEF Execution
    <3> QED BY <1>0, <1>7, <2>3, <3>1, <3>3, <3>4 DEF TxTrue
  <2> QED BY <2>1, <2>2, <2>3
<1>12. \A j \in 1..Len(flows') : FlowTrue(j)'
  BY <1>0, <1>8, FlowKept
<1>13. ModalTrue' /\ ScriptTrue' /\ DiskTrue'
  BY <1>0, <1>8, ModalKept, ScriptKept DEF Inv, DiskTrue
<1>14. RerunsTrue'
  <2>1. IF s = "ok" THEN Execution(chain, t, chain') ELSE chain' = chain
    BY <1>2, <1>6
  <2>2. txs[i].order = t /\ u.order = t
    BY <1>4, <1>6
  <2>3. Len(txs') = Len(txs)
    BY <1>5
  <2>4. \A j \in 1..Len(txs) : txs'[j] = IF j = i THEN u ELSE txs[j]
    BY <1>5
  <2>5. txs[i].status = "flying" /\ u.status = s /\ UNCHANGED <<script, abandoned>>
    BY <1>0, <1>3, <1>4
  <2> QED BY <1>8, <2>1, <2>2, <2>3, <2>4, <2>5, LandedTrue
<1> QED BY <1>9, <1>10, <1>11, <1>12, <1>13, <1>14 DEF Inv

\* A payment or a withdrawal moves tokens from what the vault holds to what has
\* left it (AgentSpends, Withdraw).
LEMMA TokensLeaveInv ==
    ASSUME Inv, TokensLeave
    PROVE  Inv'
<1>0. /\ Typed /\ chain \in Chains /\ Len(txs) \in Nat
      /\ UNCHANGED <<script, disk, runs, abandoned, flows, modal, keys>>
  BY LenProperties DEF Inv, Typed, TokensLeave, scriptVars, webVars
<1>1. PICK n \in 1..chain.vault_usdc : AgentSpends(n) \/ Withdraw(n)
  BY DEF TokensLeave
<1>2. UNCHANGED txs
  BY <1>1 DEF AgentSpends, Withdraw
<1>3. /\ chain.vault_usdc - n \in Nat /\ chain.vault_out + n \in Nat
      /\ chain.owner_usdc + n \in Int /\ chain.vault_usdc \in Nat
      /\ chain.vault_out \in Nat /\ n \in Nat
  BY <1>0, <1>1 DEF Chains
<1>4. PICK x \in Nat, y \in Nat, z \in Int :
        /\ x = chain.vault_usdc - n /\ y = chain.vault_out + n
        /\ z = chain.owner_usdc + n
  BY <1>3
<1>5. /\ chain' \in Chains /\ chain'.agents = chain.agents
      /\ chain'.mints = chain.mints /\ chain'.vaults = chain.vaults
      /\ chain'.services = chain.services
      /\ chain'.vault_usdc = x /\ chain'.vault_out = y
      /\ chain'.ownerAta = chain.ownerAta /\ chain'.supply = chain.supply
  <2>1. CASE AgentSpends(n)
    <3>1. chain' = [chain EXCEPT !.vault_usdc = x, !.vault_out = y]
      BY <1>4, <2>1 DEF AgentSpends
    <3> QED BY <1>0, <3>1 DEF Chains
  <2>2. CASE Withdraw(n)
    <3>1. chain' = [chain EXCEPT !.vault_usdc = x, !.vault_out = y, !.owner_usdc = z]
      BY <1>4, <2>2 DEF Withdraw
    <3> QED BY <1>0, <3>1 DEF Chains
  <2> QED BY <1>1, <2>1, <2>2
<1>6. Keeps
  <2>1. AccountsGrow
    <3>1. x + y = chain.vault_usdc + chain.vault_out /\ chain.vault_out <= y
      BY <1>3, <1>4
    <3> QED BY <1>0, <1>5, <3>1 DEF AccountsGrow, Chains
  <2>2. TxsStand /\ SavedGrow
    BY <1>0, <1>2 DEF TxsStand, SavedGrow
  <2> QED BY <2>1, <2>2 DEF Keeps
<1>7. Typed'
  BY <1>0, <1>2, <1>5 DEF Typed
<1>8. ChainTrue'
  BY <1>0, <1>5 DEF Inv, ChainTrue, KeysSaved, VaultHasAgent
<1>9. ASSUME NEW j \in 1..Len(txs') PROVE TxTrue(j)'
  BY <1>2, <1>6, TxKept
<1>10. ASSUME NEW j \in 1..Len(flows') PROVE FlowTrue(j)'
  BY <1>0, <1>6, FlowKept
<1>11. ModalTrue' /\ ScriptTrue' /\ DiskTrue'
  BY <1>0, <1>6, ModalKept, ScriptKept DEF Inv, DiskTrue
<1>12. RerunsTrue'
  BY <1>0, <1>2, <1>6, RerunsKept
<1> QED BY <1>7, <1>8, <1>9, <1>10, <1>11, <1>12 DEF Inv

-----------------------------------------------------------------------------
(* Every step keeps the invariant: a transaction is sent. *)

\* The order t is one its sender may give.
Entitled(t) ==
    /\ t.ix \in Named => t.key \in keys.saved \cup {0}
    /\ t.ix = "createVault" /\ ~t.init => t.key \in chain.agents
    /\ t.ix = "createMint" => t.key = 1

\* Nothing is lost when nothing but scripts and forms moves.
LEMMA StillKeeps ==
    ASSUME Typed, UNCHANGED <<chain, txs>>, SavedGrow
    PROVE  Keeps
<1>1. /\ chain.agents \in SUBSET Nat /\ chain.vault_usdc \in Nat /\ Len(txs) \in Nat
      /\ chain.vault_out \in Nat /\ chain.supply \in Nat
  BY LenProperties DEF Typed, Chains
<1>2. AccountsGrow
  BY <1>1 DEF AccountsGrow
<1>3. TxsStand
  BY <1>1 DEF TxsStand
<1> QED BY <1>2, <1>3 DEF Keeps

\* What was sent before stands, and the new transaction is true.
LEMMA SentTrue ==
    ASSUME Inv, NEW by \in {"web", "script"}, NEW t \in Orders, Send(by, t), Entitled(t),
           UNCHANGED <<chain, keys>>
    PROVE  /\ txs' \in Seq(Txs) /\ Len(txs') = Len(txs) + 1 /\ Len(txs) \in Nat
           /\ txs'[Len(txs) + 1].order = t
           /\ Keeps
           /\ \A j \in 1..Len(txs') : TxTrue(j)'
           /\ txs'[Len(txs) + 1].status = "flying"
           /\ \A j \in 1..Len(txs) : txs'[j] = txs[j]
<1>0. txs \in Seq(Txs) /\ Len(txs) \in Nat /\ chain \in Chains
  BY LenProperties DEF Inv, Typed
<1>1. /\ txs' \in Seq(Txs)
      /\ Extends(txs', txs, [status |-> "flying", by |-> by, order |-> t])
  BY <1>0, SendIs
<1>2. PICK n \in Nat : n = Len(txs)
  BY <1>0
<1>3. /\ Len(txs') = n + 1
      /\ \A j \in 1..n : txs'[j] = txs[j]
      /\ txs'[n + 1].status = "flying" /\ txs'[n + 1].order = t
  BY <1>1, <1>2 DEF Extends
<1>4. Keeps
  <2>1. AccountsGrow
    BY <1>0 DEF AccountsGrow, Chains
  <2>2. TxsStand
    <3>1. Len(txs') \in Nat /\ Len(txs) <= Len(txs')
      BY <1>2, <1>3
    <3>2. ASSUME NEW j \in 1..Len(txs)
          PROVE  /\ txs'[j].order = txs[j].order
                 /\ txs[j].status = "ok" => txs'[j].status = "ok"
      BY <1>2, <1>3
    <3> QED BY <3>1, <3>2 DEF TxsStand
  <2>3. SavedGrow
    BY DEF SavedGrow
  <2> QED BY <2>1, <2>2, <2>3 DEF Keeps
<1>5. ASSUME NEW j \in 1..Len(txs') PROVE TxTrue(j)'
  <2>1. CASE j \in 1..Len(txs)
    <3>1. txs'[j].status = txs[j].status
      BY <1>2, <1>3, <2>1
    <3> QED BY <1>4, <2>1, <3>1, TxKept
  <2>2. CASE j = n + 1
    BY <1>3, <2>2 DEF TxTrue, Status, Entitled
  <2>3. j \in 1..Len(txs) \/ j = n + 1
    BY <1>2, <1>3
  <2> QED BY <2>1, <2>2, <2>3
<1> QED BY <1>0, <1>1, <1>2, <1>3, <1>4, <1>5

\* A transaction on its way has not been counted yet.
LEMMA SentUncounted ==
    ASSUME Len(txs) \in Nat, Len(txs') = Len(txs) + 1, UNCHANGED abandoned,
           txs'[Len(txs) + 1].status = "flying", \A j \in 1..Len(txs) : txs'[j] = txs[j]
    PROVE  \A ix : Awaited(ix)' = Awaited(ix)
<1> SUFFICES ASSUME NEW ix PROVE Awaited(ix)' = Awaited(ix)
  OBVIOUS
<1>1. PICK n \in Nat : n = Len(txs)
  OBVIOUS
<1> DEFINE In(x) == x.order.ix = ix /\ x.status = "ok" /\ x.order.prog = "bootstrap"
<1>2. /\ Awaited(ix) = {j \in 1..n : In(txs[j]) /\ j \notin abandoned}
      /\ Awaited(ix)' = {j \in 1..(n + 1) : In(txs'[j]) /\ j \notin abandoned}
  BY <1>1 DEF Awaited, Status
<1>3. ~In(txs'[n + 1])
  BY <1>1
<1> HIDE DEF In
<1>4. 1..(n + 1) = (1..n) \cup {n + 1}
  OBVIOUS
<1>5. \A j \in 1..n : In(txs'[j]) <=> In(txs[j])
  BY <1>1
<1> QED BY <1>2, <1>3, <1>4, <1>5

-----------------------------------------------------------------------------
(* Every step keeps the invariant: the console's handlers. *)

\* A handler that moves keeps the others, and its own facts must hold.
LEMMA HandlerMoves ==
    ASSUME Inv, Keeps, NEW i \in 1..Len(flows), NEW f \in Flows,
           flows' = [flows EXCEPT ![i] = f], Sound(f)'
    PROVE  flows' \in Seq(Flows) /\ \A j \in 1..Len(flows') : FlowTrue(j)'
<1>0. flows \in Seq(Flows) /\ i \in DOMAIN flows
  BY LenProperties DEF Inv, Typed
<1>1. flows' \in Seq(Flows) /\ Differs(flows', flows, i, f)
  BY <1>0, ExceptIs
<1>2. ASSUME NEW j \in 1..Len(flows') PROVE FlowTrue(j)'
  <2>1. j \in 1..Len(flows) /\ flows'[j] = IF j = i THEN f ELSE flows[j]
    BY <1>1 DEF Differs
  <2>2. CASE j = i
    BY <2>1, <2>2 DEF FlowTrue
  <2>3. CASE j # i
    BY <2>1, <2>3, FlowKept
  <2> QED BY <2>2, <2>3
<1> QED BY <1>1, <1>2

\* A handler that only reads, fails or finishes.
LEMMA QuietHandler ==
    ASSUME Inv, NEW i \in 1..Len(flows), NEW f \in Flows,
           flows' = [flows EXCEPT ![i] = f], Sound(f),
           UNCHANGED <<chainVars, scriptVars, modal, keys>>
    PROVE  Inv'
<1>0. /\ Typed /\ UNCHANGED <<chain, txs, script, disk, runs, abandoned, modal, keys>>
  BY DEF Inv, chainVars, scriptVars
<1>1. Keeps
  BY <1>0, StillKeeps DEF SavedGrow
<1>2. Sound(f)'
  BY <1>0 DEF Sound, Status
<1>3. flows' \in Seq(Flows) /\ \A j \in 1..Len(flows') : FlowTrue(j)'
  BY <1>1, <1>2, HandlerMoves
<1>4. Typed'
  BY <1>0, <1>3 DEF Typed
<1>5. ChainTrue' /\ ModalTrue' /\ DiskTrue'
  BY <1>0 DEF Inv, ChainTrue, KeysSaved, VaultHasAgent, ModalTrue, DiskTrue
<1>6. ScriptTrue'
  BY <1>0, <1>1, ScriptKept
<1>7. ASSUME NEW j \in 1..Len(txs') PROVE TxTrue(j)'
  BY <1>0, <1>1, TxKept
<1>8. RerunsTrue'
  BY <1>0, <1>1, RerunsKept
<1> QED BY <1>3, <1>4, <1>5, <1>6, <1>7, <1>8 DEF Inv

\* The elements of the sequences.
LEMMA FlowIs ==
    ASSUME Inv, NEW i \in 1..Len(flows)
    PROVE  /\ flows[i] \in Flows /\ flows[i].t \in Orders /\ Sound(flows[i])
           /\ flows[i].tx \in Nat
<1>1. flows[i] \in Flows
  BY LenProperties, ElementOfSeq DEF Inv, Typed
<1> QED BY <1>1 DEF Flows, Inv, FlowTrue

\* createVault bundles initialize_agent unless the agent exists; a handler that
\* reads goes on to sign, or fails (ReadFirst).
LEMMA ReadInv ==
    ASSUME Inv, NEW i \in 1..Len(flows), ReadFirst(i),
           UNCHANGED <<scriptVars, modal, keys>>
    PROVE  Inv'
<1>0. UNCHANGED chainVars
  BY DEF ReadFirst
<1>1. /\ flows[i] \in Flows /\ flows[i].t \in Orders /\ Sound(flows[i])
  BY FlowIs
<1>2. ASSUME NEW at \in {"signing", "failed"}, flows' = [flows EXCEPT ![i].at = at],
             at = "signing" => flows[i].t.ix # "createVault"
      PROVE  Inv'
  <2>1. PICK f : f = [flows[i] EXCEPT !.at = at]
    OBVIOUS
  <2>2. f \in Flows /\ f.at = at /\ f.t = flows[i].t
    BY <1>1, <1>2, <2>1 DEF Flows, Settled
  <2>3. Sound(f)
    BY <1>1, <1>2, <2>2 DEF Sound
  <2>4. flows' = [flows EXCEPT ![i] = f]
    BY <1>2, <2>1
  <2> QED BY <1>0, <2>2, <2>3, <2>4, QuietHandler
<1>3. CASE createVault(i)
  <2>1. CASE flows' = [flows EXCEPT ![i].at = "failed"]
    BY <1>2, <2>1
  <2>2. CASE flows' = [flows EXCEPT ![i].at = "signing",
                         ![i].t.init = flows[i].t.key \notin chain.agents]
    <3>1. flows[i].t \in [ix : {"createVault"}, key : Nat, init : BOOLEAN]
      BY <1>1, <1>3 DEF createVault, Orders
    <3>2. PICK b \in BOOLEAN : b <=> flows[i].t.key \notin chain.agents
      OBVIOUS
    <3>3. PICK t : t = [ix |-> "createVault", key |-> flows[i].t.key, init |-> b]
      OBVIOUS
    <3>4. t \in Orders
      BY <3>1, <3>3 DEF Orders
    <3>5. PICK f : f = [flows[i] EXCEPT !.at = "signing", !.t = t]
      OBVIOUS
    <3>6. f \in Flows /\ f.at = "signing" /\ f.t = t
      BY <1>1, <3>4, <3>5 DEF Flows
    <3>7. Sound(f)
      BY <1>1, <3>1, <3>2, <3>3, <3>6 DEF Sound, Named
    <3>8. flows' = [flows EXCEPT ![i] = f]
      <4>1. flows' = [flows EXCEPT ![i] = [flows[i] EXCEPT !.at = "signing",
                         !.t = [flows[i].t EXCEPT !.init = b]]]
        BY <2>2, <3>2
      <4>2. [flows[i].t EXCEPT !.init = b] = t
        BY <3>1, <3>3
      <4> QED BY <3>5, <4>1, <4>2
    <3> QED BY <1>0, <3>6, <3>7, <3>8, QuietHandler
  <2> QED BY <1>3, <2>1, <2>2 DEF createVault, Goes
<1>4. CASE initializeAgent(i)
  <2>1. flows[i].t.ix # "createVault"
    BY <1>4 DEF initializeAgent
  <2>2. \E at \in {"signing", "failed"} : flows' = [flows EXCEPT ![i].at = at]
    BY <1>4 DEF initializeAgent, Goes
  <2> QED BY <1>2, <2>1, <2>2
<1>5. CASE updatePolicy(i)
  BY <1>1, <1>5 DEF updatePolicy, Orders
<1> QED BY <1>3, <1>4, <1>5 DEF ReadFirst

\* A handler that ends, by success, failure or a declined signature.
LEMMA GoesInv ==
    ASSUME Inv, NEW i \in 1..Len(flows), NEW at \in Settled, Goes(i, at),
           at = "done" => flows[i].at = "waiting" /\ Succeeded(i),
           UNCHANGED <<chainVars, scriptVars, modal, keys>>
    PROVE  Inv'
<1>1. flows[i] \in Flows /\ Sound(flows[i])
  BY FlowIs
<1>2. PICK f : f = [flows[i] EXCEPT !.at = at]
  OBVIOUS
<1>3. f \in Flows /\ f.at = at /\ f.t = flows[i].t /\ f.tx = flows[i].tx
  BY <1>1, <1>2 DEF Flows, Settled
<1>4. Sound(f)
  BY <1>1, <1>3 DEF Sound, Settled, Succeeded
<1>5. flows' = [flows EXCEPT ![i] = f]
  BY <1>2 DEF Goes
<1> QED BY <1>3, <1>4, <1>5, QuietHandler

\* The wallet signs and the handler's transaction is on its way
\* (sendWithSigners).
LEMMA WebSendInv ==
    ASSUME Inv, NEW i \in 1..Len(flows), flows[i].at = "signing",
           Send("web", flows[i].t),
           flows' = [flows EXCEPT ![i].at = "waiting", ![i].tx = Len(txs) + 1],
           UNCHANGED <<chain, scriptVars, modal, keys>>
    PROVE  Inv'
<1>0. UNCHANGED <<chain, script, disk, runs, abandoned, modal, keys>> /\ Typed
  BY DEF Inv, scriptVars
<1>1. flows[i] \in Flows /\ Sound(flows[i])
  BY FlowIs
<1>2. PICK t \in Orders : t = flows[i].t
  BY FlowIs
<1>3. Entitled(t)
  BY <1>1, <1>2 DEF Entitled, Sound
<1>4. /\ txs' \in Seq(Txs) /\ Len(txs') = Len(txs) + 1 /\ Len(txs) \in Nat
      /\ Keeps
      /\ \A j \in 1..Len(txs') : TxTrue(j)'
      /\ txs'[Len(txs) + 1].order = t /\ txs'[Len(txs) + 1].status = "flying"
      /\ \A j \in 1..Len(txs) : txs'[j] = txs[j]
  <2>1. Send("web", t)
    BY <1>2 DEF Send
  <2>2. UNCHANGED <<chain, keys>>
    BY <1>0
  <2>3. "web" \in {"web", "script"}
    OBVIOUS
  <2> QED BY <1>3, <2>1, <2>2, <2>3, SentTrue
<1>5. PICK n \in Nat : n = Len(txs) + 1
  BY <1>4
<1>6. PICK f : f = [flows[i] EXCEPT !.at = "waiting", !.tx = n]
  OBVIOUS
<1>7. f \in Flows /\ f.at = "waiting" /\ f.t = flows[i].t /\ f.tx = n
  BY <1>1, <1>5, <1>6 DEF Flows
<1>8. Sound(f)'
  <2>1. n \in 1..Len(txs')
    BY <1>4, <1>5
  <2> QED BY <1>0, <1>1, <1>7, <2>1 DEF Sound
<1>9. flows' = [flows EXCEPT ![i] = f]
  BY <1>5, <1>6
<1>10. flows' \in Seq(Flows) /\ \A j \in 1..Len(flows') : FlowTrue(j)'
  BY <1>4, <1>7, <1>8, <1>9, HandlerMoves
<1>11. Typed'
  BY <1>0, <1>4, <1>10 DEF Typed
<1>12. ChainTrue' /\ ModalTrue' /\ DiskTrue'
  BY <1>0 DEF Inv, ChainTrue, KeysSaved, VaultHasAgent, ModalTrue, DiskTrue
<1>13. ScriptTrue'
  BY <1>0, <1>4, ScriptKept
<1>14. RerunsTrue'
  <2>1. \A ix : Awaited(ix)' = Awaited(ix)
    BY <1>0, <1>4, SentUncounted
  <2>2. ~Boot(t)
    BY <1>1, <1>2 DEF Sound, Boot
  <2>3. ASSUME NEW j \in 1..Len(txs') PROVE OwnTrue(j)'
    <3>1. CASE j \in 1..Len(txs)
      BY <1>0, <1>4, <3>1 DEF Inv, RerunsTrue, OwnTrue, Boot, Status
    <3>2. CASE j = Len(txs) + 1
      BY <1>4, <2>2, <3>2 DEF OwnTrue, Boot
    <3> QED BY <1>4, <3>1, <3>2
  <2> QED BY <1>0, <1>4, <2>1, <2>3, DueKept, CountKept
<1> QED BY <1>4, <1>10, <1>11, <1>12, <1>13, <1>14 DEF Inv

\* Every step of a handler.
LEMMA FlowStepInv ==
    ASSUME Inv, NEW i \in 1..Len(flows), FlowStep(i)
    PROVE  Inv'
<1>0. UNCHANGED <<scriptVars, modal, keys>>
  BY DEF FlowStep
<1>1. CASE ReadFirst(i)
  BY <1>0, <1>1, ReadInv
<1>2. CASE sendWithSigners(i)
  <2>1. CASE Goes(i, "failed") /\ UNCHANGED txs
    <3>1. UNCHANGED chainVars
      BY <1>2, <2>1 DEF sendWithSigners, chainVars
    <3>2. "failed" \in Settled /\ "failed" # "done"
      BY DEF Settled
    <3> QED BY <1>0, <2>1, <3>1, <3>2, GoesInv
  <2>2. CASE /\ Send("web", flows[i].t)
             /\ flows' = [flows EXCEPT ![i].at = "waiting", ![i].tx = Len(txs) + 1]
    BY <1>0, <1>2, <2>2, WebSendInv DEF sendWithSigners
  <2> QED BY <1>2, <2>1, <2>2 DEF sendWithSigners
<1>3. CASE flows[i].at = "waiting" /\ Succeeded(i) /\ Goes(i, "done") /\ UNCHANGED chainVars
  <2>1. "done" \in Settled
    BY DEF Settled
  <2> QED BY <1>0, <1>3, <2>1, GoesInv
<1>4. CASE Throw(i)
  <2>1. "failed" \in Settled /\ "failed" # "done"
    BY DEF Settled
  <2> QED BY <1>0, <1>4, <2>1, GoesInv DEF Throw
<1> QED BY <1>1, <1>2, <1>3, <1>4 DEF FlowStep

-----------------------------------------------------------------------------
(* Every step keeps the invariant: the forms. *)

\* A step of the user leaves chain and scripts alone.
LEMMA FormInv ==
    ASSUME Inv, UNCHANGED <<chainVars, scriptVars>>,
           keys' \in [made : Nat, saved : SUBSET Nat], SavedGrow,
           modal' \in Modals, ModalTrue',
           flows' \in Seq(Flows), \A j \in 1..Len(flows') : FlowTrue(j)'
    PROVE  Inv'
<1>0. Typed /\ UNCHANGED <<chain, txs, script, disk, runs, abandoned>>
  BY DEF Inv, chainVars, scriptVars
<1>1. Keeps
  BY <1>0, StillKeeps
<1>2. Typed'
  BY <1>0 DEF Typed
<1>3. ChainTrue' /\ DiskTrue'
  BY <1>0 DEF Inv, ChainTrue, KeysSaved, VaultHasAgent, DiskTrue, SavedGrow
<1>4. ScriptTrue'
  BY <1>0, <1>1, ScriptKept
<1>5. ASSUME NEW j \in 1..Len(txs') PROVE TxTrue(j)'
  BY <1>0, <1>1, TxKept
<1>6. RerunsTrue'
  BY <1>0, <1>1, RerunsKept
<1> QED BY <1>2, <1>3, <1>4, <1>5, <1>6 DEF Inv

\* No handler is touched by opening, filling or closing a form.
LEMMA FormOnlyInv ==
    ASSUME Inv, UNCHANGED <<chainVars, scriptVars, flows>>,
           keys' \in [made : Nat, saved : SUBSET Nat], SavedGrow,
           modal' \in Modals, ModalTrue'
    PROVE  Inv'
<1>0. Typed /\ UNCHANGED <<chain, txs>>
  BY DEF Inv, chainVars
<1>1. Keeps
  BY <1>0, StillKeeps
<1>2. ASSUME NEW j \in 1..Len(flows') PROVE FlowTrue(j)'
  BY <1>1, FlowKept
<1> QED BY <1>0, <1>2, FormInv DEF Typed

\* The forms before they are submitted.
LEMMA FillInv ==
    ASSUME Inv,
           \/ \E kind \in Selectors : OpenSelector(kind)
           \/ \E kind \in {"vaultForAgent", "setActive", "deposit"}, k \in 0..MaxKeys :
                 OpenFor(kind, k)
           \/ SwitchMode \/ onDownload \/ onFile \/ onClose
    PROVE  Inv'
<1>0. /\ modal \in Modals /\ keys \in [made : Nat, saved : SUBSET Nat] /\ ModalTrue
      /\ chain \in Chains /\ ChainTrue
  BY DEF Inv, Typed
<1>1. ASSUME NEW kind \in Selectors, OpenSelector(kind) PROVE Inv'
  <2>2. keys.made + 1 \in Nat
    BY <1>0
  <2>1. keys' \in [made : Nat, saved : SUBSET Nat] /\ SavedGrow
    <3>1. PICK m \in Nat : keys' = [keys EXCEPT !.made = m]
      BY <1>1, <2>2 DEF OpenSelector
    <3> QED BY <1>0, <3>1 DEF SavedGrow
  <2>3. /\ modal' \in Modals /\ modal'.kind = kind /\ modal'.mode = "generate"
        /\ modal'.ready = FALSE
    BY <1>1, <2>2 DEF OpenSelector, NoModal, Modals
  <2>4. ModalTrue'
    BY <2>3 DEF ModalTrue, Selectors
  <2> QED BY <1>1, <2>1, <2>3, <2>4, FormOnlyInv DEF OpenSelector
<1>2. ASSUME NEW kind \in {"vaultForAgent", "setActive", "deposit"}, NEW k \in 0..MaxKeys,
             OpenFor(kind, k)
      PROVE  Inv'
  <2>1. k \in Nat /\ (kind # "setActive") \in BOOLEAN
    BY OwnerAssumption
  <2>2. /\ modal' \in Modals /\ modal'.kind = kind /\ modal'.mode = "pubkey"
        /\ modal'.key = k
    BY <1>2, <2>1 DEF OpenFor, NoModal, Modals
  <2>3. kind = "vaultForAgent" => k \in keys.saved \cup {0}
    BY <1>0, <1>2 DEF OpenFor, ChainTrue, KeysSaved
  <2>4. ModalTrue'
    BY <1>2, <2>2, <2>3 DEF ModalTrue, Selectors, OpenFor
  <2> QED BY <1>0, <1>2, <2>2, <2>4, FormOnlyInv DEF OpenFor, SavedGrow
<1>3. CASE SwitchMode
  <2>1. PICK m \in {"generate", "other"} : modal' = [modal EXCEPT !.mode = m]
    BY <1>3 DEF SwitchMode
  <2>2. /\ modal' \in Modals /\ modal'.kind = modal.kind /\ modal'.mode = m
        /\ modal'.key = modal.key /\ modal'.ready = modal.ready
    BY <1>0, <2>1 DEF Modals
  <2>3. ModalTrue'
    BY <1>0, <1>3, <2>2 DEF ModalTrue, SwitchMode, Selectors
  <2> QED BY <1>0, <1>3, <2>2, <2>3, FormOnlyInv DEF SwitchMode, SavedGrow
<1>4. CASE onDownload
  <2>1. keys' \in [made : Nat, saved : SUBSET Nat] /\ SavedGrow /\ modal.key \in keys'.saved
    BY <1>0, <1>4 DEF onDownload, SavedGrow, Modals
  <2>2. /\ modal' \in Modals /\ modal'.kind = modal.kind /\ modal'.mode = modal.mode
        /\ modal'.key = modal.key
    BY <1>0, <1>4 DEF onDownload, Modals
  <2>3. ModalTrue'
    BY <1>0, <1>4, <2>1, <2>2 DEF ModalTrue, onDownload, Selectors, SavedGrow
  <2> QED BY <1>4, <2>1, <2>2, <2>3, FormOnlyInv DEF onDownload
<1>5. CASE onFile
  <2>1. PICK b \in BOOLEAN : modal' = [modal EXCEPT !.ready = b]
    BY <1>5 DEF onFile
  <2>2. /\ modal' \in Modals /\ modal'.kind = modal.kind /\ modal'.mode = modal.mode
        /\ modal'.key = modal.key
    BY <1>0, <2>1 DEF Modals
  <2>3. ModalTrue'
    BY <1>0, <1>5, <2>2 DEF ModalTrue, onFile, Selectors
  <2> QED BY <1>0, <1>5, <2>2, <2>3, FormOnlyInv DEF onFile, SavedGrow
<1>6. CASE onClose
  <2>1. modal' \in Modals /\ ModalTrue'
    BY <1>6 DEF onClose, NoModal, Modals, ModalTrue, Selectors
  <2> QED BY <1>0, <1>6, <2>1, FormOnlyInv DEF onClose, SavedGrow
<1> QED BY <1>1, <1>2, <1>3, <1>4, <1>5, <1>6

\* A submitted form starts one more handler, with an order its form entitles it
\* to give.
LEMMA StartInv ==
    ASSUME Inv, NEW f \in Flows, flows' = Append(flows, f), Sound(f),
           UNCHANGED <<chainVars, scriptVars, keys>>,
           modal' \in Modals, ModalTrue'
    PROVE  Inv'
<1>0. /\ Typed /\ UNCHANGED <<chain, txs, keys>> /\ flows \in Seq(Flows)
      /\ Len(flows) \in Nat
  BY LenProperties DEF Inv, Typed, chainVars
<1>1. Keeps
  BY <1>0, StillKeeps DEF SavedGrow
<1>2. flows' \in Seq(Flows) /\ Extends(flows', flows, f)
  BY <1>0, AppendIs
<1>3. ASSUME NEW j \in 1..Len(flows') PROVE FlowTrue(j)'
  <2>1. j \in 1..Len(flows) \/ j = Len(flows) + 1
    BY <1>0, <1>2 DEF Extends
  <2>2. CASE j \in 1..Len(flows)
    BY <1>1, <1>2, <2>2, FlowKept DEF Extends
  <2>3. CASE j = Len(flows) + 1
    <3>1. flows'[j] = f
      BY <1>2, <2>3 DEF Extends
    <3> QED BY <1>0, <3>1 DEF FlowTrue, Sound, Status
  <2> QED BY <2>1, <2>2, <2>3
<1> QED BY <1>0, <1>2, <1>3, FormInv DEF Typed, SavedGrow

\* A form that shows its handler is the same form.
LEMMA ModalShows ==
    ASSUME modal \in Modals, ModalTrue, NEW n \in Nat, UNCHANGED keys,
           \/ modal' = [modal EXCEPT !.flow = n]
           \/ modal' = [modal EXCEPT !.airdrop = n]
    PROVE  modal' \in Modals /\ ModalTrue'
<1>1. /\ modal' \in Modals /\ modal'.kind = modal.kind /\ modal'.mode = modal.mode
      /\ modal'.key = modal.key /\ modal'.ready = modal.ready
  BY DEF Modals
<1> QED BY <1>1 DEF ModalTrue

\* onSubmit, for an order that is entitled as far as the form goes.
LEMMA SubmitInv ==
    ASSUME Inv, NEW at \in {"reading", "signing"}, NEW t \in Orders, onSubmit(at, t),
           modal.kind # "none",
           t.ix \in Named => t.key \in keys.saved \cup {0},
           t.ix = "createVault" => at = "reading",
           t.ix # "createMint", t.ix \in {"deposit", "mintTo"} => t.prog = "web"
    PROVE  Inv'
<1>0. /\ modal \in Modals /\ ModalTrue /\ UNCHANGED <<chainVars, scriptVars, keys>>
      /\ Len(flows) + 1 \in Nat
  BY LenProperties DEF Inv, Typed, onSubmit
<1>1. PICK f : f = [at |-> at, tx |-> 0, t |-> t, chosen |-> modal.mode]
  OBVIOUS
<1>2. modal.mode \in {"generate", "other", "pubkey"}
  BY <1>0 DEF ModalTrue, onSubmit, Modals, Selectors
<1>3. f \in Flows
  BY <1>1, <1>2 DEF Flows
<1>4. Sound(f)
  BY <1>1 DEF Sound
<1>5. modal' \in Modals /\ ModalTrue'
  BY <1>0, ModalShows DEF onSubmit
<1>6. flows' = Append(flows, f)
  BY <1>1 DEF onSubmit, Start
<1> QED BY <1>0, <1>3, <1>4, <1>5, <1>6, StartInv

\* Every form: what it sends is for a key that was downloaded, that is on chain,
\* or that is the owner's own.
LEMMA FormsInv ==
    ASSUME Inv,
           \/ CreateVaultModal \/ CreateVaultForAgentModal \/ InitializeAgentModal
           \/ RegisterServiceModal \/ SetServiceActiveModal \/ DepositModal \/ onAirdrop
    PROVE  Inv'
<1>0. /\ modal \in Modals /\ ModalTrue /\ keys.saved \in SUBSET Nat /\ modal.key \in Nat
      /\ chain.active \in BOOLEAN /\ Key \in Nat
  BY DEF Inv, Typed, Modals, Chains, Key
<1>1. SubmitEnabled /\ modal.kind \in Selectors => Key \in keys.saved \cup {0}
  BY <1>0 DEF SubmitEnabled, Key, ModalTrue
<1>2. modal.kind = "vaultForAgent" => Key \in keys.saved \cup {0}
  BY <1>0 DEF Key, ModalTrue, Selectors
<1>3. ASSUME CreateVaultModal \/ CreateVaultForAgentModal PROVE Inv'
  <2>1. PICK t : t = [ix |-> "createVault", key |-> Key, init |-> FALSE]
    OBVIOUS
  <2>2. t \in Orders
    BY <1>0, <2>1 DEF Orders
  <2>3. onSubmit("reading", t) /\ modal.kind \in {"createVault", "vaultForAgent"}
    BY <1>3, <2>1 DEF CreateVaultModal, CreateVaultForAgentModal
  <2>4. Key \in keys.saved \cup {0}
    BY <1>1, <1>2, <2>3 DEF onSubmit, Selectors
  <2> QED BY <2>1, <2>2, <2>3, <2>4, SubmitInv
<1>4. CASE InitializeAgentModal
  <2>1. PICK t : t = [ix |-> "initAgent", key |-> Key]
    OBVIOUS
  <2>2. t \in Orders
    BY <1>0, <2>1 DEF Orders
  <2>3. onSubmit("reading", t) /\ modal.kind = "initAgent"
    BY <1>4, <2>1 DEF InitializeAgentModal
  <2>4. Key \in keys.saved \cup {0}
    BY <1>1, <2>3 DEF onSubmit, Selectors
  <2> QED BY <2>1, <2>2, <2>3, <2>4, SubmitInv
<1>5. CASE RegisterServiceModal
  <2>1. PICK t : t = [ix |-> "register", key |-> Key]
    OBVIOUS
  <2>2. t \in Orders
    BY <1>0, <2>1 DEF Orders
  <2>3. onSubmit("signing", t) /\ modal.kind = "register"
    BY <1>5, <2>1 DEF RegisterServiceModal
  <2>4. Key \in keys.saved \cup {0}
    BY <1>1, <2>3 DEF onSubmit, Selectors
  <2> QED BY <2>1, <2>2, <2>3, <2>4, SubmitInv
<1>6. CASE SetServiceActiveModal
  <2>1. PICK t : t = [ix |-> "setActive", key |-> Key, active |-> ~chain.active]
    OBVIOUS
  <2>2. t \in Orders
    BY <1>0, <2>1 DEF Orders
  <2>3. onSubmit("signing", t) /\ modal.kind = "setActive"
    BY <1>6, <2>1 DEF SetServiceActiveModal
  <2> QED BY <2>1, <2>2, <2>3, SubmitInv DEF Named
<1>7. CASE DepositModal
  <2>1. PICK t : t = [ix |-> "deposit", amount |-> 1, prog |-> "web"]
    OBVIOUS
  <2>2. t \in Orders
    BY <2>1 DEF Orders
  <2>3. onSubmit("signing", t) /\ modal.kind = "deposit"
    BY <1>7, <2>1 DEF DepositModal
  <2> QED BY <2>1, <2>2, <2>3, SubmitInv DEF Named
<1>8. CASE onAirdrop
  <2>1. PICK t : t = [ix |-> "mintTo", amount |-> 1, prog |-> "web"]
    OBVIOUS
  <2>2. PICK f : f = [at |-> "signing", tx |-> 0, t |-> t, chosen |-> modal.mode]
    OBVIOUS
  <2>3. modal.mode = "pubkey"
    BY <1>0, <1>8 DEF onAirdrop, ModalTrue, Modals, Selectors
  <2>4. t \in Orders
    BY <2>1 DEF Orders
  <2>5. f \in Flows /\ Sound(f)
    BY <2>1, <2>2, <2>3, <2>4 DEF Flows, Sound, Named
  <2>6. flows' = Append(flows, f) /\ UNCHANGED <<chainVars, scriptVars, keys>>
    BY <1>8, <2>1, <2>2 DEF onAirdrop, Start
  <2>7. Len(flows) + 1 \in Nat
    BY LenProperties DEF Inv, Typed
  <2>8. modal' \in Modals /\ ModalTrue'
    BY <1>0, <1>8, <2>7, ModalShows DEF onAirdrop
  <2> QED BY <2>5, <2>6, <2>8, StartInv
<1> QED BY <1>3, <1>4, <1>5, <1>6, <1>7, <1>8

-----------------------------------------------------------------------------
(* Every step keeps the invariant: the scripts. *)

\* What a run must have found missing before it sends.
Needed(step) ==
    /\ step = "deposit" => chain.vault_usdc < DepositTarget
    /\ step = "mintTo" => ~(chain.ownerAta /\ chain.supply >= InitialMint)

\* What a script does without the cluster leaves the rest as it was; a transaction
\* it no longer waits for, and that is still on its way, is abandoned.
LEMMA ScriptMoves ==
    ASSUME Inv, script' \in Scripts, script'.tx = 0, ScriptTrue',
           disk' \in [mint : Nat, keys : Nat, manifest : BOOLEAN], DiskTrue',
           runs' \in Nat,
           abandoned' = IF script.tx # 0 /\ Status(script.tx) = "flying"
                        THEN abandoned \cup {script.tx} ELSE abandoned,
           UNCHANGED <<chainVars, webVars>>,
           script'.at = "send" => Needed(script'.step)
    PROVE  Inv'
<1>0. /\ Typed /\ UNCHANGED <<chain, txs, flows, modal, keys>> /\ Len(txs) \in Nat
      /\ abandoned \in SUBSET Nat /\ script.tx \in Nat /\ RerunsTrue
  BY LenProperties DEF Inv, Typed, chainVars, webVars, Scripts
<1>1. Keeps
  BY <1>0, StillKeeps DEF SavedGrow
<1>2. Typed'
  <2>1. abandoned' \in SUBSET Nat
    BY <1>0
  <2> QED BY <1>0, <2>1 DEF Typed
<1>3. ChainTrue' /\ ModalTrue'
  BY <1>0 DEF Inv, ChainTrue, KeysSaved, VaultHasAgent, ModalTrue
<1>4. ASSUME NEW j \in 1..Len(txs') PROVE TxTrue(j)'
  BY <1>0, <1>1, TxKept
<1>5. ASSUME NEW j \in 1..Len(flows') PROVE FlowTrue(j)'
  BY <1>0, <1>1, FlowKept
<1>6. RerunsTrue'
  <2>1. ASSUME NEW ix PROVE Awaited(ix)' = Awaited(ix)
    BY <1>0 DEF Awaited, Status
  <2>2. ASSUME NEW j \in 1..Len(txs') PROVE OwnTrue(j)'
    <3>1. OwnTrue(j) /\ j # 0
      BY <1>0 DEF RerunsTrue
    <3> QED BY <1>0, <3>1 DEF OwnTrue, Boot, Status
  <2>3. script'.at # "wait"
    BY <1>0 DEF ScriptTrue
  <2>4. PICK D : D = Awaited("deposit") /\ D = Awaited("deposit")' /\ D \ {0} = D
    <3>1. Awaited("deposit") \subseteq 1..Len(txs)
      BY <1>0, AwaitedFinite
    <3> QED BY <1>0, <2>1, <3>1
  <2>5. PICK M : M = Awaited("mintTo") /\ M = Awaited("mintTo")'
    BY <2>1
  <2>6. /\ Cardinality(D) \in Nat
        /\ DepositTarget * Cardinality(D) <= chain.vault_usdc + chain.vault_out
        /\ M # {} => chain.ownerAta /\ chain.supply >= InitialMint
    BY <1>0, <2>4, <2>5, AwaitedFinite DEF RerunsTrue, Backed
  <2>7. chain.vault_usdc \in Nat /\ chain.vault_out \in Nat
    BY <1>0 DEF Typed, Chains
  <2>8. DepositDue'
    <3>1. script'.step = "deposit" /\ script'.at = "send" =>
            DepositTarget * Cardinality(D) < chain.vault_out + DepositTarget
      BY <2>6, <2>7 DEF Needed, DepositTarget
    <3> QED BY <1>0, <2>3, <2>4, <3>1 DEF DepositDue
  <2>9. MintDue'
    BY <2>3, <2>5, <2>6 DEF MintDue, Needed
  <2> QED BY <1>1, <2>1, <2>2, <2>8, <2>9, CountKept
<1> QED BY <1>2, <1>3, <1>4, <1>5, <1>6 DEF Inv

\* A script that ends, by success, failure or the operator, leaves at most its
\* own transaction flying, which then counts as abandoned (Ends).
LEMMA EndsInv ==
    ASSUME Inv, Ends, UNCHANGED <<chainVars, runs, webVars>>,
           disk' \in [mint : Nat, keys : Nat, manifest : BOOLEAN], DiskTrue'
    PROVE  Inv'
<1>0. runs' \in Nat
  BY DEF Inv, Typed
<1>1. /\ script' = NotRunning
      /\ abandoned' = IF script.tx # 0 /\ Status(script.tx) = "flying"
                      THEN abandoned \cup {script.tx} ELSE abandoned
  BY DEF Ends
<1>2. script' \in Scripts /\ script'.tx = 0 /\ script'.at # "send"
  BY <1>1 DEF NotRunning, Scripts
<1>3. ScriptTrue'
  BY <1>1 DEF NotRunning, ScriptTrue, At
<1> QED BY <1>0, <1>1, <1>2, <1>3, ScriptMoves

\* A step of a script that was present, is to be sent, or was confirmed.
LEMMA GotoInv ==
    ASSUME Inv, NEW step \in BootSteps \cup {"short", "topup"},
           NEW at \in {"check", "send"}, script' = Goto(step, at),
           UNCHANGED <<chainVars, disk, runs, abandoned, webVars>>,
           script.tx = 0 \/ Status(script.tx) = "ok", script.prog # "none",
           script.prog = "bootstrap" <=> step \in BootSteps,
           step = "vault" => 0 \in chain.agents,
           at = "send" => Needed(step)
    PROVE  Inv'
<1>0. /\ Typed /\ script \in Scripts /\ ScriptTrue /\ UNCHANGED <<chain, txs>>
  BY DEF Inv, Typed, chainVars
<1>1. /\ script' \in Scripts /\ script'.step = step /\ script'.at = at /\ script'.tx = 0
      /\ script'.prog = script.prog /\ script'.mint = script.mint
      /\ script'.amount = script.amount
  BY <1>0 DEF Goto, Scripts
<1>2. step \notin BootSteps => step \in {"short", "topup"}
  OBVIOUS
<1>3. ScriptTrue'
  BY <1>0, <1>1, <1>2 DEF ScriptTrue, At, Scripts
<1>4. abandoned' = IF script.tx # 0 /\ Status(script.tx) = "flying"
                   THEN abandoned \cup {script.tx} ELSE abandoned
  OBVIOUS
<1>5. /\ disk' \in [mint : Nat, keys : Nat, manifest : BOOLEAN] /\ DiskTrue'
      /\ runs' \in Nat
  BY <1>0 DEF Typed, Inv, DiskTrue
<1> QED BY <1>1, <1>3, <1>4, <1>5, ScriptMoves

\* Two steps of one script.
Follows(step, next) ==
    \/ step \in BootSteps /\ next \in BootSteps
    \/ step \in {"short", "topup"} /\ next \in {"short", "topup"}

\* At a step of its own, a script runs and is of the step's kind.
LEMMA RunsAt ==
    ASSUME Inv, NEW step \in BootSteps \cup {"short", "topup"}, script.step = step
    PROVE  script.prog # "none" /\ (script.prog = "bootstrap" <=> step \in BootSteps)
<1>1. script \in Scripts /\ ScriptTrue
  BY DEF Inv, Typed
<1>2. script.prog \in {"none", "bootstrap", "topup"} /\ "none" \notin BootSteps
      /\ "short" \notin BootSteps /\ "topup" \notin BootSteps
  BY <1>1 DEF Scripts, BootSteps
<1> QED BY <1>1, <1>2 DEF ScriptTrue

\* Looking whether an effect is there (Ensure): the script goes on or sends.
LEMMA EnsureInv ==
    ASSUME Inv, NEW step, NEW next, Follows(step, next), At(step, "check"),
           \/ script' = Goto(next, "check") /\ (next = "vault" => 0 \in chain.agents)
           \/ script' = Goto(step, "send") /\ Needed(step),
           UNCHANGED <<chainVars, disk, runs, abandoned, webVars>>
    PROVE  Inv'
<1>0. ScriptTrue /\ script.step = step /\ script.at = "check"
  BY DEF Inv, At
<1>1. script.tx = 0
  BY <1>0 DEF ScriptTrue
<1>2. step = "vault" => 0 \in chain.agents
  BY <1>0 DEF ScriptTrue
<1>3. /\ step \in BootSteps \cup {"short", "topup"}
      /\ next \in BootSteps \cup {"short", "topup"}
      /\ step \in BootSteps <=> next \in BootSteps
  BY DEF Follows, BootSteps
<1>4. script.prog # "none" /\ (script.prog = "bootstrap" <=> step \in BootSteps)
  BY <1>0, <1>3, RunsAt
<1>5. CASE script' = Goto(next, "check") /\ (next = "vault" => 0 \in chain.agents)
  BY <1>1, <1>3, <1>4, <1>5, GotoInv
<1>6. CASE script' = Goto(step, "send") /\ Needed(step)
  BY <1>1, <1>2, <1>3, <1>4, <1>6, GotoInv
<1> QED BY <1>5, <1>6

\* A confirmed transaction has had its effect (Confirmed): after ensureAgent the
\* agent exists.
LEMMA ConfirmedInv ==
    ASSUME Inv, NEW step, NEW next, Follows(step, next), Confirmed(step, next),
           next = "vault" => step = "agent", UNCHANGED webVars
    PROVE  Inv'
<1>0. /\ ScriptTrue /\ script.step = step /\ script.at = "wait"
      /\ Status(script.tx) = "ok" /\ script' = Goto(next, "check")
      /\ UNCHANGED <<chainVars, disk, runs, abandoned>>
  BY DEF Inv, At, Confirmed
<1>1. /\ step \in BootSteps \cup {"short", "topup"}
      /\ next \in BootSteps \cup {"short", "topup"}
      /\ step \in BootSteps <=> next \in BootSteps
  BY DEF Follows, BootSteps
<1>2. script.prog # "none" /\ (script.prog = "bootstrap" <=> step \in BootSteps)
  BY <1>0, <1>1, RunsAt
<1>3. step = "agent" => 0 \in chain.agents
  <2> SUFFICES ASSUME step = "agent" PROVE 0 \in chain.agents
    OBVIOUS
  <2>1. /\ script.tx \in 1..Len(txs)
        /\ txs[script.tx].order = [ix |-> "initAgent", key |-> 0]
    BY <1>0 DEF ScriptTrue, At
  <2>2. TxTrue(script.tx)
    BY <2>1 DEF Inv
  <2> QED BY <1>0, <2>1, <2>2 DEF TxTrue
<1> QED BY <1>0, <1>1, <1>2, <1>3, GotoInv

\* A script sends (Submit).  Deposits and mints are the orders it must not repeat
\* lightly, and it looked first.
LEMMA SubmitTxInv ==
    ASSUME Inv, NEW step, NEW t \in Orders, Submit(step, t), Entitled(t),
           step = "agent" => t = [ix |-> "initAgent", key |-> 0],
           Boot(t) => /\ step = t.ix
                      /\ t.amount = IF t.ix = "deposit" THEN DepositTarget ELSE InitialMint,
           UNCHANGED webVars
    PROVE  Inv'
<1>0. /\ Typed /\ script \in Scripts /\ ScriptTrue /\ At(step, "send") /\ Send("script", t)
      /\ script' = [script EXCEPT !.at = "wait", !.tx = Len(txs) + 1]
      /\ UNCHANGED <<chain, disk, runs, abandoned, flows, modal, keys>>
  BY DEF Inv, Typed, Submit, webVars
<1>1. /\ txs' \in Seq(Txs) /\ Len(txs') = Len(txs) + 1 /\ Len(txs) \in Nat
      /\ txs'[Len(txs) + 1].order = t
      /\ Keeps
      /\ \A j \in 1..Len(txs') : TxTrue(j)'
      /\ txs'[Len(txs) + 1].status = "flying"
      /\ \A j \in 1..Len(txs) : txs'[j] = txs[j]
  <2>1. "script" \in {"web", "script"}
    OBVIOUS
  <2>2. UNCHANGED <<chain, keys>>
    BY <1>0
  <2>3. Send("script", t)
    BY <1>0
  <2> QED BY <2>1, <2>2, <2>3, SentTrue
<1>2. PICK n \in Nat : n = Len(txs)
  BY <1>1
<1>3. /\ script' \in Scripts /\ script'.at = "wait" /\ script'.tx = n + 1
      /\ script'.step = step /\ script'.prog = script.prog /\ script'.mint = script.mint
      /\ script'.amount = script.amount
  <2>1. PICK m \in Nat : m = n + 1
    OBVIOUS
  <2>2. script' = [script EXCEPT !.at = "wait", !.tx = m]
    BY <1>0, <1>2, <2>1
  <2> QED BY <1>0, <2>1, <2>2 DEF Scripts, At
<1>4. Typed'
  BY <1>0, <1>1, <1>3 DEF Typed
<1>5. ChainTrue' /\ ModalTrue' /\ DiskTrue'
  BY <1>0 DEF Inv, ChainTrue, KeysSaved, VaultHasAgent, ModalTrue, DiskTrue
<1>6. ASSUME NEW j \in 1..Len(flows') PROVE FlowTrue(j)'
  BY <1>0, <1>1, FlowKept
<1>7. ScriptTrue'
  <2>1. n + 1 \in 1..Len(txs') /\ txs'[n + 1].order = t
    BY <1>1, <1>2
  <2>2. script.step = step /\ script.at = "send"
    BY <1>0 DEF At
  <2> QED BY <1>0, <1>3, <2>1, <2>2 DEF ScriptTrue, At
<1>8. RerunsTrue'
  <2>0. RerunsTrue /\ script.tx = 0 /\ script.at = "send" /\ script.step = step
    BY <1>0 DEF Inv, ScriptTrue, At
  <2>1. \A ix : Awaited(ix)' = Awaited(ix)
    BY <1>0, <1>1, SentUncounted
  <2>2. ASSUME NEW j \in 1..Len(txs') PROVE OwnTrue(j)'
    <3>1. CASE j \in 1..n
      <4>1. OwnTrue(j) /\ txs'[j] = txs[j] /\ j # script.tx
        BY <1>1, <1>2, <2>0, <3>1 DEF RerunsTrue
      <4> QED BY <1>0, <4>1 DEF OwnTrue, Boot, Status
    <3>2. CASE j = n + 1
      BY <1>1, <1>2, <1>3, <3>2 DEF OwnTrue, Boot
    <3> QED BY <1>1, <1>2, <3>1, <3>2
  <2>3. PICK D, M : D = Awaited("deposit") /\ M = Awaited("mintTo")
    OBVIOUS
  <2>4. D \ {0} = D /\ D \ {n + 1} = D /\ (M \subseteq {0} => M = {})
    BY <1>2, <2>3 DEF Awaited
  <2>5. DepositDue' /\ MintDue'
    <3>1. step = "deposit" =>
            DepositTarget * Cardinality(D) < chain.vault_out + DepositTarget
      BY <2>0, <2>3, <2>4 DEF RerunsTrue, DepositDue
    <3>2. step = "mintTo" => M = {}
      BY <2>0, <2>3, <2>4 DEF RerunsTrue, MintDue
    <3>3. DepositDue'
      BY <1>0, <1>3, <2>1, <2>3, <2>4, <3>1 DEF DepositDue
    <3> QED BY <1>3, <2>1, <2>3, <3>2, <3>3 DEF MintDue
  <2> QED BY <1>1, <2>1, <2>2, <2>5, CountKept
<1> QED BY <1>1, <1>4, <1>5, <1>6, <1>7, <1>8 DEF Inv

\* Both scripts start with nothing in flight; the bootstrap has its mint's key
\* on disk by then.
LEMMA StartsInv ==
    ASSUME Inv, StartBootstrap \/ StartTopup, UNCHANGED webVars
    PROVE  Inv'
<1>0. /\ Typed /\ ScriptTrue /\ DiskTrue /\ script.prog = "none" /\ runs \in Nat
      /\ runs' = runs + 1 /\ UNCHANGED <<chainVars, abandoned>>
      /\ disk \in [mint : Nat, keys : Nat, manifest : BOOLEAN]
  BY DEF Inv, Typed, StartBootstrap, StartTopup
<1>1. script.tx = 0
  BY <1>0 DEF ScriptTrue
<1>2. abandoned' = IF script.tx # 0 /\ Status(script.tx) = "flying"
                   THEN abandoned \cup {script.tx} ELSE abandoned
  BY <1>0, <1>1
<1>3. runs' \in Nat
  BY <1>0
<1>4. CASE StartBootstrap
  <2>1. /\ disk' \in [mint : Nat, keys : Nat, manifest : BOOLEAN]
        /\ disk'.mint = 1 /\ disk'.keys = 1
    <3>1. CASE disk.mint = 0
      <4>1. disk' = [disk EXCEPT !.keys = 1, !.mint = 1]
        BY <1>0, <1>4, <3>1 DEF StartBootstrap, loadOrCreateKeypair, DiskTrue
      <4> QED BY <1>0, <4>1
    <3>2. CASE disk.mint # 0
      BY <1>0, <1>4, <3>2 DEF StartBootstrap, loadOrCreateKeypair, DiskTrue
    <3> QED BY <3>1, <3>2
  <2>2. script' = [NotRunning EXCEPT !.prog = "bootstrap", !.step = "ownerSol",
                                     !.at = "check", !.mint = 1]
    BY <1>4, <2>1 DEF StartBootstrap
  <2>3. /\ script' \in Scripts /\ script'.tx = 0 /\ script'.prog = "bootstrap"
        /\ script'.step = "ownerSol" /\ script'.at = "check" /\ script'.mint = 1
    BY <2>2 DEF NotRunning, Scripts, BootSteps
  <2>4. ScriptTrue'
    BY <2>3 DEF ScriptTrue, At, BootSteps
  <2>5. DiskTrue'
    BY <2>1 DEF DiskTrue
  <2> QED BY <1>0, <1>2, <1>3, <2>1, <2>3, <2>4, <2>5, ScriptMoves
<1>5. CASE StartTopup
  <2>1. /\ script' \in Scripts /\ script'.tx = 0 /\ script'.prog = "topup"
        /\ script'.step = "short" /\ script'.at = "check" /\ script'.amount = 1
    BY <1>5 DEF StartTopup, NotRunning, Scripts, BootSteps
  <2>2. ScriptTrue'
    BY <2>1 DEF ScriptTrue, At
  <2>3. UNCHANGED disk /\ DiskTrue'
    BY <1>0, <1>5 DEF StartTopup, DiskTrue
  <2> QED BY <1>0, <1>2, <1>3, <2>1, <2>2, <2>3, ScriptMoves
<1> QED BY <1>4, <1>5

\* Whatever ends a run keeps the invariant.
LEMMA StopsInv ==
    ASSUME Inv, Ends, UNCHANGED <<chainVars, runs, webVars>>,
           UNCHANGED disk \/ disk' = [disk EXCEPT !.manifest = TRUE]
    PROVE  Inv'
<1>1. disk \in [mint : Nat, keys : Nat, manifest : BOOLEAN] /\ DiskTrue
  BY DEF Inv, Typed
<1>2. disk' \in [mint : Nat, keys : Nat, manifest : BOOLEAN] /\ DiskTrue'
  BY <1>1 DEF DiskTrue
<1> QED BY <1>2, EndsInv

\* The steps of the bootstrap that send.
LEMMA BootSendInv ==
    ASSUME Inv, UNCHANGED webVars,
           fundService \/ ensureMint \/ mintInitialUsdc \/ ensureAgent \/ ensureVault
             \/ ensureDeposit
    PROVE  Inv'
<1>0. /\ script \in Scripts /\ ScriptTrue /\ chain.vault_usdc \in Nat
  BY DEF Inv, Typed, Chains
<1>1. CASE fundService
  <2>1. Follows("fund", "mint")
    BY DEF Follows, BootSteps
  <2>2. CASE Ensure("fund", chain.serviceSol, "mint")
    BY <2>1, <2>2, EnsureInv DEF Ensure, Needed
  <2>3. CASE Submit("fund", [ix |-> "fund"])
    <3>1. [ix |-> "fund"] \in Orders /\ Entitled([ix |-> "fund"]) /\ ~Boot([ix |-> "fund"])
      BY DEF Orders, Entitled, Named, Boot
    <3> QED BY <2>3, <3>1, SubmitTxInv
  <2>4. CASE Confirmed("fund", "mint")
    BY <2>1, <2>4, ConfirmedInv
  <2> QED BY <1>1, <2>2, <2>3, <2>4 DEF fundService
<1>2. CASE ensureMint
  <2>1. Follows("mint", "mintTo")
    BY DEF Follows, BootSteps
  <2>2. CASE Ensure("mint", script.mint \in chain.mints, "mintTo")
    BY <2>1, <2>2, EnsureInv DEF Ensure, Needed
  <2>3. CASE Submit("mint", [ix |-> "createMint", key |-> script.mint])
    <3>1. script.mint = 1
      <4>1. script.step = "mint" /\ "mint" \in BootSteps
        BY <2>3 DEF Submit, At, BootSteps
      <4> QED BY <1>0, <4>1, RunsAt DEF ScriptTrue
    <3>2. PICK t : t = [ix |-> "createMint", key |-> 1]
      OBVIOUS
    <3>3. t \in Orders /\ Entitled(t) /\ ~Boot(t)
      BY <3>2 DEF Orders, Entitled, Named, Boot
    <3>4. Submit("mint", t)
      BY <2>3, <3>1, <3>2 DEF Submit, Send
    <3> QED BY <3>3, <3>4, SubmitTxInv
  <2>4. CASE Confirmed("mint", "mintTo")
    BY <2>1, <2>4, ConfirmedInv
  <2> QED BY <1>2, <2>2, <2>3, <2>4 DEF ensureMint
<1>3. CASE mintInitialUsdc
  <2>1. Follows("mintTo", "service")
    BY DEF Follows, BootSteps
  <2>2. CASE Ensure("mintTo", chain.ownerAta /\ chain.supply >= InitialMint, "service")
    BY <2>1, <2>2, EnsureInv DEF Ensure, Needed
  <2>3. CASE Submit("mintTo", [ix |-> "mintTo", amount |-> InitialMint,
                               prog |-> script.prog])
    <3>1. script.prog = "bootstrap"
      <4>1. script.step = "mintTo" /\ "mintTo" \in BootSteps
        BY <2>3 DEF Submit, At, BootSteps
      <4> QED BY <4>1, RunsAt
    <3>2. PICK t : t = [ix |-> "mintTo", amount |-> InitialMint, prog |-> "bootstrap"]
      OBVIOUS
    <3>3. t \in Orders /\ Entitled(t) /\ t.ix = "mintTo" /\ t.amount = InitialMint
      BY <3>2 DEF Orders, Entitled, Named, InitialMint
    <3>4. Submit("mintTo", t)
      BY <2>3, <3>1, <3>2 DEF Submit, Send
    <3> QED BY <3>3, <3>4, SubmitTxInv
  <2>4. CASE Confirmed("mintTo", "service")
    BY <2>1, <2>4, ConfirmedInv
  <2> QED BY <1>3, <2>2, <2>3, <2>4 DEF mintInitialUsdc
<1>4. CASE ensureAgent
  <2>1. Follows("agent", "vault")
    BY DEF Follows, BootSteps
  <2>2. CASE Ensure("agent", 0 \in chain.agents, "vault")
    BY <2>1, <2>2, EnsureInv DEF Ensure, Needed
  <2>3. CASE Submit("agent", [ix |-> "initAgent", key |-> 0])
    <3>1. PICK t : t = [ix |-> "initAgent", key |-> 0]
      OBVIOUS
    <3>2. t \in Orders /\ Entitled(t) /\ ~Boot(t)
      BY <3>1 DEF Orders, Entitled, Named, Boot
    <3> QED BY <2>3, <3>1, <3>2, SubmitTxInv
  <2>4. CASE Confirmed("agent", "vault")
    BY <2>1, <2>4, ConfirmedInv
  <2> QED BY <1>4, <2>2, <2>3, <2>4 DEF ensureAgent
<1>5. CASE ensureVault
  <2>1. Follows("vault", "deposit")
    BY DEF Follows, BootSteps
  <2>2. CASE Ensure("vault", HasVault, "deposit")
    BY <2>1, <2>2, EnsureInv DEF Ensure, Needed
  <2>3. CASE Submit("vault", [ix |-> "createVault", key |-> 0, init |-> FALSE])
    <3>1. PICK t : t = [ix |-> "createVault", key |-> 0, init |-> FALSE]
      OBVIOUS
    <3>2. 0 \in chain.agents
      BY <1>0, <2>3 DEF Submit, At, ScriptTrue
    <3>3. t \in Orders /\ Entitled(t) /\ ~Boot(t)
      BY <3>1, <3>2 DEF Orders, Entitled, Named, Boot
    <3> QED BY <2>3, <3>1, <3>3, SubmitTxInv
  <2>4. CASE Confirmed("vault", "deposit")
    BY <2>1, <2>4, ConfirmedInv
  <2> QED BY <1>5, <2>2, <2>3, <2>4 DEF ensureVault
<1>6. CASE ensureDeposit
  <2>1. Follows("deposit", "verify")
    BY DEF Follows, BootSteps
  <2>2. CASE Ensure("deposit", chain.vault_usdc >= DepositTarget, "verify")
    <3>1. ~(chain.vault_usdc >= DepositTarget) => chain.vault_usdc < DepositTarget
      BY <1>0 DEF DepositTarget
    <3> QED BY <2>1, <2>2, <3>1, EnsureInv DEF Ensure, Needed
  <2>3. CASE Submit("deposit", [ix |-> "deposit", amount |-> DepositTarget,
                                prog |-> script.prog])
    <3>1. script.prog = "bootstrap"
      <4>1. script.step = "deposit" /\ "deposit" \in BootSteps
        BY <2>3 DEF Submit, At, BootSteps
      <4> QED BY <4>1, RunsAt
    <3>2. PICK t : t = [ix |-> "deposit", amount |-> DepositTarget, prog |-> "bootstrap"]
      OBVIOUS
    <3>3. t \in Orders /\ Entitled(t) /\ t.ix = "deposit" /\ t.amount = DepositTarget
      BY <3>2 DEF Orders, Entitled, Named, DepositTarget
    <3>4. Submit("deposit", t)
      BY <2>3, <3>1, <3>2 DEF Submit, Send
    <3> QED BY <3>3, <3>4, SubmitTxInv
  <2>4. CASE Confirmed("deposit", "verify")
    BY <2>1, <2>4, ConfirmedInv
  <2> QED BY <1>6, <2>2, <2>3, <2>4 DEF ensureDeposit
<1> QED BY <1>1, <1>2, <1>3, <1>4, <1>5, <1>6

\* The bootstrap.
LEMMA BootstrapInv ==
    ASSUME Inv, Bootstrap, UNCHANGED webVars
    PROVE  Inv'
<1>1. CASE assertOwnerSol
  <2>1. Follows("ownerSol", "fund")
    BY DEF Follows, BootSteps
  <2>2. CASE script' = Goto("fund", "check") /\ UNCHANGED abandoned
    BY <1>1, <2>1, <2>2, EnsureInv DEF assertOwnerSol
  <2>3. CASE Ends
    BY <1>1, <2>3, StopsInv DEF assertOwnerSol
  <2> QED BY <1>1, <2>2, <2>3 DEF assertOwnerSol
<1>2. CASE ensureService
  <2>1. Follows("service", "agent")
    BY DEF Follows, BootSteps
  <2>2. CASE script' = Goto("agent", "check") /\ UNCHANGED abandoned
    BY <1>2, <2>1, <2>2, EnsureInv DEF ensureService
  <2>3. CASE Ends
    BY <1>2, <2>3, StopsInv DEF ensureService
  <2> QED BY <1>2, <2>2, <2>3 DEF ensureService
<1>3. CASE verifyEverything
  BY <1>3, StopsInv DEF verifyEverything
<1>4. CASE StartBootstrap
  BY <1>4, StartsInv
<1> QED BY <1>1, <1>2, <1>3, <1>4, BootSendInv DEF Bootstrap

\* topup: its deposits are not the bootstrap's.
LEMMA TopupInv ==
    ASSUME Inv, Topup, UNCHANGED webVars
    PROVE  Inv'
<1>0. script \in Scripts /\ ScriptTrue /\ script.amount \in Nat
  BY DEF Inv, Typed, Scripts
<1>1. Follows("short", "topup") /\ Follows("topup", "topup")
  BY DEF Follows
<1>2. CASE StartTopup
  BY <1>2, StartsInv
<1>3. CASE MintShortfall
  <2>1. CASE Ensure("short", chain.owner_usdc >= script.amount, "topup")
    BY <1>1, <2>1, EnsureInv DEF Ensure, Needed
  <2>2. CASE Submit("short", [ix |-> "mintTo", amount |-> script.amount,
                              prog |-> script.prog])
    <3>0. script.prog = "topup"
      <4>1. script.step = "short" /\ "short" \notin BootSteps
        BY <2>2 DEF Submit, At, BootSteps
      <4> QED BY <1>0, <4>1, RunsAt DEF Scripts
    <3>1. PICK t : t = [ix |-> "mintTo", amount |-> script.amount, prog |-> "topup"]
      OBVIOUS
    <3>2. t \in Orders /\ Entitled(t) /\ ~Boot(t)
      BY <1>0, <3>1 DEF Orders, Entitled, Named, Boot
    <3>3. Submit("short", t)
      BY <2>2, <3>0, <3>1 DEF Submit, Send
    <3> QED BY <3>2, <3>3, SubmitTxInv
  <2>3. CASE Confirmed("short", "topup")
    BY <1>1, <2>3, ConfirmedInv
  <2> QED BY <1>3, <2>1, <2>2, <2>3 DEF MintShortfall
<1>4. CASE Ensure("topup", FALSE, "topup")
  BY <1>1, <1>4, EnsureInv DEF Ensure, Needed
<1>5. CASE Submit("topup", [ix |-> "deposit", amount |-> script.amount,
                            prog |-> script.prog])
  <2>1. script.prog = "topup" /\ script.amount = 1
    <3>1. script.step = "topup" /\ "topup" \notin BootSteps
      BY <1>5 DEF Submit, At, BootSteps
    <3>2. script.prog = "topup"
      BY <1>0, <3>1, RunsAt DEF Scripts
    <3> QED BY <1>0, <3>2 DEF ScriptTrue
  <2>2. PICK t : t = [ix |-> "deposit", amount |-> 1, prog |-> "topup"]
    OBVIOUS
  <2>3. t \in Orders /\ Entitled(t) /\ ~Boot(t)
    BY <2>2 DEF Orders, Entitled, Named, Boot
  <2>4. Submit("topup", t)
    BY <1>5, <2>1, <2>2 DEF Submit, Send
  <2> QED BY <2>3, <2>4, SubmitTxInv
<1>6. CASE /\ At("topup", "wait") /\ Status(script.tx) = "ok"
           /\ Ends
           /\ UNCHANGED <<chainVars, disk, runs>>
  BY <1>6, StopsInv
<1> QED BY <1>2, <1>3, <1>4, <1>5, <1>6 DEF Topup

-----------------------------------------------------------------------------
(* The invariant. *)

\* It holds however far the accounts are set up when the tools are first used.
LEMMA InitInv == Init => Inv
<1> SUFFICES ASSUME Init PROVE Inv
  OBVIOUS
<1>1. PICK n \in SetUp : ChainInit(n) /\ ScriptInit(n)
  BY DEF Init
<1>2. n \in 0..6
  BY <1>1, ConsoleAssumption
<1>3. /\ txs = <<>> /\ flows = <<>> /\ modal = NoModal
      /\ keys = [made |-> 0, saved |-> {}] /\ script = NotRunning
      /\ runs = 0 /\ abandoned = {}
  BY <1>1 DEF Init, ChainInit, ScriptInit
<1>4. Len(txs) = 0 /\ Len(flows) = 0
  BY <1>3
<1>5. /\ chain \in Chains /\ chain.mints \subseteq {1} /\ chain.agents \subseteq {0}
      /\ chain.services \subseteq {0} /\ chain.vaults \subseteq chain.agents
  BY <1>1, <1>2 DEF ChainInit, Chains, InitialMint
<1>6. /\ disk \in [mint : Nat, keys : Nat, manifest : BOOLEAN] /\ DiskTrue
  BY <1>1, <1>2 DEF ScriptInit, DiskTrue
<1>7. Typed
  BY <1>3, <1>5, <1>6 DEF Typed, NoModal, Modals, NotRunning, Scripts
<1>8. ChainTrue /\ ModalTrue /\ ScriptTrue
  BY <1>3, <1>5 DEF ChainTrue, KeysSaved, VaultHasAgent, ModalTrue, NoModal, Selectors,
                    ScriptTrue, NotRunning, At
<1>9. RerunsTrue
  <2>1. Awaited("deposit") = {} /\ Awaited("mintTo") = {}
    BY <1>4 DEF Awaited
  <2>2. PICK D, M : D = Awaited("deposit") /\ D = {} /\ M = Awaited("mintTo") /\ M = {}
    BY <2>1
  <2>3. Cardinality(D) = 0 /\ chain.vault_usdc \in Nat /\ chain.vault_out \in Nat
    BY <1>5, <2>2, FS_EmptySet DEF Chains
  <2>4. Backed /\ BootstrapRefills /\ InitialMintOnce
    BY <2>2, <2>3 DEF Backed, BootstrapRefills, InitialMintOnce, DepositTarget
  <2>5. DepositDue /\ MintDue
    BY <1>3 DEF DepositDue, MintDue, NotRunning
  <2> QED BY <1>4, <2>4, <2>5 DEF RerunsTrue
<1>10. (\A i \in 1..Len(txs) : TxTrue(i)) /\ \A i \in 1..Len(flows) : FlowTrue(i)
  BY <1>4
<1> QED BY <1>6, <1>7, <1>8, <1>9, <1>10 DEF Inv

\* Every step keeps it.
LEMMA NextInv == Inv /\ [Next]_vars => Inv'
<1> SUFFICES ASSUME Inv, [Next]_vars PROVE Inv'
  OBVIOUS
<1>1. CASE NetworkStep
  BY <1>1, NetworkInv
<1>2. CASE ScriptRuns
  <2>1. UNCHANGED webVars
    BY <1>2 DEF ScriptRuns
  <2>2. CASE Failed
    BY <2>1, <2>2, StopsInv DEF Failed
  <2> QED BY <1>2, <2>1, <2>2, BootstrapInv, TopupInv DEF ScriptRuns
<1>3. CASE Killed /\ UNCHANGED webVars
  BY <1>3, StopsInv DEF Killed
<1>4. CASE \E i \in 1..Len(flows) : FlowStep(i)
  BY <1>4, FlowStepInv
<1>5. CASE UNCHANGED vars
  <2>1. UNCHANGED <<chain, txs, script, disk, runs, abandoned, flows, modal, keys>>
    BY <1>5 DEF vars, chainVars, scriptVars, webVars
  <2>2. Typed /\ modal \in Modals /\ keys \in [made : Nat, saved : SUBSET Nat] /\ ModalTrue
    BY DEF Inv, Typed
  <2>3. UNCHANGED <<chainVars, scriptVars, flows>>
    BY <2>1 DEF chainVars, scriptVars
  <2>4. SavedGrow /\ ModalTrue' /\ modal' \in Modals
        /\ keys' \in [made : Nat, saved : SUBSET Nat]
    BY <2>1, <2>2 DEF SavedGrow, ModalTrue
  <2> QED BY <2>3, <2>4, FormOnlyInv
<1> QED BY <1>1, <1>2, <1>3, <1>4, <1>5, TokensLeaveInv, FillInv, FormsInv DEF Next

\* It always holds.
LEMMA AlwaysInv == Spec => []Inv
BY InitInv, NextInv, PTL DEF Spec

-----------------------------------------------------------------------------

\* A key pair made in the browser that owns an account on chain has been
\* downloaded, whatever is closed, switched, retried or raced with the scripts
\* (the selectors and modals of the console).
THEOREM KeysAreSaved == Spec => []KeysSaved
<1>1. Inv => KeysSaved
  BY DEF Inv, ChainTrue
<1> QED BY <1>1, AlwaysInv, PTL

\* A handler that reports success has a transaction that executed, and no vault
\* is without its agent's profile, by any interleaving of console and scripts.
THEOREM ReportsAreTrue == Spec => []ChainAsReported
<1>1. Inv => ChainAsReported
  BY DEF Inv, ChainTrue, FlowTrue, Sound, ChainAsReported, DoneMeansLanded
<1> QED BY <1>1, AlwaysInv, PTL

\* A bootstrap run again, at any time and after any interruption, makes no second
\* mint and no second initial supply, and brings at most one target more than the
\* vault had lost by then, abandoned transactions apart.
THEOREM RerunsAreSafe == Spec => []RerunsRepeatNothing
<1>1. ASSUME Inv PROVE RerunsRepeatNothing
  <2>1. OneMint
    <3>1. \A x, y \in chain.mints : x = y
      BY <1>1 DEF Inv, ChainTrue
    <3> QED BY <3>1, AtMostOne DEF OneMint
  <2>2. InitialMintOnce /\ BootstrapRefills
    BY <1>1 DEF Inv, RerunsTrue
  <2> QED BY <2>1, <2>2 DEF RerunsRepeatNothing
<1> QED BY <1>1, AlwaysInv, PTL

-----------------------------------------------------------------------------
(* The vault's page (VaultScreen): variables of its own beside the chain,  *)
(* the scripts and the handlers, which it shares with OwnerConsole.        *)
(* PageInv has the flag wherever a copy of it is held (FrozenKnown), the   *)
(* whitelist wherever it is on its way (Shorts), and ties a handler to     *)
(* the transaction it awaits (FlowSent).                                   *)

Shorts == {w \in SUBSET Services : IsFiniteSet(w) /\ Cardinality(w) <= WhitelistLen}
PageCaps == Caps \cup {DefaultCap, 0}
PageRows == [frozen : BOOLEAN, cap : PageCaps, whitelist : Shorts]
PageForms == [cap : PageCaps, whitelist : Shorts]

PageOrders ==
    [ix : {"freeze"}, frozen : BOOLEAN]
    \cup [ix : {"policy"}, cap : PageCaps, whitelist : Shorts]

PageTxs == [status : Statuses, by : {"web", "script"}, order : PageOrders]

PageFlows ==
    [at : {"reading", "signing", "waiting", "refetch", "fetched", "done", "failed"},
     tx : Nat, t : PageOrders, chosen : {None} \cup PageForms]

PageChains ==
    [serviceSol : BOOLEAN, mints : SUBSET Nat, ownerAta : BOOLEAN, owner_usdc : Nat,
     supply : Nat, services : SUBSET Nat, agents : SUBSET Nat, vaults : SUBSET Nat,
     vault_usdc : Nat, vault_out : Nat, frozen : BOOLEAN, cap : PageCaps,
     whitelist : Shorts, active : BOOLEAN]

PageScripts ==
    [prog : {"none", "policy"}, step : {"none", "policy"},
     at : {"none", "check", "send", "wait"}, tx : Nat, cap : PageCaps,
     whitelist : Shorts, amount : {0}, mint : {0}]

Queries ==
    [data : {None} \cup PageRows, stale : BOOLEAN,
     pc : {"idle", "rest", "vault", "policy", "got"}, got : {None} \cup PageRows]

\* The types; a whitelist anywhere on its way fits the on-chain array.
PageTyped ==
    /\ chain \in PageChains /\ txs \in Seq(PageTxs)
    /\ script \in PageScripts /\ flows \in Seq(PageFlows)
    /\ form \in {None} \cup PageForms
    /\ query \in Queries /\ mirror \in {None} \cup PageRows

\* Some freeze or unfreeze has executed.
FreezeRan ==
    \E i \in 1..Len(txs) : txs[i].order.ix = "freeze" /\ txs[i].status = "ok"

Known(r) == r # None => r.frozen = chain.frozen

\* Until one has, every copy of the flag is the chain's: the cached row, the
\* one being fetched and the mirror's.
FrozenKnown ==
    FreezeRan \/ /\ Known(query.data) /\ Known(query.got) /\ Known(mirror)
                 /\ query.pc = "policy" => query.got.frozen = chain.frozen

\* Between its two reads readVaultFromChain has the first.
ReadKept == query.pc = "policy" => query.got \in PageRows

\* A handler sends what its form said, and waits for what it sent.
FlowSent(i) ==
    /\ flows[i].t.ix = "policy" => flows[i].t.whitelist = flows[i].chosen.whitelist
    /\ flows[i].at = "waiting" =>
         flows[i].tx \in 1..Len(txs) /\ txs[flows[i].tx].order = flows[i].t

PageInv ==
    /\ PageTyped /\ FrozenKnown /\ ReadKept
    /\ \A i \in 1..Len(flows) : FlowSent(i)

-----------------------------------------------------------------------------
\* toggleService keeps a selection short, whichever way it goes.
LEMMA ToggleShort ==
    ASSUME NEW w \in Shorts, NEW s \in Services,
           s \in w \/ Cardinality(w) < WhitelistLen
    PROVE  w \ {s} \in Shorts /\ (s \notin w => w \cup {s} \in Shorts)
<1>1. IsFiniteSet(w) /\ Cardinality(w) \in Nat /\ Cardinality(w) <= WhitelistLen
  BY FS_CardinalityType DEF Shorts
<1>2. WhitelistLen \in Nat
  BY OwnerAssumption
<1>3. /\ IsFiniteSet(w \ {s})
      /\ Cardinality(w \ {s}) = IF s \in w THEN Cardinality(w) - 1 ELSE Cardinality(w)
  BY <1>1, FS_RemoveElement
<1>4. /\ IsFiniteSet(w \cup {s})
      /\ Cardinality(w \cup {s}) = IF s \in w THEN Cardinality(w) ELSE Cardinality(w) + 1
  BY <1>1, FS_AddElement
<1>5. Cardinality(w \ {s}) <= WhitelistLen
  BY <1>1, <1>2, <1>3
<1>6. s \notin w => Cardinality(w \cup {s}) <= WhitelistLen
  BY <1>1, <1>2, <1>4
<1> QED BY <1>3, <1>4, <1>5, <1>6 DEF Shorts

\* A selection that fits is not cut by padWhitelist.
LEMMA PadKeeps == ASSUME NEW w \in Shorts PROVE padWhitelist(w) = w
BY DEF padWhitelist, Shorts

\* Executing an order of the page changes the flag or the policy, not both.
LEMMA PageExecuted ==
    ASSUME NEW c \in PageChains, NEW t \in PageOrders
    PROVE  /\ Executed(c, t) \in PageChains
           /\ t.ix # "freeze" => Executed(c, t).frozen = c.frozen
<1>1. CASE t \in [ix : {"freeze"}, frozen : BOOLEAN]
  <2>1. Executed(c, t) = [c EXCEPT !.frozen = t.frozen]
    BY <1>1 DEF Executed
  <2> QED BY <1>1, <2>1 DEF PageChains
<1>2. CASE t \in [ix : {"policy"}, cap : PageCaps, whitelist : Shorts]
  <2>1. Executed(c, t) = [c EXCEPT !.cap = t.cap, !.whitelist = t.whitelist]
    BY <1>2 DEF Executed
  <2> QED BY <1>2, <2>1 DEF PageChains
<1> QED BY <1>1, <1>2 DEF PageOrders

\* What the page keeps of its handlers when none sends anything.
FlowsKeep(new, old) ==
    /\ new \in Seq(PageFlows) /\ Len(new) = Len(old)
    /\ \A j \in 1..Len(old) :
         /\ new[j].t = old[j].t /\ new[j].chosen = old[j].chosen
         /\ new[j].tx = old[j].tx
         /\ new[j].at = "waiting" => old[j].at = "waiting"

\* A handler that goes on without sending.
LEMMA GoesKeeps ==
    ASSUME NEW fs \in Seq(PageFlows), NEW i \in 1..Len(fs),
           NEW at \in {"reading", "signing", "refetch", "fetched", "done", "failed"}
    PROVE  FlowsKeep([fs EXCEPT ![i].at = at], fs)
<1>0. DOMAIN fs = 1..Len(fs) /\ Len(fs) \in Nat /\ fs[i] \in PageFlows
  BY LenProperties, ElementOfSeq
<1>1. PICK e : e = [fs[i] EXCEPT !.at = at]
  OBVIOUS
<1>2. /\ e \in PageFlows /\ e.at = at
      /\ e.t = fs[i].t /\ e.chosen = fs[i].chosen /\ e.tx = fs[i].tx
  BY <1>0, <1>1 DEF PageFlows
<1>3. PICK g : g = [fs EXCEPT ![i] = e]
  OBVIOUS
<1>4. g \in Seq(PageFlows) /\ Differs(g, fs, i, e)
  BY <1>0, <1>2, <1>3, ExceptIs
<1>5. [fs EXCEPT ![i].at = at] = g
  BY <1>1, <1>3
<1> QED BY <1>0, <1>2, <1>4, <1>5 DEF FlowsKeep, Differs

\* The handlers whose refetch ended go on.
LEMMA ResolvedKeeps ==
    ASSUME NEW fs \in Seq(PageFlows)
    PROVE  FlowsKeep(Resolved(fs), fs)
<1>0. DOMAIN fs = 1..Len(fs) /\ Len(fs) \in Nat
      /\ \A j \in 1..Len(fs) : fs[j] \in PageFlows
  BY LenProperties, ElementOfSeq
<1>1. PICK n \in Nat : n = Len(fs)
  BY <1>0
<1>2. PICK g : g = Resolved(fs)
  OBVIOUS
<1>3. /\ g = [j \in 1..n |-> g[j]]
      /\ \A j \in 1..n : g[j] = IF fs[j].at = "refetch"
                                THEN [fs[j] EXCEPT !.at = "fetched"] ELSE fs[j]
  BY <1>0, <1>1, <1>2 DEF Resolved
<1>4. ASSUME NEW j \in 1..n
      PROVE  /\ g[j] \in PageFlows
             /\ g[j].t = fs[j].t /\ g[j].chosen = fs[j].chosen
             /\ g[j].tx = fs[j].tx
             /\ g[j].at = "waiting" => fs[j].at = "waiting"
  <2>1. fs[j] \in PageFlows
    BY <1>0, <1>1
  <2>2. CASE fs[j].at = "refetch"
    <3>1. g[j] = [fs[j] EXCEPT !.at = "fetched"]
      BY <1>3, <2>2
    <3> QED BY <2>1, <3>1 DEF PageFlows
  <2>3. CASE fs[j].at # "refetch"
    BY <1>3, <2>1, <2>3
  <2> QED BY <2>2, <2>3
<1>5. g \in Seq(PageFlows) /\ Len(g) = n
  BY <1>3, <1>4
<1> QED BY <1>1, <1>2, <1>4, <1>5 DEF FlowsKeep

\* Keeping twice is keeping.
LEMMA KeepTwice ==
    ASSUME NEW f, NEW g, NEW h, FlowsKeep(g, f), FlowsKeep(h, g)
    PROVE  FlowsKeep(h, f)
BY DEF FlowsKeep

-----------------------------------------------------------------------------
(* Frames: a step of the page disturbs only what it may. *)

\* Nothing is sent and nothing executes: what remains to be shown is about the
\* page itself.
LEMMA PageFrame ==
    ASSUME PageInv, UNCHANGED <<chain, txs>>, script' \in PageScripts,
           FlowsKeep(flows', flows), form' \in {None} \cup PageForms,
           query' \in Queries, mirror' \in {None} \cup PageRows,
           FrozenKnown', ReadKept'
    PROVE  PageInv'
<1>1. PageTyped'
  BY DEF PageInv, PageTyped, FlowsKeep
<1>2. ASSUME NEW i \in 1..Len(flows') PROVE FlowSent(i)'
  <2>1. i \in 1..Len(flows) /\ FlowSent(i)
    BY <1>2 DEF FlowsKeep, PageInv
  <2>2. /\ flows'[i].t = flows[i].t /\ flows'[i].chosen = flows[i].chosen
        /\ flows'[i].tx = flows[i].tx
        /\ flows'[i].at = "waiting" => flows[i].at = "waiting"
    BY <2>1 DEF FlowsKeep
  <2> QED BY <2>1, <2>2 DEF FlowSent
<1> QED BY <1>1, <1>2 DEF PageInv

\* With the query and the mirror as they are, what is known stays known.
LEMMA QuietFrame ==
    ASSUME PageInv, UNCHANGED <<chain, txs, query, mirror>>,
           script' \in PageScripts, FlowsKeep(flows', flows),
           form' \in {None} \cup PageForms
    PROVE  PageInv'
<1>1. FrozenKnown' /\ ReadKept'
  BY DEF PageInv, FrozenKnown, ReadKept, FreezeRan, Known
<1>2. query' \in Queries /\ mirror' \in {None} \cup PageRows
  BY DEF PageInv, PageTyped
<1> QED BY <1>1, <1>2, PageFrame

\* Handlers as they are keep themselves.
LEMMA SameFlows == ASSUME PageInv, UNCHANGED flows PROVE FlowsKeep(flows', flows)
BY DEF PageInv, PageTyped, FlowsKeep

\* The transactions sent stay as they are, and what executed stays executed.
TxsKept ==
    /\ txs' \in Seq(PageTxs) /\ Len(txs) <= Len(txs')
    /\ \A i \in 1..Len(txs) :
         /\ txs'[i].order = txs[i].order
         /\ txs[i].status = "ok" => txs'[i].status = "ok"

\* A transaction is sent or settles, and the flag changes only if it is a
\* freeze that executed.
LEMMA ChainFrame ==
    ASSUME PageInv, TxsKept, chain' \in PageChains,
           chain'.frozen = chain.frozen \/ FreezeRan',
           UNCHANGED <<flows, form, query, mirror>>, script' \in PageScripts
    PROVE  PageInv'
<1>0. Len(txs) \in Nat /\ Len(txs') \in Nat
  BY LenProperties DEF PageInv, PageTyped, TxsKept
<1>1. PageTyped'
  BY DEF PageInv, PageTyped, TxsKept
<1>2. FreezeRan => FreezeRan'
  <2> SUFFICES ASSUME FreezeRan PROVE FreezeRan'
    OBVIOUS
  <2>1. PICK i \in 1..Len(txs) : txs[i].order.ix = "freeze" /\ txs[i].status = "ok"
    BY DEF FreezeRan
  <2>2. /\ i \in 1..Len(txs')
        /\ txs'[i].order.ix = "freeze" /\ txs'[i].status = "ok"
    BY <1>0, <2>1 DEF TxsKept
  <2> QED BY <2>2 DEF FreezeRan
<1>3. FrozenKnown' /\ ReadKept'
  BY <1>2 DEF PageInv, FrozenKnown, ReadKept, Known
<1>4. ASSUME NEW i \in 1..Len(flows') PROVE FlowSent(i)'
  <2>1. i \in 1..Len(flows) /\ FlowSent(i) /\ flows' = flows
    BY <1>4 DEF PageInv
  <2>2. flows[i].at = "waiting" =>
          flows[i].tx \in 1..Len(txs') /\ txs'[flows[i].tx].order = flows[i].t
    BY <1>0, <2>1 DEF FlowSent, TxsKept
  <2> QED BY <2>1, <2>2 DEF FlowSent
<1> QED BY <1>1, <1>3, <1>4 DEF PageInv

-----------------------------------------------------------------------------
(* The cluster and the script. *)

\* A transaction whose status changes.
LEMMA StatusKept ==
    ASSUME PageInv, NEW i \in 1..Len(txs), NEW st \in {"ok", "err", "expired"},
           txs[i].status = "flying", txs' = [txs EXCEPT ![i].status = st]
    PROVE  /\ TxsKept /\ Len(txs') = Len(txs)
           /\ txs'[i].order = txs[i].order /\ txs'[i].status = st
<1>0. /\ txs \in Seq(PageTxs) /\ DOMAIN txs = 1..Len(txs) /\ Len(txs) \in Nat
      /\ txs[i] \in PageTxs
  BY LenProperties, ElementOfSeq DEF PageInv, PageTyped
<1>1. PICK e : e = [txs[i] EXCEPT !.status = st]
  OBVIOUS
<1>2. e \in PageTxs /\ e.status = st /\ e.order = txs[i].order
  BY <1>0, <1>1 DEF PageTxs, Statuses
<1>3. [txs EXCEPT ![i] = e] \in Seq(PageTxs) /\ Differs([txs EXCEPT ![i] = e], txs, i, e)
  BY <1>0, <1>2, ExceptIs
<1>4. txs' = [txs EXCEPT ![i] = e]
  BY <1>1
<1> QED BY <1>0, <1>2, <1>3, <1>4 DEF TxsKept, Differs

\* Land and Expire.
LEMMA PageNetwork == ASSUME PageInv, ScreenNetworkStep PROVE PageInv'
<1>1. PICK i \in 1..Len(txs) : Land(i) \/ Expire(i)
  BY DEF ScreenNetworkStep, Network
<1>2. /\ UNCHANGED <<flows, form, query, mirror>> /\ script' = script
      /\ script \in PageScripts /\ chain \in PageChains
  BY DEF ScreenNetworkStep, scriptVars, pageVars, PageInv, PageTyped
<1>3. txs[i] \in PageTxs /\ txs[i].order \in PageOrders
  <2>1. txs \in Seq(PageTxs)
    BY DEF PageInv, PageTyped
  <2>2. txs[i] \in PageTxs
    BY <2>1, ElementOfSeq
  <2> QED BY <2>2 DEF PageTxs
<1>4. CASE Expire(i) \/ (Land(i) /\ ~Accepts(chain, txs[i].order))
  <2>1. /\ txs[i].status = "flying" /\ chain' = chain
        /\ \E st \in {"err", "expired"} : txs' = [txs EXCEPT ![i].status = st]
    BY <1>4 DEF Expire, Land, Status
  <2>2. TxsKept
    BY <2>1, StatusKept
  <2> QED BY <1>2, <2>1, <2>2, ChainFrame
<1>5. CASE Land(i) /\ Accepts(chain, txs[i].order)
  <2>1. /\ txs[i].status = "flying" /\ txs' = [txs EXCEPT ![i].status = "ok"]
        /\ chain' = Executed(chain, txs[i].order)
    BY <1>5 DEF Land, Status
  <2>2. /\ TxsKept /\ i \in 1..Len(txs')
        /\ txs'[i].order = txs[i].order /\ txs'[i].status = "ok"
    BY <2>1, StatusKept
  <2>3. txs[i].order.ix = "freeze" => FreezeRan'
    BY <2>2 DEF FreezeRan
  <2>4. /\ chain' \in PageChains
        /\ txs[i].order.ix # "freeze" => chain'.frozen = chain.frozen
    BY <1>2, <1>3, <2>1, PageExecuted
  <2> QED BY <1>2, <2>2, <2>3, <2>4, ChainFrame
<1> QED BY <1>1, <1>4, <1>5

\* A transaction is sent by the script or by a handler.
LEMMA SendKeeps ==
    ASSUME PageInv, NEW by \in {"web", "script"}, NEW t \in PageOrders, Send(by, t)
    PROVE  /\ TxsKept /\ Len(txs') = Len(txs) + 1 /\ txs'[Len(txs) + 1].order = t
           /\ Len(txs) \in Nat
<1>0. txs \in Seq(PageTxs) /\ Len(txs) \in Nat
  BY LenProperties DEF PageInv, PageTyped
<1>1. PICK e : e = [status |-> "flying", by |-> by, order |-> t]
  OBVIOUS
<1>2. e \in PageTxs /\ e.order = t
  BY <1>1 DEF PageTxs, Statuses
<1>3. txs' = Append(txs, e)
  BY <1>1 DEF Send
<1>4. txs' \in Seq(PageTxs) /\ Extends(txs', txs, e)
  BY <1>0, <1>2, <1>3, AppendIs
<1> QED BY <1>0, <1>2, <1>4 DEF TxsKept, Extends

\* update-policy, and what throws out of it.
LEMMA PageScript == ASSUME PageInv, ScreenScriptRuns PROVE PageInv'
<1>0. /\ UNCHANGED <<flows, form, query, mirror>>
      /\ script \in PageScripts /\ chain \in PageChains
      /\ form \in {None} \cup PageForms
  BY DEF ScreenScriptRuns, pageVars, PageInv, PageTyped
<1>1. NotRunning \in PageScripts
  <2>1. {} \in Shorts
    BY FS_EmptySet, OwnerAssumption DEF Shorts
  <2> QED BY <2>1 DEF NotRunning, PageScripts, PageCaps
<1>2. ASSUME chain' = chain, txs' = txs, script' \in PageScripts PROVE PageInv'
  BY <1>0, <1>2, SameFlows, QuietFrame
<1>3. ASSUME NEW cap \in Caps, StartUpdatePolicy(cap) PROVE PageInv'
  <2>1. /\ script' = [NotRunning EXCEPT !.prog = "policy", !.step = "policy",
                                          !.at = "check", !.cap = cap]
        /\ chain' = chain /\ txs' = txs
    BY <1>3 DEF StartUpdatePolicy, chainVars
  <2>2. script' \in PageScripts
    BY <1>1, <2>1 DEF PageScripts, PageCaps
  <2> QED BY <1>2, <2>1, <2>2
<1>4. CASE ReadPolicy
  <2>1. /\ chain' = chain /\ txs' = txs
        /\ \/ script' = NotRunning
           \/ script' = [script EXCEPT !.at = "send", !.whitelist = chain.whitelist]
    BY <1>4 DEF ReadPolicy, Ends, chainVars
  <2>2. chain.whitelist \in Shorts
    BY <1>0 DEF PageChains
  <2>3. script' \in PageScripts
    BY <1>0, <1>1, <2>1, <2>2 DEF PageScripts
  <2> QED BY <1>2, <2>1, <2>3
<1>5. CASE Submit("policy", [ix |-> "policy", cap |-> script.cap,
                               whitelist |-> script.whitelist])
  <2>1. PICK t : t = [ix |-> "policy", cap |-> script.cap, whitelist |-> script.whitelist]
    OBVIOUS
  <2>2. t \in PageOrders
    BY <1>0, <2>1 DEF PageScripts, PageOrders
  <2>3. /\ Send("script", t) /\ chain' = chain
        /\ script' = [script EXCEPT !.at = "wait", !.tx = Len(txs) + 1]
    BY <1>5, <2>1 DEF Submit
  <2>4. TxsKept /\ Len(txs) + 1 \in Nat
    BY <2>2, <2>3, SendKeeps
  <2>5. PICK n \in Nat : script' = [script EXCEPT !.at = "wait", !.tx = n]
    BY <2>3, <2>4
  <2>6. script' \in PageScripts
    BY <1>0, <2>5 DEF PageScripts
  <2> QED BY <1>0, <2>3, <2>4, <2>6, ChainFrame
<1>6. CASE Ends /\ UNCHANGED chainVars
  BY <1>1, <1>2, <1>6 DEF Ends, chainVars
<1> QED BY <1>3, <1>4, <1>5, <1>6
        DEF ScreenScriptRuns, UpdatePolicy, Failed, chainVars

-----------------------------------------------------------------------------
(* The query. *)

\* A row of the chain is a row, and known.
LEMMA SnapshotKnown ==
    ASSUME NEW c \in PageChains
    PROVE  Snapshot(c) \in PageRows /\ Snapshot(c).frozen = c.frozen
BY DEF Snapshot, PageRows, PageChains

\* invalidateQueries keeps the data, and drops what was being fetched or goes
\* on with it.
LEMMA InvalidatedIs ==
    ASSUME NEW q \in Queries
    PROVE  /\ Invalidated(q) \in Queries /\ Invalidated(q).data = q.data
           /\ \/ Invalidated(q).pc = "rest" /\ Invalidated(q).got = None
              \/ Invalidated(q).pc = q.pc /\ Invalidated(q).got = q.got
<1>1. CASE Mounted
  <2>1. Invalidated(q) = [q EXCEPT !.stale = TRUE, !.pc = "rest", !.got = None]
    BY <1>1 DEF Invalidated, Queries
  <2> QED BY <2>1 DEF Queries
<1>2. CASE ~Mounted
  <2>1. Invalidated(q) = [q EXCEPT !.stale = TRUE, !.pc = q.pc, !.got = q.got]
    BY <1>2 DEF Invalidated, Queries
  <2> QED BY <2>1 DEF Queries
<1> QED BY <1>1, <1>2

\* A mount starts a fetch where there was none.
LEMMA OnMountIs ==
    ASSUME NEW q \in Queries
    PROVE  /\ OnMount(q) \in Queries
           /\ OnMount(q).data = q.data /\ OnMount(q).got = q.got
           /\ OnMount(q).pc \in {q.pc, "rest"}
BY DEF OnMount, Queries

\* A change of the query that shows no more than was known.
LEMMA QueryFrame ==
    ASSUME PageInv, UNCHANGED <<chain, txs, script>>, FlowsKeep(flows', flows),
           form' \in {None} \cup PageForms, query' \in Queries,
           mirror' \in {mirror, Snapshot(chain)},
           \/ query'.data \in {query.data, query.got}
           \/ FreezeRan,
           \/ query'.pc # "policy" /\ query'.got \in {None, mirror}
           \/ query'.pc # "policy" /\ query'.got = query.got
           \/ query'.pc = query.pc /\ query'.got = query.got
           \/ query'.got \in PageRows /\ query'.got.frozen = chain.frozen
           \/ /\ query.pc = "policy" /\ query'.got \in PageRows
              /\ query'.got.frozen = query.got.frozen
    PROVE  PageInv'
<1>0. /\ chain \in PageChains /\ script' \in PageScripts
      /\ mirror \in {None} \cup PageRows
  BY DEF PageInv, PageTyped
<1>1. Snapshot(chain) \in PageRows /\ Snapshot(chain).frozen = chain.frozen
  BY <1>0, SnapshotKnown
<1>2. mirror' \in {None} \cup PageRows
  BY <1>0, <1>1
<1>3. ReadKept'
  BY DEF PageInv, ReadKept
<1>4. CASE FreezeRan
  <2>1. FrozenKnown'
    BY <1>4 DEF FrozenKnown, FreezeRan
  <2> QED BY <1>0, <1>2, <1>3, <2>1, PageFrame
<1>5. CASE ~FreezeRan
  <2>1. /\ Known(query.data) /\ Known(query.got) /\ Known(mirror)
        /\ query.pc = "policy" => query.got.frozen = chain.frozen
    BY <1>5 DEF PageInv, FrozenKnown
  <2>2. query'.data # None => query'.data.frozen = chain.frozen
    BY <1>5, <2>1 DEF Known
  <2>3. /\ query'.got # None => query'.got.frozen = chain.frozen
        /\ query'.pc = "policy" => query'.got.frozen = chain.frozen
    BY <2>1 DEF Known
  <2>4. mirror' # None => mirror'.frozen = chain.frozen
    BY <1>1, <2>1 DEF Known
  <2>5. FrozenKnown'
    BY <2>2, <2>3, <2>4 DEF FrozenKnown, Known
  <2> QED BY <1>0, <1>2, <1>3, <2>5, PageFrame
<1> QED BY <1>4, <1>5

\* The fetch, its failure, and data growing old.
LEMMA PageQuery == ASSUME PageInv, useVaultQuery PROVE PageInv'
<1>0. /\ UNCHANGED <<chain, txs, script, form, mirror>> /\ query \in Queries
      /\ form' \in {None} \cup PageForms /\ mirror \in {None} \cup PageRows
      /\ flows \in Seq(PageFlows) /\ chain \in PageChains
      /\ mirror' \in {mirror, Snapshot(chain)}
  BY DEF useVaultQuery, FetchSteps, chainVars, scriptVars, PageInv, PageTyped
<1>1. ASSUME flows' = flows \/ flows' = Resolved(flows)
      PROVE  FlowsKeep(flows', flows)
  BY <1>0, <1>1, SameFlows, ResolvedKeeps
<1>2. Snapshot(chain) \in PageRows /\ Snapshot(chain).frozen = chain.frozen
  BY <1>0, SnapshotKnown
<1>3. CASE RestAnswer
  <2>1. FlowsKeep(flows', flows)
    BY <1>1, <1>3 DEF RestAnswer
  <2>2. CASE mirror = None
    <3>1. query' = [query EXCEPT !.pc = "vault"]
      BY <1>3, <2>2 DEF RestAnswer
    <3>2. /\ query' \in Queries /\ query'.data = query.data
          /\ query'.pc # "policy" /\ query'.got = query.got
      BY <1>0, <3>1 DEF Queries
    <3> QED BY <1>0, <2>1, <3>2, QueryFrame
  <2>3. CASE mirror # None
    <3>1. query' = [query EXCEPT !.pc = "got", !.got = mirror]
      BY <1>3, <2>3 DEF RestAnswer
    <3>2. /\ query' \in Queries /\ query'.data = query.data
          /\ query'.pc # "policy" /\ query'.got = mirror
      BY <1>0, <3>1 DEF Queries
    <3> QED BY <1>0, <2>1, <3>2, QueryFrame
  <2> QED BY <2>2, <2>3
<1>4. CASE readVaultFromChain
  <2>1. FlowsKeep(flows', flows)
    BY <1>1, <1>4 DEF readVaultFromChain
  <2>2. CASE query.pc = "vault"
    <3>1. query' = [query EXCEPT !.pc = "policy", !.got = Snapshot(chain)]
      BY <1>4, <2>2 DEF readVaultFromChain
    <3>2. /\ query' \in Queries /\ query'.data = query.data
          /\ query'.got \in PageRows /\ query'.got.frozen = chain.frozen
      BY <1>0, <1>2, <3>1 DEF Queries
    <3> QED BY <1>0, <2>1, <3>2, QueryFrame
  <2>3. CASE query.pc # "vault"
    <3>1. PICK r : r = [Snapshot(chain) EXCEPT !.frozen = query.got.frozen]
      OBVIOUS
    <3>2. query.pc = "policy" /\ query' = [query EXCEPT !.pc = "got", !.got = r]
      BY <1>4, <2>3, <3>1 DEF readVaultFromChain
    <3>3. query.got \in PageRows
      BY <3>2 DEF PageInv, ReadKept
    <3>4. r \in PageRows /\ r.frozen = query.got.frozen
      BY <1>2, <3>1, <3>3 DEF PageRows
    <3>5. /\ query' \in Queries /\ query'.data = query.data
          /\ query'.got \in PageRows /\ query'.got.frozen = query.got.frozen
      BY <1>0, <3>2, <3>4 DEF Queries
    <3> QED BY <1>0, <2>1, <3>2, <3>5, QueryFrame
  <2> QED BY <2>2, <2>3
<1>5. CASE FetchDone
  <2>1. FlowsKeep(flows', flows)
    BY <1>1, <1>5 DEF FetchDone
  <2>2. query' = [data |-> query.got, stale |-> FALSE, pc |-> "idle", got |-> None]
    BY <1>5 DEF FetchDone
  <2>3. /\ query' \in Queries /\ query'.data = query.got
        /\ query'.pc # "policy" /\ query'.got = None
    BY <1>0, <2>2 DEF Queries
  <2> QED BY <1>0, <2>1, <2>3, QueryFrame
<1>6. CASE /\ query' = [query EXCEPT !.pc = "idle", !.got = None]
           /\ flows' = Resolved(flows)
  <2>1. FlowsKeep(flows', flows)
    BY <1>1, <1>6
  <2>2. /\ query' \in Queries /\ query'.data = query.data
        /\ query'.pc # "policy" /\ query'.got = None
    BY <1>0, <1>6 DEF Queries
  <2> QED BY <1>0, <2>1, <2>2, QueryFrame
<1>7. CASE query' = [query EXCEPT !.stale = TRUE] /\ UNCHANGED flows
  <2>1. FlowsKeep(flows', flows)
    BY <1>1, <1>7
  <2>2. /\ query' \in Queries /\ query'.data = query.data
        /\ query'.pc = query.pc /\ query'.got = query.got
    BY <1>0, <1>7 DEF Queries
  <2> QED BY <1>0, <2>1, <2>2, QueryFrame
<1> QED BY <1>3, <1>4, <1>5, <1>6, <1>7 DEF useVaultQuery, FetchSteps

\* The mirror catches up, by itself or because the owner asks; a page is opened.
LEMMA PageRefresh ==
    ASSUME PageInv,
           \/ useLiveVault \/ useBackfillVault
           \/ \E to \in {"detail", "policy", "elsewhere"} : Navigate(to)
    PROVE  PageInv'
<1>0. /\ query \in Queries /\ flows \in Seq(PageFlows)
      /\ form \in {None} \cup PageForms /\ script \in PageScripts
  BY DEF PageInv, PageTyped
<1>1. /\ UNCHANGED <<chain, txs, script>> /\ form' \in {None} \cup PageForms
      /\ mirror' \in {mirror, Snapshot(chain)}
      /\ flows' = flows \/ flows' = Resolved(flows)
  BY <1>0 DEF useLiveVault, useBackfillVault, Navigate, chainVars, scriptVars
<1>2. FlowsKeep(flows', flows)
  BY <1>0, <1>1, SameFlows, ResolvedKeeps
<1>3. CASE useLiveVault
  <2>1. PICK b \in BOOLEAN : query' = [query EXCEPT !.stale = b]
    <3>1. (query.stale \/ screen = "detail") \in BOOLEAN
      BY <1>0 DEF Queries
    <3> QED BY <1>0, <1>3, <3>1 DEF useLiveVault, Queries
  <2>2. /\ query' \in Queries /\ query'.data = query.data
        /\ query'.pc = query.pc /\ query'.got = query.got
    BY <1>0, <2>1 DEF Queries
  <2> QED BY <1>1, <1>2, <2>2, QueryFrame
<1>4. CASE useBackfillVault
  <2>1. query' = Invalidated(query)
    BY <1>4 DEF useBackfillVault
  <2>2. /\ query' \in Queries /\ query'.data = query.data
        /\ \/ query'.pc = "rest" /\ query'.got = None
           \/ query'.pc = query.pc /\ query'.got = query.got
    BY <1>0, <2>1, InvalidatedIs
  <2> QED BY <1>1, <1>2, <2>2, QueryFrame
<1>5. CASE \E to \in {"detail", "policy", "elsewhere"} : Navigate(to)
  <2>1. query' \in {query, OnMount(query)}
    BY <1>5 DEF Navigate
  <2>2. /\ query' \in Queries /\ query'.data = query.data
        /\ query'.got = query.got /\ query'.pc \in {query.pc, "rest"}
    BY <1>0, <2>1, OnMountIs
  <2> QED BY <1>1, <1>2, <2>2, QueryFrame
<1> QED BY <1>3, <1>4, <1>5

-----------------------------------------------------------------------------
(* The form and the buttons. *)

\* The selection starts from a row and is changed within the array's length.
LEMMA PageForm ==
    ASSUME PageInv,
           \/ PolicyEditor \/ onReset
           \/ \E c \in Caps : CapSlider(c)
           \/ \E s \in Services : toggleService(s)
    PROVE  PageInv'
<1>0. /\ query \in Queries /\ form \in {None} \cup PageForms /\ script \in PageScripts
  BY DEF PageInv, PageTyped
<1>1. /\ UNCHANGED <<chain, txs, query, mirror>> /\ script' \in PageScripts
      /\ UNCHANGED flows
  BY <1>0 DEF PolicyEditor, onReset, CapSlider, toggleService, chainVars,
              scriptVars
<1>2. CASE PolicyEditor \/ onReset
  <2>1. query.data # None
    BY <1>2 DEF PolicyEditor, onReset, dirty
  <2>2. query.data \in PageRows
    BY <1>0, <2>1 DEF Queries
  <2>3. form' = [cap |-> query.data.cap, whitelist |-> query.data.whitelist]
    BY <1>2 DEF PolicyEditor, onReset
  <2>4. form' \in PageForms
    BY <2>2, <2>3 DEF PageRows, PageForms
  <2> QED BY <1>1, <2>4, SameFlows, QuietFrame
<1>3. ASSUME NEW c \in Caps, CapSlider(c) PROVE PageInv'
  <2>1. form \in PageForms /\ form' = [form EXCEPT !.cap = c]
    BY <1>0, <1>3 DEF CapSlider
  <2>2. form' \in PageForms
    BY <2>1 DEF PageForms, PageCaps
  <2> QED BY <1>1, <2>2, SameFlows, QuietFrame
<1>4. ASSUME NEW s \in Services, toggleService(s) PROVE PageInv'
  <2>1. form \in PageForms
    BY <1>0, <1>4 DEF toggleService
  <2>2. PICK w \in Shorts : w = form.whitelist
    BY <2>1 DEF PageForms
  <2>3. s \in w \/ Cardinality(w) < WhitelistLen
    BY <1>4, <2>2 DEF toggleService
  <2>4. PICK v \in Shorts : v = IF s \in w THEN w \ {s} ELSE w \cup {s}
    BY <2>3, ToggleShort
  <2>5. form' = [form EXCEPT !.whitelist = v]
    BY <1>4, <2>1, <2>2, <2>4 DEF toggleService, PageForms
  <2>6. form' \in PageForms
    BY <2>1, <2>5 DEF PageForms
  <2> QED BY <1>1, <2>6, SameFlows, QuietFrame
<1> QED BY <1>2, <1>3, <1>4

\* A handler starts with an order that says what its form says.
LEMMA StartKeeps ==
    ASSUME PageInv, NEW at \in {"reading", "signing"}, NEW t \in PageOrders,
           NEW chosen \in {None} \cup PageForms,
           t.ix = "policy" => t.whitelist = chosen.whitelist,
           Start(at, t, chosen),
           UNCHANGED <<chain, txs, script, form, query, mirror>>
    PROVE  PageInv'
<1>0. flows \in Seq(PageFlows) /\ Len(flows) \in Nat
  BY LenProperties DEF PageInv, PageTyped
<1>1. PICK e : e = [at |-> at, tx |-> 0, t |-> t, chosen |-> chosen]
  OBVIOUS
<1>2. e \in PageFlows /\ e.at = at /\ e.t = t /\ e.chosen = chosen
  BY <1>1 DEF PageFlows
<1>3. flows' = Append(flows, e)
  BY <1>1 DEF Start
<1>4. Append(flows, e) \in Seq(PageFlows) /\ Extends(Append(flows, e), flows, e)
  BY <1>0, <1>2, AppendIs
<1>5. PageTyped' /\ FrozenKnown' /\ ReadKept'
  BY <1>3, <1>4 DEF PageInv, PageTyped, FrozenKnown, ReadKept, FreezeRan, Known
<1>6. ASSUME NEW i \in 1..Len(flows') PROVE FlowSent(i)'
  <2>1. CASE i \in 1..Len(flows)
    <3>1. flows'[i] = flows[i] /\ FlowSent(i)
      BY <1>3, <1>4, <2>1 DEF Extends, PageInv
    <3> QED BY <3>1 DEF FlowSent
  <2>2. CASE i \notin 1..Len(flows)
    <3>1. i = Len(flows) + 1 /\ flows'[i] = e
      BY <1>0, <1>3, <1>4, <1>6, <2>2 DEF Extends
    <3> QED BY <1>2, <3>1 DEF FlowSent
  <2> QED BY <2>1, <2>2
<1> QED BY <1>5, <1>6 DEF PageInv

\* The freeze button and the submit button.
LEMMA PageButtons ==
    ASSUME PageInv, onToggleFreeze \/ onSubmitPolicy PROVE PageInv'
<1>0. query \in Queries /\ form \in {None} \cup PageForms
  BY DEF PageInv, PageTyped
<1>1. UNCHANGED <<chain, txs, script, form, query, mirror>>
  BY DEF onToggleFreeze, onSubmitPolicy, chainVars, scriptVars
<1>2. CASE onToggleFreeze
  <2>1. query.data \in PageRows
    BY <1>0, <1>2 DEF onToggleFreeze, Queries
  <2>2. PICK t : t = [ix |-> "freeze", frozen |-> ~query.data.frozen]
    OBVIOUS
  <2>3. t \in PageOrders /\ t.ix # "policy"
    BY <2>1, <2>2 DEF PageOrders, PageRows
  <2>4. Start("signing", t, None)
    BY <1>2, <2>2 DEF onToggleFreeze
  <2> QED BY <1>1, <2>3, <2>4, StartKeeps
<1>3. CASE onSubmitPolicy
  <2>1. form \in PageForms
    BY <1>0, <1>3 DEF onSubmitPolicy, dirty
  <2>2. PICK w \in Shorts, c \in PageCaps : w = form.whitelist /\ c = form.cap
    BY <2>1 DEF PageForms
  <2>3. padWhitelist(form.whitelist) = w
    BY <2>2, PadKeeps
  <2>4. PICK t : t = [ix |-> "policy", cap |-> c, whitelist |-> w]
    OBVIOUS
  <2>5. t \in PageOrders /\ t.whitelist = form.whitelist
    BY <2>2, <2>4 DEF PageOrders
  <2>6. Start("reading", t, form)
    BY <1>3, <2>2, <2>3, <2>4 DEF onSubmitPolicy
  <2> QED BY <1>0, <1>1, <2>5, <2>6, StartKeeps
<1> QED BY <1>2, <1>3

-----------------------------------------------------------------------------
(* The handlers. *)

\* The wallet signs, and the handler waits for what was sent.
LEMMA PageSends ==
    ASSUME PageInv, NEW i \in 1..Len(flows), Send("web", flows[i].t),
           flows' = [flows EXCEPT ![i].at = "waiting", ![i].tx = Len(txs) + 1],
           UNCHANGED <<chain, script, form, query, mirror>>
    PROVE  PageInv'
<1>0. /\ flows \in Seq(PageFlows) /\ DOMAIN flows = 1..Len(flows) /\ Len(flows) \in Nat
      /\ chain \in PageChains /\ txs \in Seq(PageTxs) /\ script \in PageScripts
  BY LenProperties DEF PageInv, PageTyped
<1>1. flows[i] \in PageFlows
  BY <1>0, ElementOfSeq
<1>2. flows[i].t \in PageOrders
  BY <1>1 DEF PageFlows
<1>3. /\ TxsKept /\ Len(txs') = Len(txs) + 1 /\ txs'[Len(txs) + 1].order = flows[i].t
      /\ Len(txs) \in Nat
  BY <1>2, SendKeeps
<1>4. PICK n \in Nat : n = Len(txs) + 1
  BY <1>3
<1>5. PICK e : e = [flows[i] EXCEPT !.at = "waiting", !.tx = n]
  OBVIOUS
<1>6. /\ e \in PageFlows /\ e.tx = n
      /\ e.t = flows[i].t /\ e.chosen = flows[i].chosen
  BY <1>1, <1>5 DEF PageFlows
<1>7. /\ [flows EXCEPT ![i] = e] \in Seq(PageFlows)
      /\ Differs([flows EXCEPT ![i] = e], flows, i, e)
  BY <1>0, <1>6, ExceptIs
<1>8. flows' = [flows EXCEPT ![i] = e]
  <2>1. flows' = [flows EXCEPT ![i].at = "waiting", ![i].tx = n]
    BY <1>4
  <2> QED BY <1>0, <1>1, <1>5, <2>1 DEF PageFlows
<1>9. PageTyped' /\ FrozenKnown' /\ ReadKept'
  <2>1. FreezeRan => FreezeRan'
    BY <1>3 DEF FreezeRan, TxsKept
  <2> QED BY <1>3, <1>7, <1>8, <2>1
          DEF PageInv, PageTyped, FrozenKnown, ReadKept, Known, TxsKept
<1>10. ASSUME NEW j \in 1..Len(flows') PROVE FlowSent(j)'
  <2>0. j \in 1..Len(flows) /\ FlowSent(j) /\ FlowSent(i)
    BY <1>7, <1>8, <1>10 DEF Differs, PageInv
  <2>1. CASE j = i
    <3>1. flows'[j] = e
      BY <1>7, <1>8, <2>0, <2>1 DEF Differs
    <3>2. n \in 1..Len(txs') /\ txs'[n].order = e.t
      BY <1>3, <1>4, <1>6
    <3>3. e.t.ix = "policy" => e.t.whitelist = e.chosen.whitelist
      BY <1>6, <2>0 DEF FlowSent
    <3> QED BY <1>6, <3>1, <3>2, <3>3 DEF FlowSent
  <2>2. CASE j # i
    <3>1. flows'[j] = flows[j]
      BY <1>7, <1>8, <2>0, <2>2 DEF Differs
    <3>2. flows[j].at = "waiting" =>
            flows[j].tx \in 1..Len(txs') /\ txs'[flows[j].tx].order = flows[j].t
      BY <1>3, <2>0 DEF FlowSent, TxsKept
    <3> QED BY <2>0, <3>1, <3>2 DEF FlowSent
  <2> QED BY <2>1, <2>2
<1> QED BY <1>9, <1>10 DEF PageInv

\* A confirmed freeze patches the row; a confirmed policy change refetches it.
LEMMA PageConfirmed ==
    ASSUME PageInv, NEW i \in 1..Len(flows), flows[i].at = "waiting", Succeeded(i),
           FreezeDone(i) \/ PolicySent(i),
           UNCHANGED <<chain, txs, script, form, mirror>>
    PROVE  PageInv'
<1>0. /\ query \in Queries /\ flows \in Seq(PageFlows)
      /\ form' \in {None} \cup PageForms /\ mirror' \in {mirror, Snapshot(chain)}
  BY DEF PageInv, PageTyped
<1>1. PICK fs : fs \in {flows, Resolved(flows)}
                /\ \E at \in {"done", "refetch", "fetched"} :
                      flows' = [fs EXCEPT ![i].at = at]
  BY DEF FreezeDone, PolicySent
<1>2. FlowsKeep(fs, flows)
  <2>1. FlowsKeep(flows, flows)
    BY <1>0 DEF FlowsKeep
  <2> QED BY <1>0, <1>1, <2>1, ResolvedKeeps
<1>3. FlowsKeep(flows', fs)
  <2>1. fs \in Seq(PageFlows) /\ i \in 1..Len(fs)
    BY <1>2 DEF FlowsKeep
  <2>2. PICK at \in {"done", "refetch", "fetched"} : flows' = [fs EXCEPT ![i].at = at]
    BY <1>1
  <2>3. FlowsKeep([fs EXCEPT ![i].at = at], fs)
    BY <2>1, GoesKeeps
  <2> QED BY <2>2, <2>3
<1>4. FlowsKeep(flows', flows)
  BY <1>2, <1>3, KeepTwice
<1>5. CASE PolicySent(i)
  <2>1. query' = Invalidated(query)
    BY <1>5 DEF PolicySent
  <2>2. /\ query' \in Queries /\ query'.data = query.data
        /\ \/ query'.pc = "rest" /\ query'.got = None
           \/ query'.pc = query.pc /\ query'.got = query.got
    BY <1>0, <2>1, InvalidatedIs
  <2> QED BY <1>0, <1>4, <2>2, QueryFrame
<1>6. CASE FreezeDone(i)
  <2>1. flows[i].t.ix = "freeze" /\ flows[i].tx \in 1..Len(txs)
        /\ txs[flows[i].tx].order = flows[i].t
    BY <1>6 DEF FreezeDone, PageInv, FlowSent
  <2>2. FreezeRan
    BY <2>1 DEF Succeeded, Status, FreezeRan
  <2>3. PICK b \in BOOLEAN : b = flows[i].t.frozen
    <3>1. flows[i] \in PageFlows
      BY <1>0, ElementOfSeq
    <3>2. flows[i].t \in PageOrders
      BY <3>1 DEF PageFlows
    <3> QED BY <2>1, <3>2 DEF PageOrders
  <2>4. PICK q : q = IF query.data = None THEN query
                     ELSE [query EXCEPT !.data.frozen = b]
    OBVIOUS
  <2>5. q \in Queries /\ q.pc = query.pc /\ q.got = query.got
    <3>1. CASE query.data = None
      BY <1>0, <2>4, <3>1
    <3>2. CASE query.data # None
      <4>1. PICK r : r = [query.data EXCEPT !.frozen = b]
        OBVIOUS
      <4>2. r \in PageRows
        BY <1>0, <3>2, <4>1 DEF Queries, PageRows
      <4>3. q = [query EXCEPT !.data = r]
        BY <1>0, <2>4, <3>2, <4>1 DEF Queries
      <4> QED BY <1>0, <4>2, <4>3 DEF Queries
    <3> QED BY <3>1, <3>2
  <2>6. query' = Invalidated(q)
    BY <1>6, <2>3, <2>4 DEF FreezeDone
  <2>7. /\ query' \in Queries
        /\ \/ query'.pc = "rest" /\ query'.got = None
           \/ query'.pc = query.pc /\ query'.got = query.got
    BY <2>5, <2>6, InvalidatedIs
  <2> QED BY <1>0, <1>4, <2>2, <2>7, QueryFrame
<1> QED BY <1>5, <1>6

\* The steps of one handler.
LEMMA PageFlowStep ==
    ASSUME PageInv, NEW i \in 1..Len(flows), ScreenFlowStep(i)
    PROVE  PageInv'
<1>0. /\ query \in Queries /\ flows \in Seq(PageFlows)
      /\ form \in {None} \cup PageForms /\ script \in PageScripts
      /\ flows[i].t.ix \in {"freeze", "policy"}
  <2>1. flows \in Seq(PageFlows)
    BY DEF PageInv, PageTyped
  <2>2. flows[i] \in PageFlows
    BY <2>1, ElementOfSeq
  <2>3. flows[i].t \in PageOrders
    BY <2>2 DEF PageFlows
  <2>4. flows[i].t.ix \in {"freeze", "policy"}
    BY <2>3 DEF PageOrders
  <2> QED BY <2>4 DEF PageInv, PageTyped
<1>1. ASSUME NEW at \in {"signing", "failed", "done"},
             Goes(i, at)
      PROVE  FlowsKeep(flows', flows)
  BY <1>0, <1>1, GoesKeeps DEF Goes
<1>2. CASE ReadFirst(i) \/ Throw(i)
  <2>1. Goes(i, "signing") \/ Goes(i, "failed")
    BY <1>0, <1>2 DEF ReadFirst, Throw, createVault, initializeAgent,
                      updatePolicy
  <2>2. UNCHANGED <<chain, txs, script, form, query, mirror>>
    BY <1>0, <1>2 DEF ScreenFlowStep, ReadFirst, Throw, sendWithSigners,
                      PolicyDone, chainVars, scriptVars, pageVars
  <2> QED BY <1>0, <1>1, <2>1, <2>2, QuietFrame
<1>3. CASE sendWithSigners(i) /\ UNCHANGED <<scriptVars, pageVars>>
  <2>1. UNCHANGED <<chain, script, form, query, mirror>>
    BY <1>3 DEF sendWithSigners, scriptVars, pageVars
  <2>2. CASE Goes(i, "failed") /\ UNCHANGED txs
    BY <1>0, <1>1, <2>1, <2>2, QuietFrame
  <2>3. CASE /\ Send("web", flows[i].t)
             /\ flows' = [flows EXCEPT ![i].at = "waiting", ![i].tx = Len(txs) + 1]
    BY <2>1, <2>3, PageSends
  <2> QED BY <1>3, <2>2, <2>3 DEF sendWithSigners
<1>4. CASE /\ flows[i].at = "waiting" /\ Succeeded(i)
           /\ FreezeDone(i) \/ PolicySent(i)
           /\ UNCHANGED <<chainVars, scriptVars, screen, button, form, mirror>>
  BY <1>4, PageConfirmed DEF chainVars, scriptVars
<1>5. CASE PolicyDone(i)
  <2>1. /\ UNCHANGED <<chain, txs, script>> /\ form' \in {None} \cup PageForms
        /\ mirror' \in {mirror, Snapshot(chain)} /\ Goes(i, "done")
        /\ query' \in {query, OnMount(query)}
    BY <1>5 DEF PolicyDone, chainVars, scriptVars
  <2>2. /\ query' \in Queries /\ query'.data = query.data
        /\ query'.got = query.got /\ query'.pc \in {query.pc, "rest"}
    BY <1>0, <2>1, OnMountIs
  <2> QED BY <1>1, <2>1, <2>2, QueryFrame
<1> QED BY <1>2, <1>3, <1>4, <1>5 DEF ScreenFlowStep

-----------------------------------------------------------------------------
\* PageInv holds at the start.
LEMMA PageInitial == ScreenInit => PageInv
<1> SUFFICES ASSUME ScreenInit PROVE PageInv
  OBVIOUS
<1>1. {} \in Shorts
  BY FS_EmptySet, OwnerAssumption DEF Shorts
<1>3. chain \in PageChains /\ txs = <<>>
  BY <1>1 DEF ScreenInit, ChainInit, InitialMint, PageChains, PageCaps
<1>4. Snapshot(chain) \in PageRows /\ Snapshot(chain).frozen = chain.frozen
  BY <1>3, SnapshotKnown
<1>5. script \in PageScripts
  BY <1>1 DEF ScreenInit, ScriptInit, NotRunning, PageScripts, PageCaps
<1>6. /\ flows = <<>> /\ form = None /\ mirror \in {None, Snapshot(chain)}
      /\ query = [data |-> None, stale |-> TRUE, pc |-> "idle", got |-> None]
  BY DEF ScreenInit
<1>7. PageTyped
  BY <1>3, <1>4, <1>5, <1>6 DEF PageTyped, Queries
<1>8. FrozenKnown /\ ReadKept
  BY <1>4, <1>6 DEF FrozenKnown, ReadKept, Known
<1> QED BY <1>6, <1>7, <1>8 DEF PageInv

\* Every step keeps it.
LEMMA PageStep == PageInv /\ [ScreenNext]_screenVars => PageInv'
<1> SUFFICES ASSUME PageInv, [ScreenNext]_screenVars PROVE PageInv'
  OBVIOUS
<1>1. CASE UNCHANGED screenVars
  <2>1. UNCHANGED <<chain, txs, script, flows, form, query, mirror>>
    BY <1>1 DEF screenVars, chainVars, scriptVars, pageVars
  <2>2. script' \in PageScripts /\ form' \in {None} \cup PageForms
    BY <2>1 DEF PageInv, PageTyped
  <2> QED BY <2>1, <2>2, SameFlows, QuietFrame
<1> QED BY <1>1, PageNetwork, PageScript, PageQuery, PageRefresh, PageForm, PageButtons,
           PageFlowStep DEF ScreenNext

\* What the page shows and sends, whatever the cluster, the mirror, the script
\* and the owner's other clicks do in between: a frozen flag other than the
\* chain's has an executed freeze for a cause, and the whitelist sent is the one
\* the form showed, although padWhitelist cuts longer ones.
THEOREM PageShowsAndSends == ScreenSpec => []ShownAndSent
<1>1. ASSUME PageInv PROVE ShownAndSent
  <2>1. WhitelistAsSelected
    BY <1>1 DEF PageInv, FlowSent, WhitelistAsSelected
  <2>2. FrozenHasCause
    BY <1>1 DEF PageInv, FrozenKnown, Known, FreezeRan, FrozenHasCause, Status
  <2> QED BY <2>1, <2>2 DEF ShownAndSent
<1> QED BY <1>1, PageInitial, PageStep, PTL DEF ScreenSpec

=============================================================================
