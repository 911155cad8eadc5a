# Verification of agent_fuel

TLA+ models, TLC runs and TLAPS proofs for agent_fuel: prepaid USDC vaults that
AI agents spend from under an owner's policy, an on-chain reputation built from
recorded payments, and the services around them. Paths below are relative to
`src/`.

## The system

| Part | State it keeps | Operations | Interacts with |
|---|---|---|---|
| `programs/credit_vault` | `CreditVault`, `SpendPolicy`, `PendingSpend` accounts, the vault's token account | `create_vault`, `deposit`, `spend`, `claim`, `request_spend`, `approve_spend`, `cancel_spend`, `freeze_vault`, `unfreeze_vault`, `update_policy`, `withdraw` | SPL token program; called by owner, agent and services; emits events |
| `programs/reputation` | `AgentProfile`, `ServiceRegistry`, `AgentServiceLink`, `ReceiptUsed`, `FeedbackRecord` accounts | `initialize_agent`, `register_service`, `set_service_active`, `record_payment`, `give_feedback`, `revoke_feedback`, `append_response`, `compute_score` | called by agents, services, anyone; emits events |
| `backend` ingest (`routes/webhooks.rs`, `parser.rs`, `persist.rs`) | `events` table, unique by (signature, log index) | `helius` webhook: store, mirror, score, broadcast, alert | Helius, at least once |
| `backend` mirror (`mirror.rs`) | `agents`, `services`, `vaults` tables | `refresh`: recompute rows from stored events | ingest, backfill |
| `backend` score (`score.rs`) | `score_history`, a cache | `record_events`, `sweep` | ingest, a timer |
| `backend` alerts (`alerts.rs`, `routes/api/spends.rs`) | `alerts`, `pending_spends`, alert watermarks | one handler per event, `request`, `decide` | ingest, mobile app, push |
| `backend` live stream (`ws_hub.rs`, `routes/ws.rs`) | channel map, one task per socket | `subscribe`, `broadcast`, the socket loop | ingest, all clients |
| `backend` sign-in (`auth.rs`) | `auth_nonces`, tokens | `issue_nonce`, `verify_and_mint`, `verify_jwt` | owners' wallets |
| `backend` backfill (`backfill.rs`) | - | replay an address' history into store and mirror | Solana RPC |
| `clients/sdk` | subscription state, what a call has read | `spend`, `pay`, `requestSpend`, guardrails, error mapping, x402, `recordPayment`, `subscribe` | both programs, backend |
| `clients/sdk/scripts` | key files, a manifest | `devnet-bootstrap`, `topup`, `update-policy` | both programs, as the owner |
| `clients/web` | token store, query cache, forms, sockets | sign-in, owner transactions, vault pages, live feed and analytics | backend, wallet, both programs |
| `examples` | in-process guards | agents that pay, a service that attests payments | SDK, live stream |
| `clients/sdk-python`, `clients/runtime`, `clients/mobile` | as the SDK and the console | ports of the payment path; approval and onboarding screens | both programs, backend |

Instructions of the two programs are atomic. What is hard in them is the
order of many legal calls by parties that do not coordinate (a request is
queued under one policy and approved under another; a rating rests on a
receipt recorded earlier), numeric edges (u64 counters, slot 0, window
restarts), and accounts that must agree with each other. In the backend
and clients it is concurrency and delivery: webhooks arrive twice and out of
order, handlers read and then write, sockets break without notice, and
callbacks run after the state they rely on has changed. `PROJECT.json` lists
these hazards at their lines.

What makes each part correct:

* **credit_vault**: the counters explain the token balance; limits, whitelist
  and freeze cannot be evaded by any sequence of calls; a request is paid at
  most once.
* **reputation**: profile, registry and link agree; a receipt counts once; a
  rating is earned, spaced and never by the agent itself or its owner; the
  score reacts to conduct in the right direction.
* **live stream**: frames in order and without silent gaps; dead sockets are
  reaped; a live subscription always comes back; a closed one opens no socket.
* **approvals**: one row per request however often it is delivered; a verdict
  is told once and of the right request; nothing settled is reopened; every
  request comes to the owner.
* **payments through the SDK**: the local guardrail is the program's ladder; a
  refusal is reported as what it was; a payment, a request and an attestation
  retried or raced under one name happen once.
* **owner transactions**: "Done" means executed; no account belongs to a key
  nobody kept; scripts can be run again, after an interruption and after the vault
  was spent from; everything started settles.
* **vault pages**: what is sent is what the form showed; what is shown has been
  true on chain; the figures agree with the limits.
* **session**: one token per nonce, signed by its wallet; a session ends with its
  wallet; one wallet's lists never appear under another's key.
* **live feed**: an event is one row on its own agent's page, the newest are kept,
  and every figure counts the spends of its own window, by the backend's time.
* **ingest, mirror, other alerts** (not modelled): replays and reorderings
  converge to the chain's state; one alert per crossing.

## Modules

| Module | Models |
|---|---|
| `CreditVault` | the credit_vault program, one vault |
| `Escrow` | what a vault promises, abstractly |
| `VaultViews` | the figures and badges the console derives from a vault, as operators |
| `VaultConsole` | the vault beside those figures: what they say of the program |
| `MCCreditVault` | bounds and policies for the vault's runs |
| `AgentProfile` | a profile's counters and the score, as operators |
| `Reputation` | the reputation program |
| `MCReputation` | feedback values and symmetry for its run |
| `ScoreSteps` | one instruction at a time from profiles at bracket edges |
| `WsStream` | hub, socket task and SDK client of one live channel |
| `ApprovalMirror` | `pending_spends` and `alerts` under webhooks and the owner's HTTP calls |
| `SdkPayments`, `MCSdkPayments` | the SDK's calls, the CLI, x402 and the recorder over an instance of `CreditVault` |
| `OwnerChain` | accounts and transactions the owner's tools act on |
| `OwnerScripts` | bootstrap, topup and update-policy over `OwnerChain` |
| `OwnerFlows` | the console's transaction handlers over `OwnerScripts` |
| `OwnerConsole` | the modals, composed with the scripts |
| `VaultScreen` | the vault's page and policy editor, composed with handlers and the update-policy script |
| `WebSession` | SIWS sign-in, session and lists |
| `FleetViews` | the merged feed, cards, charts and score panel, as operators |
| `LiveFeed` | sockets, frames, the mounted screen's ticker and REST pages of the console |
| `FiniteSums` | sums over finite sets, used by `CreditVault`, `Reputation`, `ApprovalMirror` and `FleetViews` |
| `DataTheorems` | lemmas on sums, cardinalities and tables |
| `CreditVaultProofs`, `ReputationProofs`, `ApprovalMirrorProofs`, `SdkPaymentsProofs`, `OwnerConsoleProofs`, `WebSessionProofs` | theorems about the module they are named after; `ReputationProofs` also about `ScoreSteps`, `OwnerConsoleProofs` also about `VaultScreen` |
| `LiveProofs` | theorems about `WsStream` and `LiveFeed`, the two ends of the live stream |

`OwnerChain`, `OwnerScripts` and `OwnerFlows` are layers: each extends the one
before it, and `OwnerConsole` and `VaultScreen` are two compositions of them.
`SdkPayments` instantiates `CreditVault` and calls its actions when a
transaction lands. `LiveFeed` extends `FleetViews`; `MCCreditVault` extends
`VaultConsole`, which extends `CreditVault` and `VaultViews`. `ScoreSteps` and
`VaultScreen` share no name with `Reputation` and `OwnerConsole` beyond the layers
they have in common (`ScoreSpec`, `ScreenSpec` and so on), nor `LiveFeed` with
`WsStream` (`FeedSpec`), so that one module of proofs can extend both.

### CreditVault

One action per instruction: the guard is the conjunction of Anchor's account
constraints and the handler's `require!`s and `checked_` operations (a failure
rolls the transaction back), the effect is the whole handler.
`check_and_record_spend` is shared by `spend` and `claim` as in `policy.rs`;
it records the hourly window, and its callers write the vault account.
`approve_spend` checks freeze and whitelist again and skips the limits.

The state is the vault account, the policy account, the open `PendingSpend`
accounts, the USDC of each key's token account and the slot. The whitelist
array is the set of its eight values: with fewer than eight keys set it holds
the default key, as the array does. Three variables are history: `offBook`
(tokens that reached the vault other than by `deposit`, by a plain SPL
transfer or because a payment's destination was the vault's own token account),
`settled` (nonces closed) and `paidAt` (ladder payments by slot since the last
`update_policy`). Left out: rent, bumps, account sizes, event payloads, the
mint (every transfer is in the vault's mint by constraint).

### AgentProfile, Reputation, ScoreSteps

Accounts that exist are the domain of a function; `init` requires an address
not to be in it, `init_if_needed` does not. A receipt's address comes from
its hash alone, so `record_payment` accepts a hash once for all pairs. Names,
URIs, tags, categories, evidence and the activity slots nothing in the program
reads are left out. Agents, services and owners may be the same key.

`AgentProfile` is the arithmetic on one profile and `compute`, with the
brackets and caps of `compute_score.rs`; `Reputation` uses it, and `ScoreSteps`
applies the same operators once, from any profile at the edges of the brackets,
to compare the score before and after.

### WsStream

A connection has a hub entry (`sub`), a channel (`buf`), a task (`task`,
`held`, `silent`), frames in flight (`wire`) and the client's `socket`.
`broadcast` runs under the hub's lock: each subscriber gets the frame by
`try_send` or is removed. The task is the `select!` loop: `Recv`/`Text` are the
channel branch, in two steps because `session.text` waits when the socket is
full and the loop runs nothing else meanwhile; `Heartbeat`, `Pong` and
`PeerGone` are the other branches; leaving the loop drops the channel. The
client is `live.ts`: `Resolved` continues `connect` after its `await`, the
listeners `OnOpen`, `OnMessage` and the close listener `ClosedSocket` are as in
the code, `TimerFires` is the backoff timer, `close` is `Subscription.close`.
`attempts` is kept as zero or not, which is all `connect` looks at; the
length of the backoff is left out. `received` is the last frame given to
`onFrame`.

### ApprovalMirror

`request_spend`, `approve_spend`, `cancel_spend` and `spend` appear by what they
do to a request and the event they emit (a `Spent` names the service and the
amount, its "shape", and not the request). `log` is the events in chain order
with the number of deliveries of each. `dispatch` is the arrival of an event
at its handler and the handler's first statement; the later statements are
actions of their own (`EmitRequired`, `Backref`, `Flip`, `ClearBadge`,
`EmitVerdict`), so that handlers interleave between any two statements, and
`Fail` ends a handler there. `http_request` and `decide` are the owner's calls,
`mark_read` the two calls that mark alerts read. A row's id is its place, which
is also its order by `created_at`.

The UPDATE of `spend_approved_mirror` takes two steps. Postgres runs it under
READ COMMITTED (the pool sets no other level): its uncorrelated subquery is
evaluated once, on the statement's snapshot, and when the row found has been
changed by a concurrent statement, the new version is tested only against the
outer condition `id = ...`, which still holds. The other updates have their
condition on the row itself and are one step. Left out: texts, amounts other
than as part of the shape, sockets and push messages (see `WsStream`), other
vaults and owners, whose rows no statement here can match.

### Escrow

Funds, what was ever put in, paid and returned, a stop switch and the requests.
`CreditVault` names the mapping (`E == INSTANCE Escrow WITH ...`): funds are the
vault's tokens, what was given is what was deposited or came past `deposit`,
open requests are the nonces of the `PendingSpend` accounts. Policies, limits, the
clock and the other token accounts are hidden by it.

### SdkPayments

A call is a process: it awaits its reads one at a time (`pay` all at once), runs
`guardSpend` on them, sends, and awaits the outcome; others act between any two
awaits. A transaction is executed against `CreditVault`'s own actions, fails with
the first refusal of the program, or expires; the client may give up on one that
still lands. `mapSpendError` and `mapPayError` translate the error codes, whose
numbers come from the two `errors.rs`. Of the reputation program only the
service's active flag and the used receipts matter here. The recorder sends
`recordPayment` for each `Spent` frame, with frames that come again and a guard
lost at restart. Amounts are a small set; addresses, signatures and hashes are
values that are equal when the code's would be.

### OwnerChain, OwnerScripts, OwnerFlows, OwnerConsole, VaultScreen

A transaction is `flying` until the cluster executes it, refuses it or its
blockhash expires; scripts and handlers learn the outcome later. A script is a
position in its list of steps, each of which checks, sends and waits; what
survives a kill is the disk. `Ensure`, `Submit` and `Confirmed` are those three
parts. In the bootstrap, `ensureService` calls `registerService` without an
argument and an account the program requires, so that a missing registry ends the
run; the model has it so. `ensureDeposit` brings a whole target whenever the vault
holds less than one. What lowers that balance comes from elsewhere: `AgentSpends` (a
payment by `spend`, `claim` or `approve_spend`, any amount up to the balance, not while
frozen) and `Withdraw`, which `OwnerConsole` lets happen between any two steps
(`TokensLeave`). `vault_out` is `total_spent` plus `total_withdrawn` of the vault account,
and `abandoned` a history variable: the transactions that were flying when the run
waiting for them ended. `VaultScreen` reads no balance and has no `TokensLeave`. A
handler of the console is a flow that outlives its
component. One cap stands for the three limits of a policy and one unit for an
amount; names, icons, texts and the disclosure of secrets are left out.

In `VaultScreen` the query library appears by what its calls do (marked external
in the map): one fetch per query, restarted by an invalidation while mounted, data
kept when a fetch fails, a refetch on mount when stale. The row comes from the
mirror, or in two reads from the chain when there is none.

### WebSession

One variable for each store: wallet, token, its copy in localStorage, nonces,
minted tokens (a history), query cache, requests in flight. A sign-in is a
pipeline with a step per await. The listeners of the token store run inside
`setToken` in the code; React's render of the new token is taken with it, while
the effect of `AuthProvider` is a step of its own. A nonce is claimed by one
UPDATE, so `verify_and_mint` is one step for the nonce. Signatures are valid or
not; JWT and message texts are left out.

### FleetViews, LiveFeed, VaultViews

`FleetViews` and `VaultViews` are the pure computations of the screens. An event
is its number, which orders it as (slot, log index) does, and its amount and
service are functions of the number, so that two sums over different rows differ.
A sort is written as what it returns: `Descending` is the sequence that has each
element of a set once, by descending key.
A range of the analytics screen is its number of days, and `All` the one that has none:
`rangeWindow` then keeps every spend and the bars cover `DefaultDays`.

`LiveFeed` has the agent screen's sockets one by one and a ticker by what its
sockets deliver: any event, in any order, once or again or never. The ticker's buffer is
state of one hook instance. The fleet, activity and analytics screens each have one
behind their rows, one of these screens is mounted at a time, and `ticker` is that one's:
it is lost when the screen is left (`FeedUnmounts`) and empty while the agent screen is
open. (The marquee of `Topbar.tsx` and the list of `Fleet.tsx:39` have instances too,
which no figure reads.) A page is read from the backend at one step and becomes the
query's data at a later one. `useMemo` dates a frame's row when the rows are computed,
which may be earlier than the figures: `RenderTimes` are the instants that can be. A
figure is taken when it is computed; a chart that nothing changes keeps it. Days are
the clock's, all of one length: a day of 25 hours is not modelled.

## Runs

| Run | Expect | What it shows |
|---|---|---|
| `vault_ledger` | pass | books, request queue, freeze, limits and whitelist under every interleaving of the instructions; the vault implements `Escrow` (`ImplementsEscrow`, which contains the freeze); the console's budget is the one the ladder grants (`ShownBudgetBinds`) |
| `vault_window` | pass | any hour's ladder payments are within twice the hourly limit |
| `reputation` | pass | counters match the records; ratings are earned and spaced; receipts count once |
| `score_steps` | pass | every instruction moves the score the right way (`ScoreFollowsConduct`) |
| `ws_stream` | pass | order, no silent gap, one connection, no socket after close, reaping, reconnection |
| `approvals` | pass | one row per request with an alert of its own (`RowsMatchRequests`), exact rejections, approvals backed by payments, nothing reopened, every request surfaced, under replay, reordering, races and a failure |
| `approvals_decide` | violation | a decision over HTTP can be overwritten by a payment's webhook |
| `sdk_payments` | pass | guardrail and ladder agree in every state; errors name their cause; a request owns its nonce; receipts, x402 payments and attestations are not duplicated by races, lost answers and restarts (`RetriesRepeatNothing`) |
| `owner_console` | pass | keys are kept; done means executed and vaults have agents (`ChainAsReported`); one mint, one initial supply and deposits only for what left the vault, across runs of the bootstrap, payments and withdrawals (`RerunsRepeatNothing`); handlers settle and scripts end (`EverythingSettles`) |
| `vault_screen` | pass | the whitelist sent is the one shown and a wrong frozen flag has an executed cause (`ShownAndSent`); a policy change settles |
| `web_session` | pass | one token per nonce, signed by its wallet; lists by owner; the session follows the wallet |
| `live_feed` | pass | one row per event on its own page (`RowsInPlace`); the feed keeps and the panel shows the newest (`NewestShown`); every card and, for each range, every chart counts the spends stored in its window and beyond them only ones a late frame told of (`SpendsCounted`) |

Some run properties are conjunctions whose parts have names and comments of their own
in the module (`ShownAndSent == FrozenHasCause /\ WhitelistAsSelected`); each part has its
own mutant. `TypeOK` is checked by a run for `CreditVault`; it is proved for `CreditVault`,
`Reputation`, `ApprovalMirror`, `SdkPayments`, `WsStream` and `WebSession`. The proofs
about `OwnerConsole` and `VaultScreen` have stronger types of their own (`Typed`,
`PageTyped`). That of `LiveFeed` is `FeedTypeOK`, proved as well.

The violation is a disagreement between the code and its own documentation;
`PROJECT.json` quotes both under `findings`.

### Disagreements seen without a run

* `policy.rs:40` restarts the hourly window; `state.rs:37` and `README.md:155`
  call it rolling. `HourlyBound` states what holds: twice the limit.
* `decoders.ts:52` and `types/api.ts:49` add claims back to the balance, although
  `total_spent` contains them. `SdkBalanceOffByClaims` states the difference
  (theorem `SdkBalanceExplained`).
* A subscriber dropped by the hub keeps its WebSocket (`ws.rs:82`), against
  `ws_hub.rs:33`.
* Approving the second of two like requests and cancelling the first leaves a row
  pending (`alerts.rs:438` against 429-431); a redelivered `Spent` settles a second
  row of its shape (`webhooks.rs:43`).
* A live frame marks the vault's row stale and fetches nothing
  (`useLiveVault.ts:46`): an open page shows the old row, against the comment above it.
* `update-policy.mjs:5-7` promises to keep the whitelist; it sends back the one it
  read, so a change in between is undone.
* `computeScoreDelta24h` (`Fleet.tsx:233`) expects the score history oldest first;
  the backend answers newest first (`routes/api/agents.rs:146`).
* `placeholderData` (`hooks.ts:60`) can show the previous wallet's list until the
  first answer of the next one, when a late sign-in replaces a session.
* A REST page that was read before a frame and arrives after it replaces the merged
  row (`useLiveAgent.ts:19` says concurrent queries cannot race).
* `devnet-bootstrap.mjs:16` says that "reruns after a partial failure are safe". A run
  that ends while its deposit or its initial mint is on its way (killed, or the
  confirmation timed out) is followed by one that still sees the old balance and sends it
  again; both can land. `RerunsRepeatNothing` leaves out such a transaction and only
  that one. And `ensureDeposit` (line 337) deposits a full target whenever the balance is
  below it: after the payment the script's last lines propose, a rerun tops the vault up
  by the whole target. `BootstrapRefills` states what holds.
* `useFleetActivity.ts:69` says live frames overwrite a history's row on collision; the
  code keeps the history's (line 85), and the figures depend on it: a frame's row has the
  time it was computed (line 153), so a late frame of an old event counts as spent just
  now until a history has the event.
* With the range "all" the subtitle is "All time" (`Analytics.tsx:64`) and services and
  heatmap go back without limit, but the bars cover 30 days (`Analytics.tsx:441`).
* `PreviewPanel` (`VaultPolicy.tsx`) takes a ceiling of 0, which means none, for an
  exhausted one.

### Bounds

* `vault_ledger`: one service besides owner, vault and default key, amounts 0
  to 2, a u64 that ends at 3 (so every `checked_add` can fail), policies with
  each limit, a whitelist and post-pay on and off; two requests, one
  withdrawn unit. The clock stands still, since only the hourly window reads it.
* `vault_window`: an hour of three slots, six slots, so that two windows and
  any offset between them fit; one small and one large amount.
* `reputation`: two agents and two services, one key being both, one owner
  being a service, two receipts; counters that end at 2 or 3; a rate limit of one
  slot over two slots, slot 0 included, so that a second rating is both refused
  and let through. Receipts are symmetric.
* `score_steps`: every bracket edge with its neighbours. A behaviour is one
  step, so the run does not check for deadlock.
* `ws_stream`: a channel and a socket that hold one frame each, three
  broadcasts (two fill a slow subscriber's channel, the third would follow the gap),
  one lost connection, so two connections; an idle timeout of one heartbeat.
* `approvals`: one shape, so that every payment can be taken for every
  request; two handlers at a time; a request, a row made over HTTP and a payment
  within the limits, one replay, one failure, one call of the owner. The
  violation has one request, in-order delivery and no fault. The runs end when the
  bounded chain has no more to say, so they do not check for deadlock.
* `sdk_payments`: two processes, two SDK transactions and one attestation, two acts
  of owner or service, two policies whose limits one or two payments reach, two
  slots in an hour of one, so that a window elapses between read and execution.
  The processes are symmetric.
* `owner_console`: two script runs or handlers in all (any pair of them), two
  transactions, one generated key, the accounts set up as far as five different
  steps of the bootstrap. Two is what it takes for one to act between the other's
  read and its outcome, or to follow one that was interrupted. A deposit is 2 units and
  the initial mint 4 (10 and 100 USDC in the script, where the mint is larger still), so
  that a payment can take a part of a deposit or all of it.
* `vault_screen`: one handler and one script run, two caps, two services and a
  whitelist of one entry, so that it can be full.
* `web_session`: two wallets, one of them indexed, two sign-ins, two requests in
  flight.
* `live_feed`: two agents, one of them on screen, three events, a clock with two
  instants six ticks apart and two ticks a day, buffers of one or two rows, so that every
  limit cuts. The ranges are 2 and 3 days and "all", for which the bars cover 3 (7, 30, 90,
  all and 30 in the code): seen from the second instant, the first is outside the
  shorter range, inside the longer but before its first bar, and inside "all" but not
  in its bars. One subscription can be opened again only
  after its socket is gone, so a left-over socket is seen beside the REST pages and
  not beside a second socket.

  These five end when their bounds are used up, and do not check for deadlock.

### Fairness

In `ApprovalMirror`, Helius delivers every event at least once and a handler
that started goes on. `RequestsSurface` excuses a failure, after which nothing
is retried, and an event that arrived before the vault had its row, which is
dropped: so the code has it.

In `WsStream`, the tokio tasks, the JavaScript event loop
and the timers keep running; a reachable server accepts a handshake; an open
socket carries frames, pongs and the server's close. Each of these is weak
fairness of one action. There is none for broadcasts, for `close()`, for
faults, or for the server noticing that its peer is gone: a half-open socket
may never say so, which is what the heartbeat is for. A send to a peer that
is gone eventually fails (the kernel's retransmission limit). Faults are
bounded in number, so that "comes back" is meaningful.

In `OwnerConsole` and `VaultScreen` the cluster settles every transaction (a
blockhash expires), a running script or handler goes on, and so does a fetch.
Nobody has to start anything. A wallet prompt may in truth stay open for ever;
`EverythingSettles` and `PolicySettles` begin when the transaction is sent and do not
rest on its answer. In `WebSession` React runs the effect of what it rendered.
`SdkPayments` and `LiveFeed` have no liveness property and no fairness.

## Proofs

The theorems hold for every value of the constants that satisfies the assumptions
their modules name: any agents, services and amounts, any number of transactions,
handlers, deliveries, frames and faults. The assumptions are types (`Amounts` are u64
values, bounds are naturals, an hour and a day have slots, capacities are not zero),
that the owner's, the vault's and the default key are distinct and none is a service's,
that `None` is not a value it stands beside, and that the tables a run starts from are
of their kind. Nothing is assumed about the order of steps.

### CreditVaultProofs

| Theorem | Property |
|---|---|
| `TypeCorrect` | `TypeOK` |
| `BooksBalance` | `Conservation` |
| `ClaimsAreSpending` | `ClaimedWithinSpent` |
| `RequestsSettleOnce` | `RequestsAccounted` |
| `HourlyLimitBinds` | `HourlyBound` |
| `LimitsNeedApproval` | `OverLimitNeedsApproval` |
| `FrozenVaultIsInert` | `FrozenInert` |
| `PaymentsObeyWhitelist` | `PaymentsWhitelisted` |
| `SdkBalanceExplained` | `SdkBalanceOffByClaims` |
| `ShownBudgetIsTrue` | `ShownBudgetBinds` |
| `VaultImplementsEscrow` | `ImplementsEscrow` |

`ClaimedWithinSpent`, `FrozenInert` and `SdkBalanceOffByClaims` are proved and not run:
the first is a lemma for the books, the second follows from the escrow, the third from
`Conservation`.

`TypeOK` is inductive by itself: the lemma on the ladder shows that a window total
within the hourly limit is a u64, the checked additions do the rest.
`Conservation`, `ClaimedWithinSpent` and `RequestsAccounted` are inductive together
with `TypeOK` (`Inv`): the books need the balances to be numbers and the lemma
`LeaveVaultEffect` on what a transfer out of the vault moves when its destination is
the vault itself; the request queue needs the nonce about to be used to be neither
open nor settled, which is the equality of used nonces with those below
`pending_count`. The action properties need `TypeOK` only; the lemma `PayingSteps`
reduces them to `spend`, `claim` and `approve_spend`. They are stated of any
behaviour whose steps are the program's (`LimitsStep`, `FrozenStep`,
`WhitelistStep`), wherever it starts, which is how `SdkPaymentsProofs` uses them.

`HourlyBound` is not inductive. `WindowAccounted` says what the window remembers:
nothing is paid after the current slot, what was paid since the window's start is no
more than the window counts, and what was paid in the hour before that start is within
the limit too. An hour meets at most the current window and the one before it, hence twice the
limit (`LadderInWindow`).

`ShownBudgetIsTrue` compares the console's subtraction with the ladder's checked
addition, and needs the books for the two lists that call a vault empty.

`VaultImplementsEscrow` maps initial states to initial states, and each instruction
to one escrow step or to a stutter. The step needs `TypeOK` and `RequestsAccounted` (the
next nonce is not among the open ones), so the invariant is carried along.

### ReputationProofs

| Theorem | Property |
|---|---|
| `ReputationTypeCorrect` | `TypeOK` |
| `RatingsAreEarned` | `RatingsEarned` |
| `RatingsAreSpaced` | `RatingsSpaced` |
| `FeedbackIsCounted` | `FeedbackCounted` |
| `PaymentsAreReconciled` | `PaymentsReconcile` |
| `ScoreAnswersToConduct` | `ScoreFollowsConduct` (of `ScoreSteps`) |
| `ScoresAnswerOnChain` | `ScoresFollowConduct` |

`Inv` adds which accounts exist together (`AccountsLinked`: a link's agent has a profile,
a receipt's pair has a link) and that a link remembers its pair's latest rating
(`LastRatingKept`), on which the spacing rests. The reconciliation compares three
sums; a payment changes one summand of each, or adds one. The score is a sum of
capped quotients, and the proof about it has one lemma per operator
(`ShareMoves`, `FeedbackMoves`, `PointsGrow`, `ScoreGrows`): integer division rounds the
penalty, but never past its neighbour. `ScoreAnswersToConduct` covers every profile and
tenure, where the run has the edges of the brackets.

`ScoreSteps` takes one instruction from one profile. `ScoresAnswerOnChain` is the same
of the program itself: in any step, whoever takes it, the score that `compute_score`
would give an agent falls only by a negative rating of that agent, and no negative
rating raises it. It needs `FeedbackCounted`: the score's formula is monotone only while
a profile has no more negative ratings than ratings, and the records on chain are what
says so. `ScoresFollowConduct` is stated in `ReputationProofs` and belongs to no run.

### LiveProofs

| Theorem | Property |
|---|---|
| `StreamTypeCorrect` | `TypeOK`: no channel and no socket above its capacity |
| `OneChainAlways` | `OneChain` |
| `NoSocketMadeAfterClose` | `NoSocketAfterClose` |
| `StreamIsFaithful` | `StreamFaithful` |
| `FeedTypeCorrect` | `FeedTypeOK` (of `LiveFeed`): buffers within their limits, the mounted screen subscribed |
| `RowsStayInPlace` | `RowsInPlace` (of `LiveFeed`) |
| `NewestIsShown` | `NewestShown` (of `LiveFeed`) |
| `SpendsAreCounted` | `SpendsCounted` (of `LiveFeed`) |

`Loop` says that the connect loop has one thing under way and that every socket after
the first was paid for by a fault, which keeps the numbers of connections within their
bound. `Pipes` says that what is on its way on the connection that is up, from the wire
over the frame in `session.text` to the channel, is one run of consecutive frames that
starts where `onFrame` stopped.

For the console's feed, `FeedInv` says of every list an event can come from, the cached
query, the page still on its way and the ticker, that its entries are events that
happened, of the list's own agent, and that none is there twice (`QueriesFilled`,
`TickerOnce`). A page read before a frame and resolved after it keeps this, since it
replaces the rows and merges nothing. The views rest on three facts about operators:
`SortedExists` (every finite set has a sorted sequence: a smallest one without would
still have one with its lowest key put last), `DescendingIs` (so the sort returns it, each
element once) and `SumByClass` (a sum taken class by class is the sum). `MergedIs` says
what the merged feed is; what the limit cut off is older than what it kept because the
list it cut was sorted.

`SpendsAreCounted` compares what the screens add up with the times the backend stored.
Two parts of `FeedInv` make it inductive: no event was stored after the present instant
(`EventsPast`), and no row of a query or page is dated before its event was stored
(`RowsOf`). `MergedDated` follows a row of the feed to its origin: it is dated when its
event was stored, or later, and then no query knows the time. `FigureCounts` turns that
into bounds on any sum or count of the spends dated since an instant, and the rest shows
that each card and chart is one: services, heatmap and bars by classes that cover their
window, whose start is `RangeStart` for the first two (none for "all") and a midnight for the
bars (`StartIs`: never earlier, hence bars at most services). It holds for any finite set
of agents, any ranges, default and limits, any non-empty set of instants and any length
of a day.

### ApprovalMirrorProofs

| Theorem | Property |
|---|---|
| `ApprovalTypeCorrect` | `TypeOK` |
| `RowsMatch` | `RowsMatchRequests` |
| `RejectionsAreExact` | `RejectionsExact` |
| `ApprovalsAreBacked` | `ApprovalsBacked` |
| `RowsNeverReopen` | `NeverReopened` |

A handler relies on what it read while others write, so every statement is first
reduced to what it does to the tables, and all of them keep two frames: a row keeps
key and shape and is not reopened, an alert keeps kind and row. Under them what a
handler knows stays true (`NextReady`). `Inv` adds that a row is linked to an alert of
its own, that keys are unique, that a rejection is told or about to be told once
(`RejectedOnce`), and, for approvals, `Covered`: alerts told plus handlers pledged to
tell one are no more than the deliveries of payments of that shape. A second handler
that finds the row another has found pledges a delivery of its own.

### SdkPaymentsProofs

| Theorem | Property |
|---|---|
| `SdkTypeCorrect` | `TypeOK` |
| `LaddersAgree` | `LadderAgrees` |
| `ErrorsNameCauses` | `ErrorNamesCause` |
| `RequestsOwnTheirNonce` | `RequestOwnsNonce` |
| `RetriesAreSafe` | `RetriesRepeatNothing` |
| `PathRunsTheProgram` | the chain takes only steps of `CreditVault` |
| `PathKeepsTheBooks` | `Conservation`, `RequestsAccounted` and `HourlyBound` of `CreditVault` |
| `PathObeysTheOwner` | `OverLimitNeedsApproval`, `FrozenInert` and `PaymentsWhitelisted` of `CreditVault` |
| `PathStepsTheEscrow` | the steps of `Escrow` |

The chain is an instance of `CreditVault`, whose type correctness is taken from the
instantiated proofs; `ProgramAssumption` and `PolicyAssumption` restate its assumptions.
`TxFrame` says that a transaction stays as it was sent and its outcome is final,
`VaultMoves` that a request once made stays pending or settled. `Inv` adds that no
two transactions that landed have one receipt or one nonce (`TxsApart`), that records come
from executed attestations (`RecordsTrue`), and that calls under way do not share a
transaction (`CallsApart`).

The last four theorems put the two components together. A transaction that lands runs
an instruction of the program or fails and changes nothing (`LandRuns`), the owner acts
through instructions too, and no other step touches the chain (`VaultAside`), so the path
is a behaviour of `CreditVault` except for its start: the vault here is funded already.
Its start satisfies the program's inductive invariant (`FundedVault`), the invariant is
kept (`ProgramKeeps`), and the action properties and the escrow's steps follow from the
step lemmas of `CreditVaultProofs`. What the vault promises its owner therefore holds
against any number of racing processes, lost answers and retries, and a limit or a
whitelist is the one in force when the payment lands, not when a guardrail looked.

### OwnerConsoleProofs

| Theorem | Property |
|---|---|
| `KeysAreSaved` | `KeysSaved` |
| `ReportsAreTrue` | `ChainAsReported` |
| `RerunsAreSafe` | `RerunsRepeatNothing` |
| `PageShowsAndSends` | `ShownAndSent` (of `VaultScreen`) |

`Inv` follows an account back to the click or the command that asked for it: what
the accounts may be (`ChainTrue`), that executing a transaction still on its way keeps
that so (`TxTrue`), that a handler, a form and a script only send such transactions
(`FlowTrue`, `ModalTrue`, `ScriptTrue`), and what the files of earlier runs say
(`DiskTrue`).

`RerunsAreSafe` needs the balance along the way (`RerunsTrue`). What runs of the bootstrap
deposited and waited for is still in the vault or was paid or withdrawn from it, whatever
the console, topup and abandoned transactions add (`Backed`); a run that decided to
deposit had read a balance below the target, so all but less than one target of what
came before has left (`DepositDue`, which payments and withdrawals between the decision and
the landing only strengthen); and an order of the bootstrap that is on its way is
awaited by the running script or was abandoned (`OwnTrue`), so nobody else's deposit is
counted for it. The same argument with the supply, which never falls, gives the single
initial mint (`MintDue`).

On the vault's page, the frozen flag is followed through every copy of it: mirror,
fetch, cache, and the orders of the handlers (`FrozenKnown`). The whitelist is not cut
because every selection fits the array (`Shorts`, an invariant of the form and of
what it starts from).

### WebSessionProofs

| Theorem | Property |
|---|---|
| `SessionTypeCorrect` | `TypeOK` |
| `NonceMintsOnce` | `MintedOnce` |
| `TokensAreSigned` | `SignedByOwner` |
| `ListsStayApart` | `ListsByOwner` |

None of them is inductive. `Inv` adds where a pipeline stands (`Pipeline`: before
its nonce is issued nothing is minted; what is minted has consumed the nonce and
names the key the pipeline started with; an answer "token" is backed by it), that
the stored token is one of those, and that a request carries a token of the wallet
whose key it writes, retries included.

### DataTheorems

The lemmas the proofs share. A sum is a fold, and the fold a recursive function;
induction over the set is not available, so the equation of the fold and the laws of
sums (`SumAdd`, `SumChange`, `SumUnion`, `SumMonotone`, `SumCover`) are proved by minimal
counterexample: a law that failed would fail for a smallest set, and it holds there.
`LowestKey`, `SumByClass`, `CountIsSum` and `CountByClass` serve the lists and figures
of the console.

### Only model-checked

* Liveness (`HalfOpenReaped`, `Reconnects`, `RequestsSurface`, `EverythingSettles`,
  `PolicySettles`, `SessionFollowsWallet`): fairness and `ENABLED` are outside the
  prover's reach.

Every safety invariant and every action property of the runs has a theorem.

## Not modelled

* The backend's event store, mirror, score history, backfill and the budget, score,
  deposit and freeze alerts: the largest part left, see the plan. The console and the
  approvals are modelled against a mirror that may be late.
* Push notifications and the dev airdrop: best-effort calls to other services.
* The Python SDK, the Rust runtime and the mobile client: their own code is not
  modelled; they call the programs and endpoints that are.
* Documentation and landing pages, layout, styles and formatting.

## Plan

1. `Indexer`: chain events delivered at least once and out of order, stored
   idempotently, mirrored by concurrent refreshes, scored, broadcast and
   backfilled. Abstract specification: the mirror equals a fold of the stored
   events once deliveries settle.
2. The other alerts over `Indexer`: budget watermark and thresholds, score,
   deposit and freeze alerts.
3. The mobile client's approval flow, composed with `ApprovalMirror`.
