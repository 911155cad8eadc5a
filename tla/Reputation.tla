----------------------------- MODULE Reputation -----------------------------
(***************************************************************************)
(* The reputation Anchor program (programs/reputation/src): agent          *)
(* profiles, service registries, one link per (agent, service) pair, the   *)
(* ReceiptUsed PDAs that make a payment receipt single-use and the         *)
(* FeedbackRecord PDAs, one per receipt.  Each instruction is one atomic   *)
(* action.  A key may act as agent authority, owner and service at once.   *)
(***************************************************************************)
EXTENDS AgentProfile, FiniteSets, FiniteSums

CONSTANTS
    Agents,         \* authorities of agents
    Services,       \* keys of services
    Owners,         \* keys that may own an agent
    Receipts,       \* payment receipt hashes
    Amounts,        \* values of amount_usdc
    Values,         \* values of a feedback argument (an i8)
    RateLimit,      \* FEEDBACK_RATE_LIMIT_SLOTS
    MaxSlot         \* bound of the run

ASSUME ReputationAssumption ==
    /\ Amounts \subseteq Nat /\ Values \subseteq -128..127
    /\ RateLimit \in Nat /\ MaxSlot \in Nat

VARIABLES
    profile,    \* the AgentProfile accounts that exist
    registry,   \* the ServiceRegistry accounts that exist
    link,       \* the AgentServiceLink accounts that exist
    receipt,    \* the ReceiptUsed accounts: the pair each was recorded for
    feedback,   \* the FeedbackRecord accounts, by receipt hash
    slot        \* Clock::get()?.slot

vars == <<profile, registry, link, receipt, feedback, slot>>

Slots == 0..MaxSlot
Pairs == Agents \X Services

Profiles ==
    [owner : Owners, total_transactions : 0..MaxU64, total_volume : 0..MaxU64,
     consecutive_success : 0..MaxU32, total_feedback : 0..MaxU32,
     active_negative : 0..MaxU32, services_used : 0..MaxU16,
     first_active_slot : Slots, score : 0..MaxScore]
Registries ==
    [active : BOOLEAN, total_agents_served : 0..MaxU64,
     total_volume_received : 0..MaxU64]
Links ==
    [total_transactions : 0..MaxU64, total_volume : 0..MaxU64,
     last_feedback_slot : Slots, has_received_feedback : BOOLEAN]
Feedbacks ==
    [pair : Pairs, value : -100..100, has_response : BOOLEAN,
     revoked : BOOLEAN, created_slot : Slots]

\* f is a function from part of S into T.
Partial(f, S, T) == DOMAIN f \subseteq S /\ \A x \in DOMAIN f : f[x] \in T

TypeOK ==
    /\ Partial(profile, Agents, Profiles)
    /\ Partial(registry, Services, Registries)
    /\ Partial(link, Pairs, Links)
    /\ Partial(receipt, Receipts, Pairs)
    /\ Partial(feedback, Receipts, Feedbacks)
    /\ slot \in Slots

NoAccounts == [x \in {} |-> {}]

\* f with the account at address x created or overwritten.
Put(f, x, v) == [y \in DOMAIN f \cup {x} |-> IF y = x THEN v ELSE f[y]]

Init ==
    /\ profile = NoAccounts /\ registry = NoAccounts /\ link = NoAccounts
    /\ receipt = NoAccounts /\ feedback = NoAccounts
    /\ slot = 0

----------------------------------------------------------------------------
initialize_agent(a, owner) ==
    /\ a \notin DOMAIN profile
    /\ profile' = Put(profile, a, NewProfile(owner, slot))
    /\ UNCHANGED <<registry, link, receipt, feedback, slot>>

register_service(s) ==
    /\ s \notin DOMAIN registry
    /\ registry' = Put(registry, s, [active |-> TRUE, total_agents_served |-> 0,
                                     total_volume_received |-> 0])
    /\ UNCHANGED <<profile, link, receipt, feedback, slot>>

set_service_active(s, active) ==
    /\ s \in DOMAIN registry
    /\ registry' = [registry EXCEPT ![s].active = active]
    /\ UNCHANGED <<profile, link, receipt, feedback, slot>>

NewLink == [total_transactions |-> 0, total_volume |-> 0,
            last_feedback_slot |-> 0, has_received_feedback |-> FALSE]

FitsRegistry(reg) ==
    reg.total_agents_served <= MaxU64 /\ reg.total_volume_received <= MaxU64

FitsLink(l) == l.total_transactions <= MaxU64 /\ l.total_volume <= MaxU64

\* The handler of record_payment; the link is opened with init_if_needed.
RecordedPayment(a, s, r, amount) ==
    /\ a \in DOMAIN profile /\ s \in DOMAIN registry
    /\ amount > 0
    /\ registry[s].active
    /\ LET new == <<a, s>> \notin DOMAIN link
           old == IF new THEN NewLink ELSE link[<<a, s>>] IN
       /\ profile' = [profile EXCEPT ![a] = CountedPayment(@, amount, new)]
       /\ registry' = [registry EXCEPT
             ![s].total_agents_served = IF new THEN @ + 1 ELSE @,
             ![s].total_volume_received = @ + amount]
       /\ link' = Put(link, <<a, s>>,
             [old EXCEPT !.total_transactions = @ + 1,
                         !.total_volume = @ + amount])
       /\ FitsProfile(profile'[a]) /\ FitsRegistry(registry'[s])
       /\ FitsLink(link'[<<a, s>>])
    /\ receipt' = Put(receipt, r, <<a, s>>)
    /\ UNCHANGED <<feedback, slot>>

\* Mutant: the receipt account, too, is opened with init_if_needed.
record_payment_Replayable(a, s, r, amount) == RecordedPayment(a, s, r, amount)

\* Signed by the service; the receipt's address is derived from its hash and
\* opened with init, so a hash is recorded once whatever the pair.
record_payment(a, s, r, amount) ==
    /\ r \notin DOMAIN receipt
    /\ RecordedPayment(a, s, r, amount)

\* Mutant: only the owner is kept from rating.
MayRateOwnerOnly(s, a) == s # profile[a].owner

\* The two SelfRating constraints.
MayRate(s, a) == s # profile[a].owner /\ s # a

ValidValue(value) == value \in -100..100

\* Mutant: slot 0 stands for "no feedback yet".
RateLimitedBySlot(l) ==
    l.last_feedback_slot # 0 /\ slot - l.last_feedback_slot < RateLimit

RateLimited(l) ==
    l.has_received_feedback /\ slot - l.last_feedback_slot < RateLimit

\* Signed by the service.  Does not require the service to be active.
give_feedback(a, s, r, value) ==
    /\ a \in DOMAIN profile /\ s \in DOMAIN registry
    /\ MayRate(s, a)
    /\ <<a, s>> \in DOMAIN link
    /\ r \in DOMAIN receipt
    /\ r \notin DOMAIN feedback
    /\ ValidValue(value)
    /\ receipt[r] = <<a, s>>
    /\ ~RateLimited(link[<<a, s>>])
    /\ link' = [link EXCEPT ![<<a, s>>].last_feedback_slot = slot,
                            ![<<a, s>>].has_received_feedback = TRUE]
    /\ feedback' = Put(feedback, r,
          [pair |-> <<a, s>>, value |-> value, has_response |-> FALSE,
           revoked |-> FALSE, created_slot |-> slot])
    /\ profile' = [profile EXCEPT ![a] = CountedFeedback(@, value)]
    /\ FitsProfile(profile'[a])
    /\ UNCHANGED <<registry, receipt, slot>>

\* Signed by the service that gave it.
revoke_feedback(a, s, r) ==
    /\ r \in DOMAIN feedback
    /\ feedback[r].pair = <<a, s>>
    /\ ~feedback[r].revoked
    /\ feedback' = [feedback EXCEPT ![r].revoked = TRUE]
    /\ profile' = [profile EXCEPT ![a] = RevokedFeedback(@, feedback[r].value)]
    /\ profile'[a].active_negative >= 0
    /\ UNCHANGED <<registry, link, receipt, slot>>

\* Signed by the agent's authority or its owner.
append_response(a, r) ==
    /\ r \in DOMAIN feedback
    /\ feedback[r].pair[1] = a
    /\ ~feedback[r].has_response
    /\ feedback' = [feedback EXCEPT ![r].has_response = TRUE]
    /\ UNCHANGED <<profile, registry, link, receipt, slot>>

\* Anyone may call it.
compute_score(a) ==
    /\ a \in DOMAIN profile
    /\ profile' = [profile EXCEPT ![a].score = compute(profile[a], slot)]
    /\ UNCHANGED <<registry, link, receipt, feedback, slot>>

AdvanceSlot ==
    /\ slot < MaxSlot
    /\ slot' = slot + 1
    /\ UNCHANGED <<profile, registry, link, receipt, feedback>>

Next ==
    \/ \E a \in Agents :
          \/ \E o \in Owners : initialize_agent(a, o)
          \/ compute_score(a)
          \/ \E r \in Receipts : append_response(a, r)
    \/ \E s \in Services :
          \/ register_service(s)
          \/ \E b \in BOOLEAN : set_service_active(s, b)
    \/ \E a \in Agents, s \in Services, r \in Receipts :
          \/ \E n \in Amounts : record_payment(a, s, r, n)
          \/ \E v \in Values : give_feedback(a, s, r, v)
          \/ revoke_feedback(a, s, r)
    \/ AdvanceSlot

Spec == Init /\ [][Next]_vars

----------------------------------------------------------------------------
(* Properties.                                                             *)

FeedbackOf(a) == {r \in DOMAIN feedback : feedback[r].pair[1] = a}

StandingNegatives(a) ==
    {r \in FeedbackOf(a) : feedback[r].value < 0 /\ ~feedback[r].revoked}

\* A profile's counters are the records on chain: total_feedback counts every
\* FeedbackRecord of the agent, revoked ones included, and active_negative
\* the negative ones still standing, through any order of give_feedback and
\* revoke_feedback by any services.  So the checked_sub of revoke_feedback
\* never fails and the min() in feedback_points never bites.
FeedbackCounted ==
    \A a \in DOMAIN profile :
        /\ profile[a].total_feedback = Cardinality(FeedbackOf(a))
        /\ profile[a].active_negative = Cardinality(StandingNegatives(a))

LinkVolumes == [p \in DOMAIN link |-> link[p].total_volume]
LinksOf(a) == {p \in DOMAIN link : p[1] = a}
LinksTo(s) == {p \in DOMAIN link : p[2] = s}
ReceiptsOf(a) == {r \in DOMAIN receipt : receipt[r][1] = a}

\* Volumes, payments and counterparties agree between the three kinds of
\* accounts record_payment updates: a profile and a registry are the sums of
\* their links, and each payment counted has a receipt of its own.
PaymentsReconcile ==
    /\ \A a \in DOMAIN profile :
          /\ profile[a].total_volume = SumOver(LinkVolumes, LinksOf(a))
          /\ profile[a].services_used = Cardinality(LinksOf(a))
          /\ profile[a].total_transactions = Cardinality(ReceiptsOf(a))
    /\ \A s \in DOMAIN registry :
          /\ registry[s].total_volume_received
                = SumOver(LinkVolumes, LinksTo(s))
          /\ registry[s].total_agents_served = Cardinality(LinksTo(s))

\* Two ratings of one agent by one service are RateLimit slots apart, the one
\* at slot 0 included (give_feedback keeps an explicit flag for that).
RatingsSpaced ==
    \A q, r \in DOMAIN feedback :
        q # r /\ feedback[q].pair = feedback[r].pair =>
            \/ feedback[q].created_slot - feedback[r].created_slot >= RateLimit
            \/ feedback[r].created_slot - feedback[q].created_slot >= RateLimit

\* A rating rests on a payment recorded for the very same pair, and nobody
\* rates an agent it is or owns.
RatingsEarned ==
    \A r \in DOMAIN feedback :
        /\ r \in DOMAIN receipt /\ receipt[r] = feedback[r].pair
        /\ LET a == feedback[r].pair[1]
               s == feedback[r].pair[2]
           IN  s # a /\ s # profile[a].owner
============================================================================
