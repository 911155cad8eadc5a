------------------------- MODULE ReputationProofs --------------------------
(***************************************************************************)
(* Reputation, for every value of the constants: types, and the four       *)
(* invariants its run checks on a small instance.  Besides them the        *)
(* inductive invariant Inv says which accounts exist together and that a   *)
(* link remembers the latest rating of its pair.  The last parts show for  *)
(* every profile that the score answers to conduct, first by itself        *)
(* (ScoreSteps), then in every step of the program.                        *)
(***************************************************************************)
EXTENDS Reputation, ScoreSteps, DataTheorems

USE WidthsAssumption, ReputationAssumption DEF WidthsAssumption,
    ReputationAssumption

----------------------------------------------------------------------------
\* What Put does to one address and leaves alone elsewhere.
LEMMA PutEffect ==
    ASSUME NEW f, NEW x, NEW v
    PROVE  /\ DOMAIN Put(f, x, v) = DOMAIN f \cup {x}
           /\ Put(f, x, v)[x] = v
           /\ \A y \in DOMAIN f : y # x => Put(f, x, v)[y] = f[y]
BY DEF Put

\* Creating or overwriting an account of the right type keeps the type.
LEMMA PutPartial ==
    ASSUME NEW S, NEW T, NEW f, Partial(f, S, T), NEW x \in S, NEW v \in T
    PROVE  Partial(Put(f, x, v), S, T)
BY DEF Partial, Put

\* What record_payment does to a profile; within the widths the result is
\* one (the checked_adds of the handler).
LEMMA PaymentEffect ==
    ASSUME NEW p \in Profiles, NEW n \in Nat, NEW b \in BOOLEAN
    PROVE  LET q == CountedPayment(p, n, b) IN
           /\ q.owner = p.owner
           /\ q.total_transactions = p.total_transactions + 1
           /\ q.total_volume = p.total_volume + n
           /\ q.services_used = IF b THEN p.services_used + 1
                                     ELSE p.services_used
           /\ q.total_feedback = p.total_feedback
           /\ q.active_negative = p.active_negative
           /\ FitsProfile(q) => q \in Profiles
<1> DEFINE q == CountedPayment(p, n, b)
<1>1. /\ q.owner = p.owner /\ q.first_active_slot = p.first_active_slot
      /\ q.score = p.score
      /\ q.total_transactions = p.total_transactions + 1
      /\ q.total_volume = p.total_volume + n
      /\ q.consecutive_success = p.consecutive_success + 1
      /\ q.services_used = IF b THEN p.services_used + 1 ELSE p.services_used
      /\ q.total_feedback = p.total_feedback
      /\ q.active_negative = p.active_negative
  BY DEF CountedPayment, Profiles
<1>2. ASSUME FitsProfile(q) PROVE q \in Profiles
  <2>1. /\ q.total_transactions \in 0..MaxU64 /\ q.total_volume \in 0..MaxU64
        /\ q.consecutive_success \in 0..MaxU32
        /\ q.services_used \in 0..MaxU16
    BY <1>1, <1>2 DEF Profiles, FitsProfile
  <2>2. q = [p EXCEPT !.services_used = q.services_used,
                      !.total_transactions = q.total_transactions,
                      !.total_volume = q.total_volume,
                      !.consecutive_success = q.consecutive_success]
    BY <1>1 DEF CountedPayment, Profiles
  <2> HIDE DEF q
  <2> QED BY <2>1, <2>2, ZenonT(60) DEF Profiles
<1> QED BY <1>1, <1>2

\* What give_feedback does to a profile.
LEMMA FeedbackEffect ==
    ASSUME NEW p \in Profiles, NEW v \in Int
    PROVE  LET q == CountedFeedback(p, v) IN
           /\ q.owner = p.owner
           /\ q.total_transactions = p.total_transactions
           /\ q.total_volume = p.total_volume
           /\ q.services_used = p.services_used
           /\ q.total_feedback = p.total_feedback + 1
           /\ q.active_negative = IF v < 0 THEN p.active_negative + 1
                                           ELSE p.active_negative
           /\ FitsProfile(q) => q \in Profiles
<1> DEFINE q == CountedFeedback(p, v)
<1>1. /\ q.owner = p.owner
      /\ q.total_transactions = p.total_transactions
      /\ q.total_volume = p.total_volume
      /\ q.services_used = p.services_used
      /\ q.total_feedback = p.total_feedback + 1
      /\ q.active_negative = IF v < 0 THEN p.active_negative + 1
                                      ELSE p.active_negative
      /\ q.consecutive_success = IF v < 0 THEN 0 ELSE p.consecutive_success
  BY DEF CountedFeedback, Profiles
<1>2. ASSUME FitsProfile(q) PROVE q \in Profiles
  <2>1. /\ q.total_feedback \in 0..MaxU32 /\ q.active_negative \in 0..MaxU32
        /\ q.consecutive_success \in 0..MaxU32
    BY <1>1, <1>2 DEF Profiles, FitsProfile
  <2>2. q = [p EXCEPT !.total_feedback = q.total_feedback,
                      !.active_negative = q.active_negative,
                      !.consecutive_success = q.consecutive_success]
    BY <1>1 DEF CountedFeedback, Profiles
  <2> HIDE DEF q
  <2> QED BY <2>1, <2>2, ZenonT(60) DEF Profiles
<1> QED BY <1>1, <1>2

\* What revoke_feedback does to a profile.
LEMMA RevocationEffect ==
    ASSUME NEW p \in Profiles, NEW v \in Int
    PROVE  LET q == RevokedFeedback(p, v) IN
           /\ q.owner = p.owner
           /\ q.total_transactions = p.total_transactions
           /\ q.total_volume = p.total_volume
           /\ q.services_used = p.services_used
           /\ q.total_feedback = p.total_feedback
           /\ q.active_negative = IF v < 0 THEN p.active_negative - 1
                                           ELSE p.active_negative
           /\ q.active_negative >= 0 => q \in Profiles
BY DEF RevokedFeedback, Profiles

\* compute_score stores a value in 0..MaxScore whatever the counters.
LEMMA ScoreType ==
    ASSUME NEW p \in Profiles, NEW t \in Slots
    PROVE  compute(p, t) \in 0..MaxScore
<1>1. volume_points(p.total_transactions) \in Nat
  BY DEF volume_points, VolumeWeight, Profiles
<1>2. diversity_points(p.services_used) \in Nat
  BY DEF diversity_points, Lesser, DiversityCap, Profiles
<1>3. streak_points(p.consecutive_success) \in Nat
  BY DEF streak_points, Lesser, StreakCap, Profiles
<1>4. tenure_points(p.first_active_slot, t) \in Nat
  BY DEF tenure_points, TenureWeight
<1>5. feedback_points(p.total_feedback, p.active_negative) \in Nat
  BY DEF feedback_points, FeedbackWeight, NeutralFeedbackBonus, SaturatingSub,
         Lesser, Profiles
<1> DEFINE points == volume_points(p.total_transactions)
                       + diversity_points(p.services_used)
                       + streak_points(p.consecutive_success)
                       + tenure_points(p.first_active_slot, t)
                       + feedback_points(p.total_feedback, p.active_negative)
<1>6. points \in Nat
  BY <1>1, <1>2, <1>3, <1>4, <1>5
<1>7. compute(p, t) = Lesser(points, MaxScore)
  BY DEF compute
<1> HIDE DEF points
<1> QED BY <1>6, <1>7 DEF Lesser, MaxScore

----------------------------------------------------------------------------
\* No account exists at first.
LEMMA InitTypeOK == Init => TypeOK
BY DEF Init, TypeOK, NoAccounts, Partial, Slots

\* Every instruction keeps every account within the widths of its fields.
LEMMA NextTypeOK == TypeOK /\ [Next]_vars => TypeOK'
<1> SUFFICES ASSUME TypeOK, [Next]_vars PROVE TypeOK'
  OBVIOUS
<1> USE DEF TypeOK
<1>1. ASSUME NEW a \in Agents, NEW o \in Owners, initialize_agent(a, o)
      PROVE  TypeOK'
  <2>1. NewProfile(o, slot) \in Profiles
    BY DEF NewProfile, Profiles, MaxScore
  <2>2. Partial(profile', Agents, Profiles)
    BY <1>1, <2>1, PutPartial DEF initialize_agent
  <2> QED BY <1>1, <2>2 DEF initialize_agent
<1>2. ASSUME NEW s \in Services, register_service(s) PROVE TypeOK'
  <2>1. [active |-> TRUE, total_agents_served |-> 0,
         total_volume_received |-> 0] \in Registries
    BY DEF Registries
  <2>2. Partial(registry', Services, Registries)
    BY <1>2, <2>1, PutPartial DEF register_service
  <2> QED BY <1>2, <2>2 DEF register_service
<1>3. ASSUME NEW s \in Services, NEW b \in BOOLEAN, set_service_active(s, b)
      PROVE  TypeOK'
  <2>1. [registry[s] EXCEPT !.active = b] \in Registries
    BY <1>3 DEF set_service_active, Partial, Registries
  <2>2. Partial(registry', Services, Registries)
    BY <1>3, <2>1 DEF set_service_active, Partial
  <2> QED BY <1>3, <2>2 DEF set_service_active
<1>4. ASSUME NEW a \in Agents, NEW s \in Services, NEW r \in Receipts,
             NEW n \in Amounts, record_payment(a, s, r, n)
      PROVE  TypeOK'
  <2> DEFINE new == <<a, s>> \notin DOMAIN link
             old == IF new THEN NewLink ELSE link[<<a, s>>]
             lnk == [old EXCEPT !.total_transactions = @ + 1,
                                !.total_volume = @ + n]
             reg == [registry[s] EXCEPT
                       !.total_agents_served = IF new THEN @ + 1 ELSE @,
                       !.total_volume_received = @ + n]
             prf == CountedPayment(profile[a], n, new)
  <2>0. /\ profile[a] \in Profiles /\ registry[s] \in Registries
        /\ old \in Links /\ n \in Nat /\ <<a, s>> \in Pairs
    BY <1>4 DEF record_payment, RecordedPayment, Partial, NewLink, Links,
                Slots, Pairs
  <2>1. /\ profile' = [profile EXCEPT ![a] = prf]
        /\ registry' = [registry EXCEPT ![s] = reg]
        /\ link' = Put(link, <<a, s>>, lnk)
        /\ receipt' = Put(receipt, r, <<a, s>>)
        /\ a \in DOMAIN profile /\ s \in DOMAIN registry
        /\ feedback' = feedback /\ slot' = slot
        /\ FitsProfile(profile'[a]) /\ FitsRegistry(registry'[s])
        /\ FitsLink(link'[<<a, s>>])
    BY <1>4 DEF record_payment, RecordedPayment
  <2>2. prf \in Profiles
    <3>1. FitsProfile(prf)
      BY <2>1
    <3> QED BY <2>0, <3>1, PaymentEffect
  <2>3. reg \in Registries
    <3>1. FitsRegistry(reg)
      BY <2>1
    <3>2. /\ reg.total_agents_served \in 0..MaxU64
          /\ reg.total_volume_received \in 0..MaxU64
      BY <2>0, <3>1 DEF FitsRegistry, Registries
    <3>3. reg = [registry[s] EXCEPT
                    !.total_agents_served = reg.total_agents_served,
                    !.total_volume_received = reg.total_volume_received]
      BY <2>0 DEF Registries
    <3> HIDE DEF reg
    <3> QED BY <2>0, <3>2, <3>3 DEF Registries
  <2>4. lnk \in Links
    <3>1. link'[<<a, s>>] = lnk
      <4> HIDE DEF lnk, prf, reg
      <4> QED BY <2>1 DEF Put
    <3> HIDE DEF old
    <3>2. /\ lnk.total_transactions \in 0..MaxU64
          /\ lnk.total_volume \in 0..MaxU64
      <4>1. FitsLink(lnk)
        <5> HIDE DEF lnk, prf, reg
        <5> QED BY <2>1, <3>1
      <4> QED BY <2>0, <4>1 DEF FitsLink, Links
    <3>3. lnk = [old EXCEPT !.total_transactions = lnk.total_transactions,
                            !.total_volume = lnk.total_volume]
      BY <2>0 DEF Links
    <3> HIDE DEF lnk
    <3> QED BY <2>0, <3>2, <3>3 DEF Links
  <2> HIDE DEF prf, reg, lnk
  <2>5. Partial(profile', Agents, Profiles)
    BY <2>1, <2>2 DEF Partial
  <2>6. Partial(registry', Services, Registries)
    BY <2>1, <2>3 DEF Partial
  <2>7. Partial(link', Pairs, Links)
    BY <2>0, <2>1, <2>4, PutPartial
  <2>8. Partial(receipt', Receipts, Pairs)
    BY <2>0, <2>1, PutPartial
  <2> QED BY <2>1, <2>5, <2>6, <2>7, <2>8
<1>5. ASSUME NEW a \in Agents, NEW s \in Services, NEW r \in Receipts,
             NEW v \in Values, give_feedback(a, s, r, v)
      PROVE  TypeOK'
  <2> DEFINE prf == CountedFeedback(profile[a], v)
             lnk == [link[<<a, s>>] EXCEPT !.last_feedback_slot = slot,
                                           !.has_received_feedback = TRUE]
             fbk == [pair |-> <<a, s>>, value |-> v, has_response |-> FALSE,
                     revoked |-> FALSE, created_slot |-> slot]
  <2>0. /\ profile[a] \in Profiles /\ link[<<a, s>>] \in Links
        /\ <<a, s>> \in Pairs /\ v \in -100..100 /\ v \in Int
    BY <1>5 DEF give_feedback, Partial, Pairs, ValidValue
  <2>1. /\ profile' = [profile EXCEPT ![a] = prf]
        /\ link' = [link EXCEPT ![<<a, s>>] = lnk]
        /\ feedback' = Put(feedback, r, fbk)
        /\ a \in DOMAIN profile /\ <<a, s>> \in DOMAIN link
        /\ registry' = registry /\ receipt' = receipt /\ slot' = slot
        /\ FitsProfile(profile'[a])
    BY <1>5 DEF give_feedback
  <2>2. prf \in Profiles
    <3>1. FitsProfile(prf)
      BY <2>1
    <3> QED BY <2>0, <3>1, FeedbackEffect
  <2>3. lnk \in Links
    BY <2>0 DEF Links
  <2>4. fbk \in Feedbacks
    BY <2>0 DEF Feedbacks
  <2> HIDE DEF prf, lnk, fbk
  <2>5. Partial(profile', Agents, Profiles)
    BY <2>1, <2>2 DEF Partial
  <2>6. Partial(link', Pairs, Links)
    BY <2>1, <2>3 DEF Partial
  <2>7. Partial(feedback', Receipts, Feedbacks)
    BY <2>1, <2>4, PutPartial
  <2> QED BY <2>1, <2>5, <2>6, <2>7
<1>6. ASSUME NEW a \in Agents, NEW s \in Services, NEW r \in Receipts,
             revoke_feedback(a, s, r)
      PROVE  TypeOK'
  <2> DEFINE prf == RevokedFeedback(profile[a], feedback[r].value)
             fbk == [feedback[r] EXCEPT !.revoked = TRUE]
  <2>1. /\ profile' = [profile EXCEPT ![a] = prf]
        /\ feedback' = [feedback EXCEPT ![r] = fbk]
        /\ r \in DOMAIN feedback
        /\ registry' = registry /\ link' = link /\ receipt' = receipt
        /\ slot' = slot /\ profile'[a].active_negative >= 0
    BY <1>6 DEF revoke_feedback
  <2>0. feedback[r] \in Feedbacks
    BY <2>1 DEF Partial
  <2>2. fbk \in Feedbacks /\ feedback[r].value \in Int
    <3>1. fbk \in Feedbacks
      BY <2>0, ZenonT(60) DEF Feedbacks
    <3>2. feedback[r].value \in -100..100
      BY <2>0 DEF Feedbacks
    <3> QED BY <3>1, <3>2
  <2>3. a \in DOMAIN profile => prf \in Profiles
    <3> SUFFICES ASSUME a \in DOMAIN profile PROVE prf \in Profiles
      OBVIOUS
    <3>1. profile[a] \in Profiles /\ prf.active_negative >= 0
      BY <2>1 DEF Partial
    <3> QED BY <2>2, <3>1, RevocationEffect
  <2> HIDE DEF prf, fbk
  <2>4. Partial(profile', Agents, Profiles)
    BY <2>1, <2>3 DEF Partial
  <2>5. Partial(feedback', Receipts, Feedbacks)
    BY <2>1, <2>2 DEF Partial
  <2> QED BY <2>1, <2>4, <2>5
<1>7. ASSUME NEW a \in Agents, NEW r \in Receipts, append_response(a, r)
      PROVE  TypeOK'
  <2>0. feedback[r] \in Feedbacks
    BY <1>7 DEF append_response, Partial
  <2>1. [feedback[r] EXCEPT !.has_response = TRUE] \in Feedbacks
    BY <2>0, ZenonT(60) DEF Feedbacks
  <2>2. Partial(feedback', Receipts, Feedbacks)
    BY <1>7, <2>1 DEF append_response, Partial
  <2> QED BY <1>7, <2>2 DEF append_response
<1>8. ASSUME NEW a \in Agents, compute_score(a) PROVE TypeOK'
  <2>1. profile[a] \in Profiles /\ a \in DOMAIN profile
    BY <1>8 DEF compute_score, Partial
  <2>2. compute(profile[a], slot) \in 0..MaxScore
    BY <2>1, ScoreType
  <2>3. [profile[a] EXCEPT !.score = compute(profile[a], slot)] \in Profiles
    BY <2>1, <2>2 DEF Profiles
  <2>4. Partial(profile', Agents, Profiles)
    BY <1>8, <2>3 DEF compute_score, Partial
  <2> QED BY <1>8, <2>4 DEF compute_score
<1>9. ASSUME AdvanceSlot PROVE TypeOK'
  BY <1>9 DEF AdvanceSlot, Slots
<1>10. CASE UNCHANGED vars
  BY <1>10 DEF vars
<1> QED BY <1>1, <1>2, <1>3, <1>4, <1>5, <1>6, <1>7, <1>8, <1>9, <1>10 DEF Next

\* Every account keeps the type its declaration gives it: no counter leaves
\* its width and the score stays in 0..MaxScore.
THEOREM ReputationTypeCorrect == Spec => []TypeOK
<1>1. Init => TypeOK
  BY InitTypeOK
<1>2. TypeOK /\ [Next]_vars => TypeOK'
  BY NextTypeOK
<1> QED BY <1>1, <1>2, PTL DEF Spec

----------------------------------------------------------------------------
\* The accounts record_payment opens, changes and leaves alone.
PaymentFrame(a, s, r) ==
    /\ a \in DOMAIN profile /\ s \in DOMAIN registry
    /\ r \notin DOMAIN receipt
    /\ DOMAIN profile' = DOMAIN profile
    /\ \A b \in DOMAIN profile : b # a => profile'[b] = profile[b]
    /\ DOMAIN registry' = DOMAIN registry
    /\ \A t \in DOMAIN registry : t # s => registry'[t] = registry[t]
    /\ DOMAIN link' = DOMAIN link \cup {<<a, s>>}
    /\ \A p \in DOMAIN link : p # <<a, s>> => link'[p] = link[p]
    /\ DOMAIN receipt' = DOMAIN receipt \cup {r}
    /\ receipt'[r] = <<a, s>>
    /\ \A q \in DOMAIN receipt : receipt'[q] = receipt[q]
    /\ feedback' = feedback /\ slot' = slot

\* record_payment has the effect PaymentFrame on the sets of accounts.
LEMMA PaymentStep ==
    ASSUME TypeOK, NEW a \in Agents, NEW s \in Services, NEW r \in Receipts,
           NEW n \in Amounts, record_payment(a, s, r, n)
    PROVE  PaymentFrame(a, s, r)
<1>1. /\ a \in DOMAIN profile /\ s \in DOMAIN registry
      /\ r \notin DOMAIN receipt
      /\ \E prf : profile' = [profile EXCEPT ![a] = prf]
      /\ \E reg : registry' = [registry EXCEPT ![s] = reg]
      /\ \E lnk : link' = Put(link, <<a, s>>, lnk)
      /\ receipt' = Put(receipt, r, <<a, s>>)
      /\ feedback' = feedback /\ slot' = slot
  BY DEF record_payment, RecordedPayment
<1>2. /\ DOMAIN profile' = DOMAIN profile
      /\ \A b \in DOMAIN profile : b # a => profile'[b] = profile[b]
  BY <1>1
<1>3. /\ DOMAIN registry' = DOMAIN registry
      /\ \A t \in DOMAIN registry : t # s => registry'[t] = registry[t]
  BY <1>1
<1>4. /\ DOMAIN link' = DOMAIN link \cup {<<a, s>>}
      /\ \A p \in DOMAIN link : p # <<a, s>> => link'[p] = link[p]
  BY <1>1 DEF Put
<1>5. /\ DOMAIN receipt' = DOMAIN receipt \cup {r} /\ receipt'[r] = <<a, s>>
      /\ \A q \in DOMAIN receipt : receipt'[q] = receipt[q]
  BY <1>1 DEF Put
<1> QED BY <1>1, <1>2, <1>3, <1>4, <1>5 DEF PaymentFrame

\* The counters record_payment moves.
PaymentCounted(a, s, n) ==
    /\ profile'[a].owner = profile[a].owner
    /\ profile'[a].total_transactions = profile[a].total_transactions + 1
    /\ profile'[a].total_volume = profile[a].total_volume + n
    /\ profile'[a].services_used =
          IF <<a, s>> \in DOMAIN link THEN profile[a].services_used
          ELSE profile[a].services_used + 1
    /\ profile'[a].total_feedback = profile[a].total_feedback
    /\ profile'[a].active_negative = profile[a].active_negative
    /\ registry'[s].total_agents_served =
          IF <<a, s>> \in DOMAIN link THEN registry[s].total_agents_served
          ELSE registry[s].total_agents_served + 1
    /\ registry'[s].total_volume_received =
          registry[s].total_volume_received + n
    /\ link'[<<a, s>>].total_volume =
          IF <<a, s>> \in DOMAIN link THEN link[<<a, s>>].total_volume + n
          ELSE n
    /\ <<a, s>> \in DOMAIN link =>
          /\ link'[<<a, s>>].last_feedback_slot
                = link[<<a, s>>].last_feedback_slot
          /\ link'[<<a, s>>].has_received_feedback
                = link[<<a, s>>].has_received_feedback

\* record_payment moves the counters as PaymentCounted says.
LEMMA PaymentCounts ==
    ASSUME TypeOK, NEW a \in Agents, NEW s \in Services, NEW r \in Receipts,
           NEW n \in Amounts, record_payment(a, s, r, n)
    PROVE  PaymentCounted(a, s, n)
<1> DEFINE new == <<a, s>> \notin DOMAIN link
           old == IF new THEN NewLink ELSE link[<<a, s>>]
           lnk == [old EXCEPT !.total_transactions = @ + 1,
                              !.total_volume = @ + n]
           reg == [registry[s] EXCEPT
                     !.total_agents_served = IF new THEN @ + 1 ELSE @,
                     !.total_volume_received = @ + n]
           prf == CountedPayment(profile[a], n, new)
<1>1. /\ a \in DOMAIN profile /\ s \in DOMAIN registry
      /\ r \notin DOMAIN receipt
      /\ profile' = [profile EXCEPT ![a] = prf]
      /\ registry' = [registry EXCEPT ![s] = reg]
      /\ link' = Put(link, <<a, s>>, lnk)
      /\ receipt' = Put(receipt, r, <<a, s>>)
      /\ feedback' = feedback /\ slot' = slot
  BY DEF record_payment, RecordedPayment
<1>2. /\ profile[a] \in Profiles /\ registry[s] \in Registries /\ n \in Nat
      /\ <<a, s>> \in DOMAIN link => link[<<a, s>>] \in Links
  BY <1>1 DEF TypeOK, Partial
<1>3. /\ prf.owner = profile[a].owner
      /\ prf.total_transactions = profile[a].total_transactions + 1
      /\ prf.total_volume = profile[a].total_volume + n
      /\ prf.services_used = IF new THEN profile[a].services_used + 1
                                    ELSE profile[a].services_used
      /\ prf.total_feedback = profile[a].total_feedback
      /\ prf.active_negative = profile[a].active_negative
  <2>1. new \in BOOLEAN
    OBVIOUS
  <2> HIDE DEF new
  <2> QED BY <1>2, <2>1, PaymentEffect
<1>4. /\ reg.total_agents_served =
            IF new THEN registry[s].total_agents_served + 1
            ELSE registry[s].total_agents_served
      /\ reg.total_volume_received = registry[s].total_volume_received + n
  BY <1>2 DEF Registries
<1>5. lnk.total_volume = IF new THEN n ELSE link[<<a, s>>].total_volume + n
  BY <1>2 DEF Links, NewLink
<1>6. ~new => /\ lnk.last_feedback_slot = link[<<a, s>>].last_feedback_slot
              /\ lnk.has_received_feedback
                    = link[<<a, s>>].has_received_feedback
  BY <1>2 DEF Links
<1> HIDE DEF prf, reg, lnk
<1>7. profile'[a] = prf /\ registry'[s] = reg
  BY <1>1
<1>8. link'[<<a, s>>] = lnk
  BY <1>1 DEF Put
<1> QED BY <1>3, <1>4, <1>5, <1>6, <1>7, <1>8 DEF PaymentCounted

\* The accounts give_feedback opens, changes and leaves alone.
RatingFrame(a, s, r) ==
    /\ a \in DOMAIN profile /\ <<a, s>> \in DOMAIN link
    /\ r \in DOMAIN receipt /\ receipt[r] = <<a, s>>
    /\ r \notin DOMAIN feedback
    /\ ~RateLimited(link[<<a, s>>])
    /\ DOMAIN profile' = DOMAIN profile
    /\ \A b \in DOMAIN profile : b # a => profile'[b] = profile[b]
    /\ DOMAIN link' = DOMAIN link
    /\ \A p \in DOMAIN link : p # <<a, s>> => link'[p] = link[p]
    /\ DOMAIN feedback' = DOMAIN feedback \cup {r}
    /\ \A q \in DOMAIN feedback : feedback'[q] = feedback[q]
    /\ registry' = registry /\ receipt' = receipt /\ slot' = slot

\* give_feedback has the effect RatingFrame on the sets of accounts.
LEMMA RatingStep ==
    ASSUME TypeOK, NEW a \in Agents, NEW s \in Services, NEW r \in Receipts,
           NEW v \in Values, give_feedback(a, s, r, v)
    PROVE  RatingFrame(a, s, r)
<1>1. /\ \E prf : profile' = [profile EXCEPT ![a] = prf]
      /\ \E lnk : link' = [link EXCEPT ![<<a, s>>] = lnk]
      /\ \E fbk : feedback' = Put(feedback, r, fbk)
      /\ a \in DOMAIN profile /\ <<a, s>> \in DOMAIN link
      /\ r \in DOMAIN receipt /\ receipt[r] = <<a, s>>
      /\ r \notin DOMAIN feedback
      /\ ~RateLimited(link[<<a, s>>])
      /\ registry' = registry /\ receipt' = receipt /\ slot' = slot
  BY DEF give_feedback
<1>2. /\ DOMAIN profile' = DOMAIN profile
      /\ \A b \in DOMAIN profile : b # a => profile'[b] = profile[b]
  BY <1>1
<1>3. /\ DOMAIN link' = DOMAIN link
      /\ \A p \in DOMAIN link : p # <<a, s>> => link'[p] = link[p]
  BY <1>1
<1>4. /\ DOMAIN feedback' = DOMAIN feedback \cup {r}
      /\ \A q \in DOMAIN feedback : feedback'[q] = feedback[q]
  BY <1>1 DEF Put
<1> QED BY <1>1, <1>2, <1>3, <1>4 DEF RatingFrame

\* The counters and fields give_feedback sets.
RatingCounted(a, s, r, v) ==
    /\ profile'[a].owner = profile[a].owner
    /\ profile'[a].total_transactions = profile[a].total_transactions
    /\ profile'[a].total_volume = profile[a].total_volume
    /\ profile'[a].services_used = profile[a].services_used
    /\ profile'[a].total_feedback = profile[a].total_feedback + 1
    /\ profile'[a].active_negative =
          IF v < 0 THEN profile[a].active_negative + 1
          ELSE profile[a].active_negative
    /\ link'[<<a, s>>].total_volume = link[<<a, s>>].total_volume
    /\ link'[<<a, s>>].last_feedback_slot = slot
    /\ link'[<<a, s>>].has_received_feedback = TRUE
    /\ feedback'[r].pair = <<a, s>> /\ feedback'[r].value = v
    /\ feedback'[r].revoked = FALSE /\ feedback'[r].created_slot = slot

\* give_feedback sets the fields as RatingCounted says.
LEMMA RatingCounts ==
    ASSUME TypeOK, NEW a \in Agents, NEW s \in Services, NEW r \in Receipts,
           NEW v \in Values, give_feedback(a, s, r, v)
    PROVE  RatingCounted(a, s, r, v)
<1> DEFINE prf == CountedFeedback(profile[a], v)
           lnk == [link[<<a, s>>] EXCEPT !.last_feedback_slot = slot,
                                         !.has_received_feedback = TRUE]
           fbk == [pair |-> <<a, s>>, value |-> v, has_response |-> FALSE,
                   revoked |-> FALSE, created_slot |-> slot]
<1>1. /\ profile' = [profile EXCEPT ![a] = prf]
      /\ link' = [link EXCEPT ![<<a, s>>] = lnk]
      /\ feedback' = Put(feedback, r, fbk)
      /\ a \in DOMAIN profile /\ <<a, s>> \in DOMAIN link
  BY DEF give_feedback
<1>2. /\ profile[a] \in Profiles /\ link[<<a, s>>] \in Links /\ v \in Int
  BY <1>1 DEF TypeOK, Partial
<1>3. /\ prf.owner = profile[a].owner
      /\ prf.total_transactions = profile[a].total_transactions
      /\ prf.total_volume = profile[a].total_volume
      /\ prf.services_used = profile[a].services_used
      /\ prf.total_feedback = profile[a].total_feedback + 1
      /\ prf.active_negative = IF v < 0 THEN profile[a].active_negative + 1
                               ELSE profile[a].active_negative
  BY <1>2, FeedbackEffect
<1>4. /\ lnk.total_volume = link[<<a, s>>].total_volume
      /\ lnk.last_feedback_slot = slot
      /\ lnk.has_received_feedback = TRUE
  BY <1>2 DEF Links
<1>5. /\ fbk.pair = <<a, s>> /\ fbk.value = v /\ fbk.revoked = FALSE
      /\ fbk.created_slot = slot
  OBVIOUS
<1> HIDE DEF prf, lnk, fbk
<1>6. profile'[a] = prf /\ link'[<<a, s>>] = lnk
  BY <1>1
<1>7. feedback'[r] = fbk
  BY <1>1 DEF Put
<1> QED BY <1>3, <1>4, <1>5, <1>6, <1>7 DEF RatingCounted

\* The whole effect of revoke_feedback.
Revoked(a, s, r) ==
    /\ r \in DOMAIN feedback /\ feedback[r].pair = <<a, s>>
    /\ ~feedback[r].revoked
    /\ DOMAIN profile' = DOMAIN profile
    /\ \A b \in DOMAIN profile : b # a => profile'[b] = profile[b]
    /\ profile'[a].owner = profile[a].owner
    /\ profile'[a].total_transactions = profile[a].total_transactions
    /\ profile'[a].total_volume = profile[a].total_volume
    /\ profile'[a].services_used = profile[a].services_used
    /\ profile'[a].total_feedback = profile[a].total_feedback
    /\ profile'[a].active_negative =
          IF feedback[r].value < 0 THEN profile[a].active_negative - 1
          ELSE profile[a].active_negative
    /\ DOMAIN feedback' = DOMAIN feedback
    /\ feedback'[r].pair = <<a, s>>
    /\ feedback'[r].value = feedback[r].value
    /\ feedback'[r].revoked
    /\ feedback'[r].created_slot = feedback[r].created_slot
    /\ \A q \in DOMAIN feedback : q # r => feedback'[q] = feedback[q]
    /\ registry' = registry /\ link' = link /\ receipt' = receipt
    /\ slot' = slot

\* revoke_feedback has the effect Revoked when the agent has a profile.
LEMMA RevocationStep ==
    ASSUME TypeOK, NEW a \in Agents, NEW s \in Services, NEW r \in Receipts,
           revoke_feedback(a, s, r), a \in DOMAIN profile
    PROVE  Revoked(a, s, r)
<1> DEFINE prf == RevokedFeedback(profile[a], feedback[r].value)
           fbk == [feedback[r] EXCEPT !.revoked = TRUE]
<1>1. /\ profile' = [profile EXCEPT ![a] = prf]
      /\ feedback' = [feedback EXCEPT ![r] = fbk]
      /\ r \in DOMAIN feedback /\ feedback[r].pair = <<a, s>>
      /\ ~feedback[r].revoked
      /\ registry' = registry /\ link' = link /\ receipt' = receipt
      /\ slot' = slot
  BY DEF revoke_feedback
<1>2. profile[a] \in Profiles /\ feedback[r] \in Feedbacks
  BY <1>1 DEF TypeOK, Partial
<1>3. feedback[r].value \in -100..100
  BY <1>2 DEF Feedbacks
<1>4. /\ prf.owner = profile[a].owner
      /\ prf.total_transactions = profile[a].total_transactions
      /\ prf.total_volume = profile[a].total_volume
      /\ prf.services_used = profile[a].services_used
      /\ prf.total_feedback = profile[a].total_feedback
      /\ prf.active_negative =
            IF feedback[r].value < 0 THEN profile[a].active_negative - 1
            ELSE profile[a].active_negative
  BY <1>2, <1>3, RevocationEffect
<1>5. /\ fbk.pair = <<a, s>> /\ fbk.value = feedback[r].value /\ fbk.revoked
      /\ fbk.created_slot = feedback[r].created_slot
  BY <1>1, <1>2 DEF Feedbacks
<1> HIDE DEF prf, fbk
<1>6. /\ DOMAIN profile' = DOMAIN profile /\ profile'[a] = prf
      /\ \A b \in DOMAIN profile : b # a => profile'[b] = profile[b]
      /\ DOMAIN feedback' = DOMAIN feedback /\ feedback'[r] = fbk
      /\ \A q \in DOMAIN feedback : q # r => feedback'[q] = feedback[q]
  BY <1>1
<1> QED BY <1>1, <1>4, <1>5, <1>6 DEF Revoked

\* The steps that move no counter and open neither link nor receipt.
Quiet ==
    \/ \E a \in Agents, o \in Owners : initialize_agent(a, o)
    \/ \E s \in Services : register_service(s)
    \/ \E s \in Services, b \in BOOLEAN : set_service_active(s, b)
    \/ \E a \in Agents : compute_score(a)
    \/ \E a \in Agents, r \in Receipts : append_response(a, r)
    \/ AdvanceSlot
    \/ UNCHANGED vars

\* Profiles p and q agree on owner and counters.
SameCounts(p, q) ==
    /\ q.owner = p.owner /\ q.total_transactions = p.total_transactions
    /\ q.total_volume = p.total_volume /\ q.services_used = p.services_used
    /\ q.total_feedback = p.total_feedback
    /\ q.active_negative = p.active_negative

\* A profile with all counters at 0.
Untouched(p) ==
    /\ p.total_transactions = 0 /\ p.total_volume = 0 /\ p.services_used = 0
    /\ p.total_feedback = 0 /\ p.active_negative = 0

ProfilesKept ==
    /\ DOMAIN profile \subseteq DOMAIN profile'
    /\ \A a \in DOMAIN profile : SameCounts(profile[a], profile'[a])
    /\ \A a \in DOMAIN profile' \ DOMAIN profile : Untouched(profile'[a])

RegistriesKept ==
    /\ DOMAIN registry \subseteq DOMAIN registry'
    /\ \A s \in DOMAIN registry :
          /\ registry'[s].total_agents_served = registry[s].total_agents_served
          /\ registry'[s].total_volume_received
                = registry[s].total_volume_received
    /\ \A s \in DOMAIN registry' \ DOMAIN registry :
          /\ registry'[s].total_agents_served = 0
          /\ registry'[s].total_volume_received = 0

FeedbackKept ==
    /\ DOMAIN feedback' = DOMAIN feedback
    /\ \A r \in DOMAIN feedback :
          /\ feedback'[r].pair = feedback[r].pair
          /\ feedback'[r].value = feedback[r].value
          /\ feedback'[r].revoked = feedback[r].revoked
          /\ feedback'[r].created_slot = feedback[r].created_slot

\* A quiet step keeps counters, ratings, links and receipts, and a profile
\* or registry it opens starts at 0.
LEMMA QuietStep ==
    ASSUME TypeOK, Quiet
    PROVE  /\ ProfilesKept /\ RegistriesKept /\ FeedbackKept
           /\ link' = link /\ receipt' = receipt
<1>1. ASSUME NEW a \in Agents, NEW o \in Owners, initialize_agent(a, o)
      PROVE  ProfilesKept
  <2> DEFINE prf == NewProfile(o, slot)
  <2>1. Untouched(prf)
    BY DEF Untouched, NewProfile
  <2> HIDE DEF prf
  <2>2. profile' = Put(profile, a, prf) /\ a \notin DOMAIN profile
    BY <1>1 DEF initialize_agent, prf
  <2> QED BY <2>1, <2>2 DEF Put, ProfilesKept, SameCounts
<1>2. ASSUME NEW a \in Agents, compute_score(a) PROVE ProfilesKept
  <2> DEFINE prf == [profile[a] EXCEPT !.score = compute(profile[a], slot)]
  <2>1. profile' = [profile EXCEPT ![a] = prf] /\ a \in DOMAIN profile
    BY <1>2 DEF compute_score
  <2>2. profile[a] \in Profiles
    BY <2>1 DEF TypeOK, Partial
  <2>3. SameCounts(profile[a], prf)
    BY <2>2 DEF SameCounts, Profiles
  <2> HIDE DEF prf
  <2> QED BY <2>1, <2>3 DEF ProfilesKept, SameCounts
<1>3. ASSUME profile' = profile PROVE ProfilesKept
  BY <1>3 DEF ProfilesKept, SameCounts
<1>4. ASSUME NEW s \in Services, register_service(s) PROVE RegistriesKept
  BY <1>4 DEF register_service, Put, RegistriesKept
<1>5. ASSUME NEW s \in Services, NEW b \in BOOLEAN, set_service_active(s, b)
      PROVE  RegistriesKept
  <2>1. registry[s] \in Registries
    BY <1>5 DEF set_service_active, TypeOK, Partial
  <2> QED BY <1>5, <2>1 DEF set_service_active, RegistriesKept, Registries
<1>6. ASSUME registry' = registry PROVE RegistriesKept
  BY <1>6 DEF RegistriesKept
<1>7. ASSUME NEW a \in Agents, NEW r \in Receipts, append_response(a, r)
      PROVE  FeedbackKept
  <2>1. feedback[r] \in Feedbacks
    BY <1>7 DEF append_response, TypeOK, Partial
  <2> QED BY <1>7, <2>1 DEF append_response, FeedbackKept, Feedbacks
<1>8. ASSUME feedback' = feedback PROVE FeedbackKept
  BY <1>8 DEF FeedbackKept
<1>9. link' = link /\ receipt' = receipt
  BY DEF Quiet, initialize_agent, register_service, set_service_active,
         compute_score, append_response, AdvanceSlot, vars
<1>10. ProfilesKept
  BY <1>1, <1>2, <1>3 DEF Quiet, register_service, set_service_active,
     append_response, AdvanceSlot, vars
<1>11. RegistriesKept
  BY <1>4, <1>5, <1>6 DEF Quiet, initialize_agent, compute_score,
     append_response, AdvanceSlot, vars
<1>12. FeedbackKept
  BY <1>7, <1>8 DEF Quiet, initialize_agent, register_service,
     set_service_active, compute_score, AdvanceSlot, vars
<1> QED BY <1>9, <1>10, <1>11, <1>12

\* Every step is quiet, a payment, a rating or a revocation.
LEMMA Steps ==
    ASSUME [Next]_vars
    PROVE  \/ Quiet
           \/ \E a \in Agents, s \in Services, r \in Receipts, n \in Amounts :
                 record_payment(a, s, r, n)
           \/ \E a \in Agents, s \in Services, r \in Receipts, v \in Values :
                 give_feedback(a, s, r, v)
           \/ \E a \in Agents, s \in Services, r \in Receipts :
                 revoke_feedback(a, s, r)
BY DEF Next, Quiet

----------------------------------------------------------------------------
\* Only finitely many accounts exist; a link has both its ends, a receipt
\* its link: no instruction closes an account.
AccountsLinked ==
    /\ IsFiniteSet(DOMAIN link) /\ IsFiniteSet(DOMAIN receipt)
    /\ IsFiniteSet(DOMAIN feedback)
    /\ \A p \in DOMAIN link :
          p[1] \in DOMAIN profile /\ p[2] \in DOMAIN registry
    /\ \A r \in DOMAIN receipt : receipt[r] \in DOMAIN link

\* A link remembers its latest rating: the flag is set once there is one and
\* no rating of the pair is later than last_feedback_slot.
LastRatingKept ==
    \A r \in DOMAIN feedback :
        /\ feedback[r].pair \in DOMAIN link
        /\ link[feedback[r].pair].has_received_feedback
        /\ feedback[r].created_slot <= link[feedback[r].pair].last_feedback_slot

\* No account exists at first.
LEMMA InitLinked == Init => AccountsLinked
BY FS_EmptySet DEF Init, AccountsLinked, NoAccounts

\* record_payment opens a link only between accounts that exist.
LEMMA NextLinked ==
    TypeOK /\ AccountsLinked /\ [Next]_vars => AccountsLinked'
<1> SUFFICES ASSUME TypeOK, AccountsLinked, [Next]_vars PROVE AccountsLinked'
  OBVIOUS
<1>1. CASE Quiet
  <2>1. ProfilesKept /\ RegistriesKept /\ FeedbackKept
        /\ link' = link /\ receipt' = receipt
    BY <1>1, QuietStep
  <2> QED BY <2>1 DEF AccountsLinked, ProfilesKept, RegistriesKept, FeedbackKept
<1>2. ASSUME NEW a \in Agents, NEW s \in Services, NEW r \in Receipts,
             NEW n \in Amounts, record_payment(a, s, r, n)
      PROVE  AccountsLinked'
  <2>1. /\ a \in DOMAIN profile /\ s \in DOMAIN registry
        /\ DOMAIN profile' = DOMAIN profile
        /\ DOMAIN registry' = DOMAIN registry
        /\ DOMAIN link' = DOMAIN link \cup {<<a, s>>}
        /\ DOMAIN receipt' = DOMAIN receipt \cup {r}
        /\ receipt'[r] = <<a, s>>
        /\ \A q \in DOMAIN receipt : receipt'[q] = receipt[q]
        /\ feedback' = feedback
    <3>1. PaymentFrame(a, s, r)
      BY <1>2, PaymentStep
    <3> QED BY <3>1 DEF PaymentFrame
  <2>2. IsFiniteSet(DOMAIN link') /\ IsFiniteSet(DOMAIN receipt')
    <3>1. IsFiniteSet(DOMAIN link) /\ IsFiniteSet(DOMAIN receipt)
      BY DEF AccountsLinked
    <3>2. /\ IsFiniteSet(DOMAIN link \cup {<<a, s>>})
          /\ IsFiniteSet(DOMAIN receipt \cup {r})
      BY <3>1, FS_AddElement
    <3> QED BY <2>1, <3>2
  <2>3. \A p \in DOMAIN link' :
            p[1] \in DOMAIN profile' /\ p[2] \in DOMAIN registry'
    BY <2>1 DEF AccountsLinked
  <2>4. \A q \in DOMAIN receipt' : receipt'[q] \in DOMAIN link'
    BY <2>1 DEF AccountsLinked
  <2> QED BY <2>1, <2>2, <2>3, <2>4 DEF AccountsLinked
<1>3. ASSUME NEW a \in Agents, NEW s \in Services, NEW r \in Receipts,
             NEW v \in Values, give_feedback(a, s, r, v)
      PROVE  AccountsLinked'
  <2>1. /\ DOMAIN profile' = DOMAIN profile
        /\ DOMAIN link' = DOMAIN link
        /\ DOMAIN feedback' = DOMAIN feedback \cup {r}
        /\ registry' = registry /\ receipt' = receipt
    <3>1. RatingFrame(a, s, r)
      BY <1>3, RatingStep
    <3> QED BY <3>1 DEF RatingFrame
  <2>2. IsFiniteSet(DOMAIN feedback')
    BY <2>1, FS_AddElement DEF AccountsLinked
  <2> QED BY <2>1, <2>2 DEF AccountsLinked
<1>4. ASSUME NEW a \in Agents, NEW s \in Services, NEW r \in Receipts,
             revoke_feedback(a, s, r)
      PROVE  AccountsLinked'
  BY <1>4 DEF revoke_feedback, AccountsLinked
<1> QED BY <1>1, <1>2, <1>3, <1>4, Steps

\* A rated agent has its link and its profile, so revoke_feedback finds it.
LEMMA RatedAgentExists ==
    ASSUME TypeOK, AccountsLinked, RatingsEarned, NEW r \in DOMAIN feedback
    PROVE  /\ feedback[r].pair \in DOMAIN link
           /\ feedback[r].pair[1] \in DOMAIN profile
BY DEF AccountsLinked, RatingsEarned

\* Every instruction keeps RatingsEarned: the owner of a profile is set once
\* and a receipt names one pair for good.
LEMMA NextEarned ==
    TypeOK /\ AccountsLinked /\ RatingsEarned /\ [Next]_vars => RatingsEarned'
<1> SUFFICES ASSUME TypeOK, AccountsLinked, RatingsEarned, [Next]_vars,
                    NEW q \in DOMAIN feedback'
             PROVE  /\ q \in DOMAIN receipt' /\ receipt'[q] = feedback'[q].pair
                    /\ feedback'[q].pair[2] # feedback'[q].pair[1]
                    /\ feedback'[q].pair[2] # profile'[feedback'[q].pair[1]].owner
  BY DEF RatingsEarned
<1>0. ASSUME NEW r \in DOMAIN feedback
      PROVE  /\ r \in DOMAIN receipt /\ receipt[r] = feedback[r].pair
             /\ feedback[r].pair[1] \in DOMAIN profile
             /\ feedback[r].pair[2] # feedback[r].pair[1]
             /\ feedback[r].pair[2] # profile[feedback[r].pair[1]].owner
  BY <1>0, RatedAgentExists DEF RatingsEarned
<1>1. CASE Quiet
  <2>1. ProfilesKept /\ FeedbackKept /\ receipt' = receipt
    BY <1>1, QuietStep
  <2> QED BY <1>0, <2>1 DEF ProfilesKept, SameCounts, FeedbackKept
<1>2. ASSUME NEW a \in Agents, NEW s \in Services, NEW r \in Receipts,
             NEW n \in Amounts, record_payment(a, s, r, n)
      PROVE  /\ q \in DOMAIN receipt' /\ receipt'[q] = feedback'[q].pair
             /\ feedback'[q].pair[2] # feedback'[q].pair[1]
             /\ feedback'[q].pair[2] # profile'[feedback'[q].pair[1]].owner
  <2>1. /\ DOMAIN receipt' = DOMAIN receipt \cup {r}
        /\ \A t \in DOMAIN receipt : receipt'[t] = receipt[t]
        /\ \A b \in DOMAIN profile : b # a => profile'[b] = profile[b]
        /\ feedback' = feedback
    <3>1. PaymentFrame(a, s, r)
      BY <1>2, PaymentStep
    <3> QED BY <3>1 DEF PaymentFrame
  <2>2. profile'[a].owner = profile[a].owner
    <3>1. PaymentCounted(a, s, n)
      BY <1>2, PaymentCounts
    <3> QED BY <3>1 DEF PaymentCounted
  <2> QED BY <1>0, <2>1, <2>2
<1>3. ASSUME NEW a \in Agents, NEW s \in Services, NEW r \in Receipts,
             NEW v \in Values, give_feedback(a, s, r, v)
      PROVE  /\ q \in DOMAIN receipt' /\ receipt'[q] = feedback'[q].pair
             /\ feedback'[q].pair[2] # feedback'[q].pair[1]
             /\ feedback'[q].pair[2] # profile'[feedback'[q].pair[1]].owner
  <2>1. /\ r \in DOMAIN receipt /\ receipt[r] = <<a, s>>
        /\ s # a /\ s # profile[a].owner /\ receipt' = receipt
    BY <1>3 DEF give_feedback, MayRate
  <2>2. /\ DOMAIN feedback' = DOMAIN feedback \cup {r}
        /\ \A t \in DOMAIN feedback : feedback'[t] = feedback[t]
        /\ \A b \in DOMAIN profile : b # a => profile'[b] = profile[b]
    <3>1. RatingFrame(a, s, r)
      BY <1>3, RatingStep
    <3> QED BY <3>1 DEF RatingFrame
  <2>3. feedback'[r].pair = <<a, s>> /\ profile'[a].owner = profile[a].owner
    <3>1. RatingCounted(a, s, r, v)
      BY <1>3, RatingCounts
    <3> QED BY <3>1 DEF RatingCounted
  <2>4. CASE q = r
    BY <2>1, <2>2, <2>3, <2>4
  <2>5. CASE q # r
    BY <1>0, <2>1, <2>2, <2>3, <2>5
  <2> QED BY <2>4, <2>5
<1>4. ASSUME NEW a \in Agents, NEW s \in Services, NEW r \in Receipts,
             revoke_feedback(a, s, r)
      PROVE  /\ q \in DOMAIN receipt' /\ receipt'[q] = feedback'[q].pair
             /\ feedback'[q].pair[2] # feedback'[q].pair[1]
             /\ feedback'[q].pair[2] # profile'[feedback'[q].pair[1]].owner
  <2>0. a \in DOMAIN profile
    BY <1>0, <1>4 DEF revoke_feedback
  <2>1. /\ r \in DOMAIN feedback /\ feedback[r].pair = <<a, s>>
        /\ DOMAIN feedback' = DOMAIN feedback
        /\ feedback'[r].pair = <<a, s>>
        /\ \A t \in DOMAIN feedback : t # r => feedback'[t] = feedback[t]
        /\ \A b \in DOMAIN profile : b # a => profile'[b] = profile[b]
        /\ profile'[a].owner = profile[a].owner
        /\ receipt' = receipt
    <3>1. Revoked(a, s, r)
      BY <1>4, <2>0, RevocationStep
    <3> QED BY <3>1 DEF Revoked
  <2>2. q \in DOMAIN feedback /\ feedback'[q].pair = feedback[q].pair
    BY <2>1
  <2> QED BY <1>0, <2>1, <2>2
<1> QED BY <1>1, <1>2, <1>3, <1>4, Steps

\* Every instruction keeps LastRatingKept.
LEMMA NextLastRating ==
    TypeOK /\ AccountsLinked /\ RatingsEarned /\ LastRatingKept /\ [Next]_vars
      => LastRatingKept'
<1> SUFFICES ASSUME TypeOK, AccountsLinked, RatingsEarned, LastRatingKept,
                    [Next]_vars
             PROVE  LastRatingKept'
  OBVIOUS
<1>1. CASE Quiet
  <2>1. FeedbackKept /\ link' = link
    BY <1>1, QuietStep
  <2> QED BY <2>1 DEF FeedbackKept, LastRatingKept
<1>2. ASSUME NEW a \in Agents, NEW s \in Services, NEW r \in Receipts,
             NEW n \in Amounts, record_payment(a, s, r, n)
      PROVE  LastRatingKept'
  <2>1. /\ DOMAIN link' = DOMAIN link \cup {<<a, s>>}
        /\ \A p \in DOMAIN link : p # <<a, s>> => link'[p] = link[p]
        /\ feedback' = feedback
    <3>1. PaymentFrame(a, s, r)
      BY <1>2, PaymentStep
    <3> QED BY <3>1 DEF PaymentFrame
  <2>2. <<a, s>> \in DOMAIN link =>
          /\ link'[<<a, s>>].last_feedback_slot
                = link[<<a, s>>].last_feedback_slot
          /\ link'[<<a, s>>].has_received_feedback
                = link[<<a, s>>].has_received_feedback
    <3>1. PaymentCounted(a, s, n)
      BY <1>2, PaymentCounts
    <3> QED BY <3>1 DEF PaymentCounted
  <2> QED BY <2>1, <2>2 DEF LastRatingKept
<1>3. ASSUME NEW a \in Agents, NEW s \in Services, NEW r \in Receipts,
             NEW v \in Values, give_feedback(a, s, r, v)
      PROVE  LastRatingKept'
  <2>1. /\ <<a, s>> \in DOMAIN link
        /\ DOMAIN link' = DOMAIN link
        /\ \A p \in DOMAIN link : p # <<a, s>> => link'[p] = link[p]
        /\ DOMAIN feedback' = DOMAIN feedback \cup {r}
        /\ \A q \in DOMAIN feedback : feedback'[q] = feedback[q]
        /\ ~RateLimited(link[<<a, s>>])
    <3>1. RatingFrame(a, s, r)
      BY <1>3, RatingStep
    <3> QED BY <3>1 DEF RatingFrame
  <2>0. /\ link'[<<a, s>>].last_feedback_slot = slot
        /\ link'[<<a, s>>].has_received_feedback
        /\ feedback'[r].pair = <<a, s>> /\ feedback'[r].created_slot = slot
    <3>1. RatingCounted(a, s, r, v)
      BY <1>3, RatingCounts
    <3> QED BY <3>1 DEF RatingCounted
  <2>2. slot \in Int
    BY DEF TypeOK, Slots
  <2>3. ASSUME NEW q \in DOMAIN feedback
        PROVE  /\ feedback'[q].pair \in DOMAIN link'
               /\ link'[feedback'[q].pair].has_received_feedback
               /\ feedback'[q].created_slot
                     <= link'[feedback'[q].pair].last_feedback_slot
    <3>1. /\ feedback[q].pair \in DOMAIN link
          /\ link[feedback[q].pair].has_received_feedback
          /\ feedback[q].created_slot
                <= link[feedback[q].pair].last_feedback_slot
      BY <2>3 DEF LastRatingKept
    <3>2. CASE feedback[q].pair # <<a, s>>
      BY <2>1, <3>1, <3>2
    <3>3. CASE feedback[q].pair = <<a, s>>
      <4>1. /\ feedback[q] \in Feedbacks /\ link[<<a, s>>] \in Links
        BY <2>1 DEF TypeOK, Partial
      <4>2. /\ feedback[q].created_slot \in Int
            /\ link[<<a, s>>].last_feedback_slot \in Int
        BY <4>1 DEF Feedbacks, Links, Slots
      <4>3. slot - link[<<a, s>>].last_feedback_slot >= RateLimit
        BY <2>1, <2>2, <3>1, <3>3, <4>2 DEF RateLimited
      <4>4. feedback[q].created_slot <= slot
        BY <2>2, <3>1, <3>3, <4>2, <4>3
      <4> QED BY <2>0, <2>1, <3>3, <4>4
    <3> QED BY <3>2, <3>3
  <2> QED BY <2>0, <2>1, <2>2, <2>3 DEF LastRatingKept
<1>4. ASSUME NEW a \in Agents, NEW s \in Services, NEW r \in Receipts,
             revoke_feedback(a, s, r)
      PROVE  LastRatingKept'
  <2>0. a \in DOMAIN profile
    BY <1>4, RatedAgentExists DEF revoke_feedback
  <2>1. /\ r \in DOMAIN feedback /\ feedback[r].pair = <<a, s>>
        /\ DOMAIN feedback' = DOMAIN feedback
        /\ feedback'[r].pair = <<a, s>>
        /\ feedback'[r].created_slot = feedback[r].created_slot
        /\ \A q \in DOMAIN feedback : q # r => feedback'[q] = feedback[q]
        /\ link' = link
    <3>1. Revoked(a, s, r)
      BY <1>4, <2>0, RevocationStep
    <3> QED BY <3>1 DEF Revoked
  <2> QED BY <2>1 DEF LastRatingKept
<1> QED BY <1>1, <1>2, <1>3, <1>4, Steps

\* Every instruction keeps RatingsSpaced: give_feedback compares with the
\* latest rating, and by LastRatingKept that bounds all of them.
LEMMA NextSpaced ==
    /\ TypeOK /\ AccountsLinked /\ RatingsEarned /\ LastRatingKept
    /\ RatingsSpaced /\ [Next]_vars
    => RatingsSpaced'
<1> SUFFICES ASSUME TypeOK, AccountsLinked, RatingsEarned, LastRatingKept,
                    RatingsSpaced, [Next]_vars
             PROVE  RatingsSpaced'
  OBVIOUS
<1>1. CASE Quiet
  <2>1. FeedbackKept
    BY <1>1, QuietStep
  <2> QED BY <2>1 DEF FeedbackKept, RatingsSpaced
<1>2. ASSUME NEW a \in Agents, NEW s \in Services, NEW r \in Receipts,
             NEW n \in Amounts, record_payment(a, s, r, n)
      PROVE  RatingsSpaced'
  <2>1. feedback' = feedback
    <3>1. PaymentFrame(a, s, r)
      BY <1>2, PaymentStep
    <3> QED BY <3>1 DEF PaymentFrame
  <2> QED BY <2>1 DEF RatingsSpaced
<1>3. ASSUME NEW a \in Agents, NEW s \in Services, NEW r \in Receipts,
             NEW v \in Values, give_feedback(a, s, r, v)
      PROVE  RatingsSpaced'
  <2>1. /\ <<a, s>> \in DOMAIN link
        /\ DOMAIN feedback' = DOMAIN feedback \cup {r}
        /\ \A q \in DOMAIN feedback : feedback'[q] = feedback[q]
        /\ ~RateLimited(link[<<a, s>>])
    <3>1. RatingFrame(a, s, r)
      BY <1>3, RatingStep
    <3> QED BY <3>1 DEF RatingFrame
  <2>0. feedback'[r].pair = <<a, s>> /\ feedback'[r].created_slot = slot
    <3>1. RatingCounted(a, s, r, v)
      BY <1>3, RatingCounts
    <3> QED BY <3>1 DEF RatingCounted
  <2>2. ASSUME NEW q \in DOMAIN feedback, feedback[q].pair = <<a, s>>
        PROVE  slot - feedback[q].created_slot >= RateLimit
    <3>1. /\ link[<<a, s>>].has_received_feedback
          /\ feedback[q].created_slot <= link[<<a, s>>].last_feedback_slot
      BY <2>2 DEF LastRatingKept
    <3>2. /\ feedback[q] \in Feedbacks /\ link[<<a, s>>] \in Links
      BY <2>1 DEF TypeOK, Partial
    <3>3. /\ feedback[q].created_slot \in Int /\ slot \in Int
          /\ link[<<a, s>>].last_feedback_slot \in Int
      BY <3>2 DEF Feedbacks, Links, Slots, TypeOK
    <3>4. slot - link[<<a, s>>].last_feedback_slot >= RateLimit
      BY <2>1, <3>1, <3>3 DEF RateLimited
    <3> QED BY <3>1, <3>3, <3>4
  <2>3. ASSUME NEW q \in DOMAIN feedback', NEW t \in DOMAIN feedback',
               q # t, feedback'[q].pair = feedback'[t].pair
        PROVE  \/ feedback'[q].created_slot - feedback'[t].created_slot
                     >= RateLimit
               \/ feedback'[t].created_slot - feedback'[q].created_slot
                     >= RateLimit
    <3>1. CASE q # r /\ t # r
      BY <2>1, <2>3, <3>1 DEF RatingsSpaced
    <3>2. CASE q = r
      BY <2>0, <2>1, <2>2, <2>3, <3>2
    <3>3. CASE t = r
      BY <2>0, <2>1, <2>2, <2>3, <3>3
    <3> QED BY <3>1, <3>2, <3>3
  <2> QED BY <2>3 DEF RatingsSpaced
<1>4. ASSUME NEW a \in Agents, NEW s \in Services, NEW r \in Receipts,
             revoke_feedback(a, s, r)
      PROVE  RatingsSpaced'
  <2>0. a \in DOMAIN profile
    BY <1>4, RatedAgentExists DEF revoke_feedback
  <2>1. /\ r \in DOMAIN feedback /\ feedback[r].pair = <<a, s>>
        /\ DOMAIN feedback' = DOMAIN feedback
        /\ feedback'[r].pair = <<a, s>>
        /\ feedback'[r].created_slot = feedback[r].created_slot
        /\ \A q \in DOMAIN feedback : q # r => feedback'[q] = feedback[q]
    <3>1. Revoked(a, s, r)
      BY <1>4, <2>0, RevocationStep
    <3> QED BY <3>1 DEF Revoked
  <2>2. \A q \in DOMAIN feedback :
          /\ feedback'[q].pair = feedback[q].pair
          /\ feedback'[q].created_slot = feedback[q].created_slot
    BY <2>1
  <2> QED BY <2>1, <2>2 DEF RatingsSpaced
<1> QED BY <1>1, <1>2, <1>3, <1>4, Steps

----------------------------------------------------------------------------
\* The records counted are finitely many.
LEMMA FeedbackSets ==
    ASSUME AccountsLinked, NEW a
    PROVE  IsFiniteSet(FeedbackOf(a)) /\ IsFiniteSet(StandingNegatives(a))
<1>1. FeedbackOf(a) \subseteq DOMAIN feedback
      /\ StandingNegatives(a) \subseteq DOMAIN feedback
  BY DEF FeedbackOf, StandingNegatives
<1> QED BY <1>1, FS_Subset DEF AccountsLinked

\* Every instruction keeps FeedbackCounted.
LEMMA NextCounted ==
    /\ TypeOK /\ AccountsLinked /\ RatingsEarned /\ FeedbackCounted
    /\ [Next]_vars
    => FeedbackCounted'
<1> SUFFICES ASSUME TypeOK, AccountsLinked, RatingsEarned, FeedbackCounted,
                    [Next]_vars, NEW b \in DOMAIN profile'
             PROVE  /\ profile'[b].total_feedback = Cardinality(FeedbackOf(b)')
                    /\ profile'[b].active_negative
                          = Cardinality(StandingNegatives(b)')
  BY DEF FeedbackCounted
<1> DEFINE Goal == /\ profile'[b].total_feedback = Cardinality(FeedbackOf(b)')
                   /\ profile'[b].active_negative
                         = Cardinality(StandingNegatives(b)')
<1>1. CASE Quiet
  <2>1. ProfilesKept /\ FeedbackKept
    BY <1>1, QuietStep
  <2>2. /\ FeedbackOf(b)' = FeedbackOf(b)
        /\ StandingNegatives(b)' = StandingNegatives(b)
    BY <2>1 DEF FeedbackOf, StandingNegatives, FeedbackKept
  <2>3. CASE b \in DOMAIN profile
    BY <2>1, <2>2, <2>3 DEF FeedbackCounted, ProfilesKept, SameCounts
  <2>4. CASE b \notin DOMAIN profile
    <3>1. FeedbackOf(b) = {} /\ StandingNegatives(b) = {}
      BY <2>4, RatedAgentExists DEF FeedbackOf, StandingNegatives
    <3>2. Untouched(profile'[b])
      BY <2>1, <2>4 DEF ProfilesKept
    <3> QED BY <2>2, <3>1, <3>2, FS_EmptySet DEF Untouched
  <2> QED BY <2>3, <2>4
<1>2. ASSUME NEW a \in Agents, NEW s \in Services, NEW r \in Receipts,
             NEW n \in Amounts, record_payment(a, s, r, n)
      PROVE  Goal
  <2>1. /\ DOMAIN profile' = DOMAIN profile /\ feedback' = feedback
        /\ b # a => profile'[b] = profile[b]
    <3>1. PaymentFrame(a, s, r)
      BY <1>2, PaymentStep
    <3> QED BY <3>1 DEF PaymentFrame
  <2>2. /\ profile'[a].total_feedback = profile[a].total_feedback
        /\ profile'[a].active_negative = profile[a].active_negative
    <3>1. PaymentCounted(a, s, n)
      BY <1>2, PaymentCounts
    <3> QED BY <3>1 DEF PaymentCounted
  <2>3. /\ FeedbackOf(b)' = FeedbackOf(b)
        /\ StandingNegatives(b)' = StandingNegatives(b)
    BY <2>1 DEF FeedbackOf, StandingNegatives
  <2> QED BY <2>1, <2>2, <2>3 DEF FeedbackCounted
<1>3. ASSUME NEW a \in Agents, NEW s \in Services, NEW r \in Receipts,
             NEW v \in Values, give_feedback(a, s, r, v)
      PROVE  Goal
  <2>1. /\ r \notin DOMAIN feedback
        /\ DOMAIN feedback' = DOMAIN feedback \cup {r}
        /\ \A q \in DOMAIN feedback : feedback'[q] = feedback[q]
        /\ DOMAIN profile' = DOMAIN profile
        /\ b # a => profile'[b] = profile[b]
    <3>1. RatingFrame(a, s, r)
      BY <1>3, RatingStep
    <3> QED BY <3>1 DEF RatingFrame
  <2>2. /\ feedback'[r].pair = <<a, s>> /\ feedback'[r].value = v
        /\ feedback'[r].revoked = FALSE
        /\ profile'[a].total_feedback = profile[a].total_feedback + 1
        /\ profile'[a].active_negative =
              IF v < 0 THEN profile[a].active_negative + 1
              ELSE profile[a].active_negative
    <3>1. RatingCounted(a, s, r, v)
      BY <1>3, RatingCounts
    <3> QED BY <3>1 DEF RatingCounted
  <2>3. CASE b # a
    <3>1. /\ FeedbackOf(b)' = FeedbackOf(b)
          /\ StandingNegatives(b)' = StandingNegatives(b)
      BY <2>1, <2>2, <2>3 DEF FeedbackOf, StandingNegatives
    <3> QED BY <2>1, <2>3, <3>1 DEF FeedbackCounted
  <2>4. CASE b = a
    <3>1. /\ FeedbackOf(a)' = FeedbackOf(a) \cup {r}
          /\ StandingNegatives(a)' = IF v < 0 THEN StandingNegatives(a) \cup {r}
                                     ELSE StandingNegatives(a)
      BY <2>1, <2>2 DEF FeedbackOf, StandingNegatives
    <3>2. /\ r \notin FeedbackOf(a) /\ r \notin StandingNegatives(a)
          /\ IsFiniteSet(FeedbackOf(a)) /\ IsFiniteSet(StandingNegatives(a))
      BY <2>1, FeedbackSets DEF FeedbackOf, StandingNegatives
    <3>3. /\ Cardinality(FeedbackOf(a) \cup {r})
                = Cardinality(FeedbackOf(a)) + 1
          /\ Cardinality(StandingNegatives(a) \cup {r})
                = Cardinality(StandingNegatives(a)) + 1
      BY <3>2, FS_AddElement
    <3> QED BY <2>1, <2>2, <2>4, <3>1, <3>3 DEF FeedbackCounted
  <2> QED BY <2>3, <2>4
<1>4. ASSUME NEW a \in Agents, NEW s \in Services, NEW r \in Receipts,
             revoke_feedback(a, s, r)
      PROVE  Goal
  <2>0. a \in DOMAIN profile
    BY <1>4, RatedAgentExists DEF revoke_feedback
  <2>1. /\ r \in DOMAIN feedback /\ feedback[r].pair = <<a, s>>
        /\ ~feedback[r].revoked
        /\ DOMAIN feedback' = DOMAIN feedback
        /\ feedback'[r].pair = <<a, s>>
        /\ feedback'[r].value = feedback[r].value /\ feedback'[r].revoked
        /\ \A q \in DOMAIN feedback : q # r => feedback'[q] = feedback[q]
    <3>1. Revoked(a, s, r)
      BY <1>4, <2>0, RevocationStep
    <3> QED BY <3>1 DEF Revoked
  <2>2. /\ DOMAIN profile' = DOMAIN profile
        /\ b # a => profile'[b] = profile[b]
        /\ profile'[a].total_feedback = profile[a].total_feedback
        /\ profile'[a].active_negative =
              IF feedback[r].value < 0 THEN profile[a].active_negative - 1
              ELSE profile[a].active_negative
    <3>1. Revoked(a, s, r)
      BY <1>4, <2>0, RevocationStep
    <3> QED BY <3>1 DEF Revoked
  <2>3. FeedbackOf(b)' = FeedbackOf(b)
    BY <2>1 DEF FeedbackOf
  <2>4. StandingNegatives(b)' = StandingNegatives(b) \ {r}
    BY <2>1 DEF FeedbackOf, StandingNegatives
  <2>5. CASE b = a /\ feedback[r].value < 0
    <3>1. r \in StandingNegatives(a)
      BY <2>1, <2>5 DEF StandingNegatives, FeedbackOf
    <3>3. IsFiniteSet(StandingNegatives(a))
      BY FeedbackSets
    <3>2. Cardinality(StandingNegatives(a) \ {r})
            = Cardinality(StandingNegatives(a)) - 1
      BY <3>1, <3>3, FS_RemoveElement
    <3> QED BY <2>2, <2>3, <2>4, <2>5, <3>2 DEF FeedbackCounted
  <2>6. CASE b # a \/ ~(feedback[r].value < 0)
    <3>1. r \notin StandingNegatives(b)
      BY <2>1, <2>6 DEF StandingNegatives, FeedbackOf
    <3>2. StandingNegatives(b)' = StandingNegatives(b)
      BY <2>4, <3>1
    <3> QED BY <2>2, <2>3, <2>6, <3>2 DEF FeedbackCounted
  <2> QED BY <2>5, <2>6
<1> QED BY <1>1, <1>2, <1>3, <1>4, Steps

----------------------------------------------------------------------------
\* The volumes of links are natural numbers.
LEMMA LinkVolumesType ==
    ASSUME TypeOK
    PROVE  \A p \in DOMAIN link :
              LinkVolumes[p] \in Nat /\ LinkVolumes[p] = link[p].total_volume
<1> SUFFICES ASSUME NEW p \in DOMAIN link
             PROVE  LinkVolumes[p] \in Nat /\ LinkVolumes[p] = link[p].total_volume
  OBVIOUS
<1>1. link[p] \in Links
  BY DEF TypeOK, Partial
<1>2. link[p].total_volume \in Nat
  BY <1>1 DEF Links
<1> QED BY <1>2 DEF LinkVolumes

\* What a payment does to the sums over a set L of links.
PaymentSummed(a, s, n, L) ==
    /\ <<a, s>> \notin L =>
          SumOver(LinkVolumes', L) = SumOver(LinkVolumes, L)
    /\ (<<a, s>> \in DOMAIN link => <<a, s>> \in L) =>
          /\ SumOver(LinkVolumes', L \cup {<<a, s>>})
                = SumOver(LinkVolumes, L) + n
          /\ Cardinality(L \cup {<<a, s>>})
                = IF <<a, s>> \in DOMAIN link THEN Cardinality(L)
                  ELSE Cardinality(L) + 1

\* record_payment adds its amount to the sums over the sets its link is in,
\* and one link where it opened it.
LEMMA PaymentSums ==
    ASSUME TypeOK, TypeOK', AccountsLinked,
           NEW a \in Agents, NEW s \in Services, NEW r \in Receipts,
           NEW n \in Amounts, record_payment(a, s, r, n),
           NEW L \in SUBSET DOMAIN link
    PROVE  PaymentSummed(a, s, n, L)
<1> DEFINE new == <<a, s>>
           f == LinkVolumes
           g == LinkVolumes'
<1>1. /\ DOMAIN link' = DOMAIN link \cup {new}
      /\ \A p \in DOMAIN link : p # new => link'[p] = link[p]
  <2>1. PaymentFrame(a, s, r)
    BY PaymentStep
  <2> QED BY <2>1 DEF PaymentFrame
<1>2. link'[new].total_volume =
          IF new \in DOMAIN link THEN link[new].total_volume + n ELSE n
  <2>1. PaymentCounted(a, s, n)
    BY PaymentCounts
  <2> QED BY <2>1 DEF PaymentCounted
<1>3. /\ \A p \in DOMAIN link : f[p] \in Nat /\ f[p] = link[p].total_volume
      /\ \A p \in DOMAIN link' : g[p] \in Nat /\ g[p] = link'[p].total_volume
  <2>1. \A p \in DOMAIN link' : g[p] \in Nat /\ g[p] = link'[p].total_volume
    <3> SUFFICES ASSUME NEW p \in DOMAIN link'
                 PROVE  g[p] \in Nat /\ g[p] = link'[p].total_volume
      OBVIOUS
    <3>1. link'[p] \in Links
      BY DEF TypeOK, Partial
    <3>2. link'[p].total_volume \in Nat
      BY <3>1 DEF Links
    <3> QED BY <3>2 DEF LinkVolumes
  <2> QED BY <2>1, LinkVolumesType
<1>4. IsFiniteSet(L)
  BY FS_Subset DEF AccountsLinked
<1>5. new \in DOMAIN link'
  BY <1>1
<1> HIDE DEF new, f, g
<1>6. \A p \in L : p # new => g[p] = f[p]
  BY <1>1, <1>3
<1>7. n \in Nat
  OBVIOUS
<1>8. ASSUME new \notin L PROVE SumOver(g, L) = SumOver(f, L)
  BY <1>4, <1>6, <1>8, SumSame
<1>9. ASSUME new \in L
      PROVE  SumOver(g, L \cup {new}) = SumOver(f, L) + n
  <2>1. g[new] - f[new] = n
    BY <1>2, <1>3, <1>5, <1>7, <1>9
  <2>2. \A p \in L : f[p] \in Nat /\ g[p] \in Nat
    BY <1>1, <1>3
  <2>3. SumOver(g, L) = SumOver(f, L) + (g[new] - f[new])
    BY <1>4, <1>6, <1>9, <2>2, SumChange
  <2>4. L \cup {new} = L
    BY <1>9
  <2> QED BY <2>1, <2>3, <2>4
<1>10. ASSUME new \notin DOMAIN link
       PROVE  SumOver(g, L \cup {new}) = SumOver(f, L) + n
  <2>1. g[new] = n /\ new \notin L
    BY <1>2, <1>3, <1>5, <1>10
  <2>2. \A p \in L \cup {new} : g[p] \in Nat
    BY <1>1, <1>3
  <2>3. SumOver(g, L \cup {new}) = g[new] + SumOver(g, L)
    BY <1>4, <2>1, <2>2, SumAdd
  <2>4. SumOver(g, L) = SumOver(f, L)
    BY <1>8, <2>1
  <2>5. SumOver(f, L) \in Nat
    BY <1>3, <1>4, SumType
  <2> QED BY <1>7, <2>1, <2>3, <2>4, <2>5
<1>11. ASSUME new \in DOMAIN link => new \in L
       PROVE  Cardinality(L \cup {new})
                 = IF new \in DOMAIN link THEN Cardinality(L)
                   ELSE Cardinality(L) + 1
  <2>1. CASE new \in L
    <3>1. L \cup {new} = L
      BY <2>1
    <3> QED BY <2>1, <3>1
  <2>2. CASE new \notin L
    BY <1>4, <1>11, <2>2, FS_AddElement
  <2> QED BY <2>1, <2>2
<1>12. \/ new \in L
       \/ new \notin DOMAIN link
       \/ ~(new \in DOMAIN link => new \in L)
  OBVIOUS
<1>13. (new \in DOMAIN link => new \in L) =>
          SumOver(g, L \cup {new}) = SumOver(f, L) + n
  BY <1>9, <1>10, <1>12
<1> QED BY <1>8, <1>11, <1>13 DEF new, f, g, PaymentSummed

\* The links and receipts counted are finitely many.
LEMMA LinkSets ==
    ASSUME AccountsLinked, NEW k
    PROVE  /\ LinksOf(k) \in SUBSET DOMAIN link
           /\ LinksTo(k) \in SUBSET DOMAIN link
           /\ IsFiniteSet(LinksOf(k)) /\ IsFiniteSet(LinksTo(k))
           /\ IsFiniteSet(ReceiptsOf(k))
<1>1. /\ LinksOf(k) \subseteq DOMAIN link /\ LinksTo(k) \subseteq DOMAIN link
      /\ ReceiptsOf(k) \subseteq DOMAIN receipt
  BY DEF LinksOf, LinksTo, ReceiptsOf
<1> QED BY <1>1, FS_Subset DEF AccountsLinked

\* PaymentsReconcile for one agent, and for one service.
AgentReconciles(a) ==
    /\ profile[a].total_volume = SumOver(LinkVolumes, LinksOf(a))
    /\ profile[a].services_used = Cardinality(LinksOf(a))
    /\ profile[a].total_transactions = Cardinality(ReceiptsOf(a))

ServiceReconciles(s) ==
    /\ registry[s].total_volume_received = SumOver(LinkVolumes, LinksTo(s))
    /\ registry[s].total_agents_served = Cardinality(LinksTo(s))

\* record_payment keeps profile, registry, links and receipts reconciled.
LEMMA PaymentReconciles ==
    ASSUME TypeOK, TypeOK', AccountsLinked, PaymentsReconcile,
           NEW a \in Agents, NEW s \in Services, NEW r \in Receipts,
           NEW n \in Amounts, record_payment(a, s, r, n)
    PROVE  PaymentsReconcile'
<1>1. /\ a \in DOMAIN profile /\ s \in DOMAIN registry
      /\ r \notin DOMAIN receipt
      /\ DOMAIN profile' = DOMAIN profile
      /\ \A b \in DOMAIN profile : b # a => profile'[b] = profile[b]
      /\ DOMAIN registry' = DOMAIN registry
      /\ \A t \in DOMAIN registry : t # s => registry'[t] = registry[t]
      /\ DOMAIN link' = DOMAIN link \cup {<<a, s>>}
  <2>1. PaymentFrame(a, s, r)
    BY PaymentStep
  <2> QED BY <2>1 DEF PaymentFrame
<1>2. /\ DOMAIN receipt' = DOMAIN receipt \cup {r}
      /\ receipt'[r] = <<a, s>>
      /\ \A q \in DOMAIN receipt : receipt'[q] = receipt[q]
  <2>1. PaymentFrame(a, s, r)
    BY PaymentStep
  <2> QED BY <2>1 DEF PaymentFrame
<1>3. /\ profile'[a].total_transactions = profile[a].total_transactions + 1
      /\ profile'[a].total_volume = profile[a].total_volume + n
      /\ profile'[a].services_used =
            IF <<a, s>> \in DOMAIN link THEN profile[a].services_used
            ELSE profile[a].services_used + 1
  <2>1. PaymentCounted(a, s, n)
    BY PaymentCounts
  <2> QED BY <2>1 DEF PaymentCounted
<1>4. /\ registry'[s].total_agents_served =
            IF <<a, s>> \in DOMAIN link THEN registry[s].total_agents_served
            ELSE registry[s].total_agents_served + 1
      /\ registry'[s].total_volume_received
            = registry[s].total_volume_received + n
  <2>1. PaymentCounted(a, s, n)
    BY PaymentCounts
  <2> QED BY <2>1 DEF PaymentCounted
<1>5. ASSUME NEW b \in DOMAIN profile, b # a PROVE AgentReconciles(b)'
  <2>1. /\ LinksOf(b)' = LinksOf(b) /\ <<a, s>> \notin LinksOf(b)
        /\ ReceiptsOf(b)' = ReceiptsOf(b)
    BY <1>1, <1>2, <1>5 DEF LinksOf, ReceiptsOf
  <2>2. SumOver(LinkVolumes', LinksOf(b)) = SumOver(LinkVolumes, LinksOf(b))
    <3>1. LinksOf(b) \in SUBSET DOMAIN link
      BY LinkSets
    <3>2. PaymentSummed(a, s, n, LinksOf(b))
      BY <3>1, PaymentSums
    <3> QED BY <2>1, <3>2 DEF PaymentSummed
  <2>3. profile'[b] = profile[b] /\ AgentReconciles(b)
    BY <1>1, <1>5 DEF PaymentsReconcile, AgentReconciles
  <2> QED BY <2>1, <2>2, <2>3 DEF AgentReconciles
<1>6. AgentReconciles(a)'
  <2>1. /\ LinksOf(a)' = LinksOf(a) \cup {<<a, s>>}
        /\ <<a, s>> \in DOMAIN link => <<a, s>> \in LinksOf(a)
    BY <1>1 DEF LinksOf
  <2>2. ReceiptsOf(a)' = ReceiptsOf(a) \cup {r} /\ r \notin ReceiptsOf(a)
    BY <1>1, <1>2 DEF ReceiptsOf
  <2>3. LinksOf(a) \in SUBSET DOMAIN link /\ IsFiniteSet(ReceiptsOf(a))
    BY LinkSets
  <2>4. /\ SumOver(LinkVolumes', LinksOf(a) \cup {<<a, s>>})
              = SumOver(LinkVolumes, LinksOf(a)) + n
        /\ Cardinality(LinksOf(a) \cup {<<a, s>>})
              = IF <<a, s>> \in DOMAIN link THEN Cardinality(LinksOf(a))
                ELSE Cardinality(LinksOf(a)) + 1
    <3>1. PaymentSummed(a, s, n, LinksOf(a))
      BY <2>3, PaymentSums
    <3> QED BY <2>1, <3>1 DEF PaymentSummed
  <2>5. Cardinality(ReceiptsOf(a) \cup {r}) = Cardinality(ReceiptsOf(a)) + 1
    BY <2>2, <2>3, FS_AddElement
  <2>6. AgentReconciles(a)
    BY <1>1 DEF PaymentsReconcile, AgentReconciles
  <2> QED BY <1>3, <2>1, <2>2, <2>4, <2>5, <2>6 DEF AgentReconciles
<1>7. ASSUME NEW t \in DOMAIN registry, t # s PROVE ServiceReconciles(t)'
  <2>1. LinksTo(t)' = LinksTo(t) /\ <<a, s>> \notin LinksTo(t)
    BY <1>1, <1>7 DEF LinksTo
  <2>2. SumOver(LinkVolumes', LinksTo(t)) = SumOver(LinkVolumes, LinksTo(t))
    <3>1. LinksTo(t) \in SUBSET DOMAIN link
      BY LinkSets
    <3>2. PaymentSummed(a, s, n, LinksTo(t))
      BY <3>1, PaymentSums
    <3> QED BY <2>1, <3>2 DEF PaymentSummed
  <2>3. registry'[t] = registry[t] /\ ServiceReconciles(t)
    BY <1>1, <1>7 DEF PaymentsReconcile, ServiceReconciles
  <2> QED BY <2>1, <2>2, <2>3 DEF ServiceReconciles
<1>8. ServiceReconciles(s)'
  <2>1. /\ LinksTo(s)' = LinksTo(s) \cup {<<a, s>>}
        /\ <<a, s>> \in DOMAIN link => <<a, s>> \in LinksTo(s)
    BY <1>1 DEF LinksTo
  <2>2. LinksTo(s) \in SUBSET DOMAIN link
    BY LinkSets
  <2>3. /\ SumOver(LinkVolumes', LinksTo(s) \cup {<<a, s>>})
              = SumOver(LinkVolumes, LinksTo(s)) + n
        /\ Cardinality(LinksTo(s) \cup {<<a, s>>})
              = IF <<a, s>> \in DOMAIN link THEN Cardinality(LinksTo(s))
                ELSE Cardinality(LinksTo(s)) + 1
    <3>1. PaymentSummed(a, s, n, LinksTo(s))
      BY <2>2, PaymentSums
    <3> QED BY <2>1, <3>1 DEF PaymentSummed
  <2>4. ServiceReconciles(s)
    BY <1>1 DEF PaymentsReconcile, ServiceReconciles
  <2> QED BY <1>4, <2>1, <2>3, <2>4 DEF ServiceReconciles
<1>9. \A b \in DOMAIN profile' : AgentReconciles(b)'
  BY <1>1, <1>5, <1>6
<1>10. \A t \in DOMAIN registry' : ServiceReconciles(t)'
  BY <1>1, <1>7, <1>8
<1> QED BY <1>9, <1>10 DEF PaymentsReconcile, AgentReconciles, ServiceReconciles

\* Every instruction keeps PaymentsReconcile.
LEMMA NextReconciles ==
    /\ TypeOK /\ TypeOK' /\ AccountsLinked /\ RatingsEarned
    /\ PaymentsReconcile /\ [Next]_vars
    => PaymentsReconcile'
<1> SUFFICES ASSUME TypeOK, TypeOK', AccountsLinked, RatingsEarned,
                    PaymentsReconcile, [Next]_vars
             PROVE  PaymentsReconcile'
  OBVIOUS
<1>0. /\ \A a \in DOMAIN profile : AgentReconciles(a)
      /\ \A s \in DOMAIN registry : ServiceReconciles(s)
  BY DEF PaymentsReconcile, AgentReconciles, ServiceReconciles
<1>1. CASE Quiet
  <2>1. ProfilesKept /\ RegistriesKept /\ link' = link /\ receipt' = receipt
    BY <1>1, QuietStep
  <2>2. LinkVolumes' = LinkVolumes
    BY <2>1 DEF LinkVolumes
  <2>3. ASSUME NEW k PROVE /\ LinksOf(k)' = LinksOf(k)
                           /\ LinksTo(k)' = LinksTo(k)
                           /\ ReceiptsOf(k)' = ReceiptsOf(k)
    BY <2>1 DEF LinksOf, LinksTo, ReceiptsOf
  <2>4. ASSUME NEW a \in DOMAIN profile' PROVE AgentReconciles(a)'
    <3>1. CASE a \in DOMAIN profile
      <4>1. AgentReconciles(a) /\ SameCounts(profile[a], profile'[a])
        BY <1>0, <2>1, <3>1 DEF ProfilesKept
      <4> QED BY <2>2, <2>3, <4>1 DEF AgentReconciles, SameCounts
    <3>2. CASE a \notin DOMAIN profile
      <4>1. LinksOf(a) = {} /\ ReceiptsOf(a) = {}
        BY <3>2 DEF LinksOf, ReceiptsOf, AccountsLinked
      <4>2. Untouched(profile'[a])
        BY <2>1, <3>2 DEF ProfilesKept
      <4>3. /\ SumOver(LinkVolumes, {}) = 0 /\ Cardinality({}) = 0
        BY SumEmpty, FS_EmptySet
      <4> QED BY <2>2, <2>3, <4>1, <4>2, <4>3 DEF AgentReconciles, Untouched
    <3> QED BY <3>1, <3>2
  <2>5. ASSUME NEW s \in DOMAIN registry' PROVE ServiceReconciles(s)'
    <3>1. CASE s \in DOMAIN registry
      <4>1. /\ ServiceReconciles(s)
            /\ registry'[s].total_agents_served
                  = registry[s].total_agents_served
            /\ registry'[s].total_volume_received
                  = registry[s].total_volume_received
        BY <1>0, <2>1, <3>1 DEF RegistriesKept
      <4> QED BY <2>2, <2>3, <4>1 DEF ServiceReconciles
    <3>2. CASE s \notin DOMAIN registry
      <4>1. LinksTo(s) = {}
        BY <3>2 DEF LinksTo, AccountsLinked
      <4>2. /\ registry'[s].total_agents_served = 0
            /\ registry'[s].total_volume_received = 0
        BY <2>1, <3>2 DEF RegistriesKept
      <4>3. /\ SumOver(LinkVolumes, {}) = 0 /\ Cardinality({}) = 0
        BY SumEmpty, FS_EmptySet
      <4> QED BY <2>2, <2>3, <4>1, <4>2, <4>3 DEF ServiceReconciles
    <3> QED BY <3>1, <3>2
  <2> QED BY <2>4, <2>5 DEF PaymentsReconcile, AgentReconciles,
             ServiceReconciles
<1>2. ASSUME NEW a \in Agents, NEW s \in Services, NEW r \in Receipts,
             NEW n \in Amounts, record_payment(a, s, r, n)
      PROVE  PaymentsReconcile'
  BY <1>2, PaymentReconciles
<1>3. ASSUME /\ DOMAIN profile' = DOMAIN profile
             /\ \A b \in DOMAIN profile :
                   /\ profile'[b].total_volume = profile[b].total_volume
                   /\ profile'[b].services_used = profile[b].services_used
                   /\ profile'[b].total_transactions
                         = profile[b].total_transactions
             /\ registry' = registry /\ receipt' = receipt
             /\ DOMAIN link' = DOMAIN link /\ LinkVolumes' = LinkVolumes
      PROVE  PaymentsReconcile'
  <2>1. ASSUME NEW k PROVE /\ LinksOf(k)' = LinksOf(k)
                           /\ LinksTo(k)' = LinksTo(k)
                           /\ ReceiptsOf(k)' = ReceiptsOf(k)
    BY <1>3 DEF LinksOf, LinksTo, ReceiptsOf
  <2>2. ASSUME NEW b \in DOMAIN profile PROVE AgentReconciles(b)'
    BY <1>0, <1>3, <2>1 DEF AgentReconciles
  <2>3. ASSUME NEW t \in DOMAIN registry PROVE ServiceReconciles(t)'
    BY <1>0, <1>3, <2>1 DEF ServiceReconciles
  <2> QED BY <1>3, <2>2, <2>3 DEF PaymentsReconcile, AgentReconciles,
             ServiceReconciles
<1>4. ASSUME NEW a \in Agents, NEW s \in Services, NEW r \in Receipts,
             NEW v \in Values, give_feedback(a, s, r, v)
      PROVE  PaymentsReconcile'
  <2>1. /\ DOMAIN profile' = DOMAIN profile
        /\ \A b \in DOMAIN profile : b # a => profile'[b] = profile[b]
        /\ DOMAIN link' = DOMAIN link
        /\ \A p \in DOMAIN link : p # <<a, s>> => link'[p] = link[p]
        /\ registry' = registry /\ receipt' = receipt
    <3>1. RatingFrame(a, s, r)
      BY <1>4, RatingStep
    <3> QED BY <3>1 DEF RatingFrame
  <2>2. /\ profile'[a].total_transactions = profile[a].total_transactions
        /\ profile'[a].total_volume = profile[a].total_volume
        /\ profile'[a].services_used = profile[a].services_used
        /\ link'[<<a, s>>].total_volume = link[<<a, s>>].total_volume
    <3>1. RatingCounted(a, s, r, v)
      BY <1>4, RatingCounts
    <3> QED BY <3>1 DEF RatingCounted
  <2>3. LinkVolumes' = LinkVolumes
    BY <2>1, <2>2 DEF LinkVolumes
  <2> QED BY <1>3, <2>1, <2>2, <2>3
<1>5. ASSUME NEW a \in Agents, NEW s \in Services, NEW r \in Receipts,
             revoke_feedback(a, s, r)
      PROVE  PaymentsReconcile'
  <2>0. a \in DOMAIN profile
    BY <1>5, RatedAgentExists DEF revoke_feedback
  <2>1. /\ DOMAIN profile' = DOMAIN profile
        /\ \A b \in DOMAIN profile : b # a => profile'[b] = profile[b]
        /\ profile'[a].total_transactions = profile[a].total_transactions
        /\ profile'[a].total_volume = profile[a].total_volume
        /\ profile'[a].services_used = profile[a].services_used
        /\ registry' = registry /\ link' = link /\ receipt' = receipt
    <3>1. Revoked(a, s, r)
      BY <1>5, <2>0, RevocationStep
    <3> QED BY <3>1 DEF Revoked
  <2>2. LinkVolumes' = LinkVolumes
    BY <2>1 DEF LinkVolumes
  <2> QED BY <1>3, <2>1, <2>2
<1> QED BY <1>1, <1>2, <1>4, <1>5, Steps

----------------------------------------------------------------------------
\* The inductive invariant.
Inv == /\ TypeOK /\ AccountsLinked /\ RatingsEarned /\ LastRatingKept
       /\ RatingsSpaced /\ FeedbackCounted /\ PaymentsReconcile

\* The invariant holds where no account exists.
LEMMA InvInit == Init => Inv
<1> SUFFICES ASSUME Init PROVE Inv
  OBVIOUS
<1>1. DOMAIN profile = {} /\ DOMAIN registry = {} /\ DOMAIN feedback = {}
  BY DEF Init, NoAccounts
<1>2. RatingsEarned /\ LastRatingKept /\ RatingsSpaced
  BY <1>1 DEF RatingsEarned, LastRatingKept, RatingsSpaced
<1>3. FeedbackCounted /\ PaymentsReconcile
  BY <1>1 DEF FeedbackCounted, PaymentsReconcile
<1> QED BY <1>2, <1>3, InitTypeOK, InitLinked DEF Inv

\* Every instruction keeps the invariant.
LEMMA InvNext == Inv /\ [Next]_vars => Inv'
<1> SUFFICES ASSUME Inv, [Next]_vars PROVE Inv'
  OBVIOUS
<1> USE DEF Inv
<1>1. TypeOK' /\ AccountsLinked'
  BY NextTypeOK, NextLinked
<1>2. RatingsEarned' /\ LastRatingKept' /\ RatingsSpaced'
  BY NextEarned, NextLastRating, NextSpaced
<1>3. FeedbackCounted' /\ PaymentsReconcile'
  BY <1>1, NextCounted, NextReconciles
<1> QED BY <1>1, <1>2, <1>3

\* The invariant holds in every reachable state.
LEMMA Invariance == Spec => []Inv
<1>1. Init => Inv
  BY InvInit
<1>2. Inv /\ [Next]_vars => Inv'
  BY InvNext
<1> QED BY <1>1, <1>2, PTL DEF Spec

\* No rating without a payment recorded for the same pair, and none by the
\* agent itself or its owner, for any number of agents, services and receipts.
THEOREM RatingsAreEarned == Spec => []RatingsEarned
<1>1. Inv => RatingsEarned
  BY DEF Inv
<1> QED BY <1>1, Invariance, PTL

\* The rate limit of give_feedback holds between any two ratings of a pair,
\* not only between consecutive ones, from slot 0 on.
THEOREM RatingsAreSpaced == Spec => []RatingsSpaced
<1>1. Inv => RatingsSpaced
  BY DEF Inv
<1> QED BY <1>1, Invariance, PTL

\* total_feedback and active_negative are the records on chain in every
\* reachable state, so the checked_sub of revoke_feedback cannot fail.
THEOREM FeedbackIsCounted == Spec => []FeedbackCounted
<1>1. Inv => FeedbackCounted
  BY DEF Inv
<1> QED BY <1>1, Invariance, PTL

\* Profiles and registries are the sums of their links and the counts of
\* their receipts in every reachable state.
THEOREM PaymentsAreReconciled == Spec => []PaymentsReconcile
<1>1. Inv => PaymentsReconcile
  BY DEF Inv
<1> QED BY <1>1, Invariance, PTL

----------------------------------------------------------------------------
(* The score (ScoreSteps): one instruction on any profile.                 *)

\* What a quotient is, without division: the largest q with q * d <= n.
LEMMA Quotient ==
    ASSUME NEW n \in Nat, NEW d \in Nat, d > 0
    PROVE  /\ n \div d \in Nat
           /\ d * (n \div d) <= n /\ n < d * (n \div d) + d
OBVIOUS

\* A quotient is at least what fits.
LEMMA QuotientFits ==
    ASSUME NEW n \in Nat, NEW d \in Nat, d > 0, NEW q \in Nat, d * q <= n
    PROVE  q <= n \div d
<1>1. PICK r \in Nat : r = n \div d /\ d * r <= n /\ n < d * r + d
  BY Quotient
<1>2. ASSUME r < q PROVE FALSE
  <2>1. PICK k \in Nat : q = r + 1 + k
    BY <1>1, <1>2
  <2>2. d * q = d * r + d + d * k /\ d * k >= 0
    BY <1>1, <2>1
  <2>3. d * r \in Nat /\ d * q \in Nat
    BY <1>1
  <2> QED BY <1>1, <2>2, <2>3
<1> QED BY <1>1, <1>2

\* The share of negative ratings, in parts of w, rounded down as
\* feedback_points rounds it.
Share(w, n, t) == (w * n) \div t

\* A rating that is not negative does not raise the share, a negative one does
\* not lower it, and neither does a rating that is not revoked.
LEMMA ShareMoves ==
    ASSUME NEW w \in Nat, NEW n \in Nat, NEW t \in Nat, t > 0, n <= t
    PROVE  /\ Share(w, n, t) \in 0..w
           /\ Share(w, n, t + 1) <= Share(w, n, t)
           /\ Share(w, n + 1, t + 1) >= Share(w, n, t)
           /\ n > 0 => Share(w, n - 1, t) <= Share(w, n, t)
<1> DEFINE q == Share(w, n, t)
<1>0. w * n \in Nat /\ w * (n + 1) = w * n + w /\ w * n <= w * t
  <2>1. PICK k \in Nat : t = n + k
    OBVIOUS
  <2>2. w * t = w * n + w * k /\ w * k \in Nat /\ w * n \in Nat
    BY <2>1
  <2> QED BY <2>2
<1>1. q \in Nat /\ t * q <= w * n /\ w * n < t * q + t
  BY <1>0, Quotient DEF Share
<1> HIDE DEF q
<1>2. q <= w
  <2>1. ASSUME q > w PROVE FALSE
    <3>1. PICK k \in Nat : q = w + 1 + k
      BY <1>1, <2>1
    <3>2. t * q = w * t + t + t * k /\ t * k \in Nat /\ w * t \in Nat
      BY <3>1
    <3> QED BY <1>0, <1>1, <3>2
  <2> QED BY <1>1, <2>1
<1>3. Share(w, n, t + 1) <= q
  <2>1. PICK r \in Nat : r = Share(w, n, t + 1) /\ (t + 1) * r <= w * n
    BY <1>0, Quotient DEF Share
  <2>2. t * r <= w * n
    <3>1. (t + 1) * r = t * r + r /\ t * r \in Nat
      OBVIOUS
    <3> QED BY <1>0, <2>1, <3>1
  <2> QED BY <1>0, <2>1, <2>2, QuotientFits DEF q, Share
<1>4. q <= Share(w, n + 1, t + 1)
  <2>1. (t + 1) * q <= w * (n + 1)
    <3>1. (t + 1) * q = t * q + q /\ t * q \in Nat
      BY <1>1
    <3> QED BY <1>0, <1>1, <1>2, <3>1
  <2>2. w * (n + 1) \in Nat /\ t + 1 \in Nat /\ t + 1 > 0
    BY <1>0
  <2> QED BY <1>1, <2>1, <2>2, QuotientFits DEF Share
<1>5. ASSUME n > 0 PROVE Share(w, n - 1, t) <= q
  <2>1. n - 1 \in Nat /\ w * (n - 1) = w * n - w /\ w * (n - 1) \in Nat
    BY <1>5
  <2>2. PICK r \in Nat : r = Share(w, n - 1, t) /\ t * r <= w * (n - 1)
    BY <2>1, Quotient DEF Share
  <2>3. t * r \in Nat /\ t * r <= w * n
    BY <1>0, <2>1, <2>2
  <2> QED BY <1>0, <2>2, <2>3, QuotientFits DEF q, Share
<1> QED BY <1>1, <1>2, <1>3, <1>4, <1>5 DEF q

\* feedback_points answers to one rating or one revocation.
LEMMA FeedbackMoves ==
    ASSUME NEW t \in Nat, NEW n \in 0..t
    PROVE  /\ feedback_points(t, n) \in Nat /\ feedback_points(t, n) <= FeedbackWeight
           /\ feedback_points(t + 1, n) >= feedback_points(t, n)
           /\ feedback_points(t + 1, n + 1) <= feedback_points(t, n)
           /\ n > 0 => feedback_points(t, n - 1) >= feedback_points(t, n)
<1>1. ASSUME NEW u \in Nat, u > 0, NEW m \in Nat, m <= u
      PROVE  /\ Share(250, m, u) \in Nat /\ Share(250, m, u) <= 250
             /\ feedback_points(u, m) = 250 - Share(250, m, u)
  <2>1. PICK w \in Nat : w = 250
    OBVIOUS
  <2>2. Share(w, m, u) \in 0..w
    BY <1>1, ShareMoves
  <2>3. Share(w, m, u) \in Nat /\ Share(w, m, u) <= w
    BY <2>2
  <2>4. feedback_points(u, m) = SaturatingSub(w, Share(w, m, u))
    BY <1>1, <2>1 DEF feedback_points, FeedbackWeight, Lesser, Share
  <2>5. SaturatingSub(w, Share(w, m, u)) = w - Share(w, m, u)
    BY <2>3 DEF SaturatingSub
  <2> QED BY <2>1, <2>3, <2>4, <2>5
<1>2. CASE t = 0
  <2>1. feedback_points(t, n) = 100 /\ n = 0
    BY <1>2 DEF feedback_points, NeutralFeedbackBonus
  <2>2. Share(250, 0, 1) = 0 /\ Share(250, 1, 1) = 250
    BY DEF Share
  <2>3. feedback_points(1, 0) = 250 /\ feedback_points(1, 1) = 0
    BY <1>1, <2>2
  <2> QED BY <1>2, <2>1, <2>3 DEF FeedbackWeight
<1>3. CASE t > 0
  <2>0. /\ 250 \in Nat /\ n \in Nat /\ n <= t /\ t + 1 \in Nat /\ t + 1 > 0
        /\ n <= t + 1 /\ n + 1 \in Nat /\ n + 1 <= t + 1
        /\ n > 0 => n - 1 \in Nat /\ n - 1 <= t
    BY <1>3
  <2>1. /\ Share(250, n, t + 1) <= Share(250, n, t)
        /\ Share(250, n + 1, t + 1) >= Share(250, n, t)
        /\ n > 0 => Share(250, n - 1, t) <= Share(250, n, t)
    <3>1. PICK w \in Nat : w = 250
      OBVIOUS
    <3>2. /\ Share(w, n, t + 1) <= Share(w, n, t)
          /\ Share(w, n + 1, t + 1) >= Share(w, n, t)
          /\ n > 0 => Share(w, n - 1, t) <= Share(w, n, t)
      BY <1>3, <2>0, ShareMoves
    <3> QED BY <3>1, <3>2
  <2>2. /\ Share(250, n, t) \in Nat /\ Share(250, n, t) <= 250
        /\ feedback_points(t, n) = 250 - Share(250, n, t)
    BY <1>1, <1>3, <2>0
  <2>3. /\ Share(250, n, t + 1) \in Nat /\ Share(250, n, t + 1) <= 250
        /\ feedback_points(t + 1, n) = 250 - Share(250, n, t + 1)
    BY <1>1, <2>0
  <2>4. /\ Share(250, n + 1, t + 1) \in Nat /\ Share(250, n + 1, t + 1) <= 250
        /\ feedback_points(t + 1, n + 1) = 250 - Share(250, n + 1, t + 1)
    BY <1>1, <2>0
  <2>5. ASSUME n > 0 PROVE feedback_points(t, n - 1) >= feedback_points(t, n)
    <3>1. /\ Share(250, n - 1, t) \in Nat /\ Share(250, n - 1, t) <= 250
          /\ feedback_points(t, n - 1) = 250 - Share(250, n - 1, t)
      BY <1>1, <1>3, <2>0, <2>5
    <3>2. Share(250, n - 1, t) <= Share(250, n, t)
      BY <2>1, <2>5
    <3> QED BY <2>2, <3>1, <3>2
  <2> QED BY <2>1, <2>2, <2>3, <2>4, <2>5 DEF FeedbackWeight
<1> QED BY <1>2, <1>3

\* The other parts of the score never fall when what they count grows.
LEMMA PointsGrow ==
    ASSUME NEW m \in Nat, NEW n \in Nat, m <= n
    PROVE  /\ volume_points(m) \in Nat /\ volume_points(n) \in Nat
           /\ volume_points(m) <= volume_points(n)
           /\ diversity_points(m) \in Nat /\ diversity_points(n) \in Nat
           /\ diversity_points(m) <= diversity_points(n)
           /\ streak_points(m) \in Nat /\ streak_points(n) \in Nat
           /\ streak_points(m) <= streak_points(n)
           /\ tenure_points(0, m) \in Nat /\ tenure_points(0, n) \in Nat
           /\ tenure_points(0, m) <= tenure_points(0, n)
<1>1. /\ volume_points(m) \in Nat /\ volume_points(n) \in Nat
      /\ volume_points(m) <= volume_points(n)
  BY DEF volume_points, VolumeWeight
<1>2. /\ diversity_points(m) \in Nat /\ diversity_points(n) \in Nat
      /\ diversity_points(m) <= diversity_points(n)
  BY DEF diversity_points, DiversityCap, Lesser
<1>3. /\ streak_points(m) \in Nat /\ streak_points(n) \in Nat
      /\ streak_points(m) <= streak_points(n)
  BY DEF streak_points, StreakCap, Lesser
<1>4. /\ tenure_points(0, m) \in Nat /\ tenure_points(0, n) \in Nat
      /\ tenure_points(0, m) <= tenure_points(0, n)
  <2>1. SaturatingSub(m, 0) = m /\ SaturatingSub(n, 0) = n
    BY DEF SaturatingSub
  <2> QED BY <2>1 DEF tenure_points, TenureWeight
<1> QED BY <1>1, <1>2, <1>3, <1>4

\* The profiles ScoreSteps starts from: registered at slot 0, and no more
\* negative ratings than ratings (FeedbackCounted).
Subjects ==
    [owner : {"owner"}, total_transactions : Nat, total_volume : Nat,
     consecutive_success : Nat, total_feedback : Nat, active_negative : Nat,
     services_used : Nat, first_active_slot : {0}, score : {0}]

\* A profile whose fields are numbers, as every account's are.
Scorable(p) ==
    /\ p.total_transactions \in Nat /\ p.services_used \in Nat
    /\ p.consecutive_success \in Nat /\ p.first_active_slot \in Nat
    /\ feedback_points(p.total_feedback, p.active_negative) \in Nat

\* The score of one profile is at most that of another, registered at the same
\* slot, with no less of each.
LEMMA ScoreGrows ==
    ASSUME NEW p, NEW q, Scorable(p), Scorable(q), NEW s \in Nat, NEW u \in Nat,
           s <= u, q.first_active_slot = p.first_active_slot,
           p.total_transactions <= q.total_transactions,
           p.services_used <= q.services_used,
           p.consecutive_success <= q.consecutive_success,
           feedback_points(p.total_feedback, p.active_negative)
             <= feedback_points(q.total_feedback, q.active_negative)
    PROVE  /\ compute(p, s) \in Nat /\ compute(q, u) \in Nat
           /\ compute(p, s) <= compute(q, u)
<1> USE DEF Scorable
<1>1. PICK a \in Nat, b \in Nat : /\ a = volume_points(p.total_transactions)
                                  /\ b = volume_points(q.total_transactions)
                                  /\ a <= b
  <2>1. /\ volume_points(p.total_transactions) \in Nat
        /\ volume_points(q.total_transactions) \in Nat
        /\ volume_points(p.total_transactions) <= volume_points(q.total_transactions)
    BY PointsGrow
  <2> QED BY <2>1
<1>2. PICK c \in Nat, d \in Nat : /\ c = diversity_points(p.services_used)
                                  /\ d = diversity_points(q.services_used)
                                  /\ c <= d
  <2>1. /\ diversity_points(p.services_used) \in Nat
        /\ diversity_points(q.services_used) \in Nat
        /\ diversity_points(p.services_used) <= diversity_points(q.services_used)
    BY PointsGrow
  <2> QED BY <2>1
<1>3. PICK e \in Nat, f \in Nat : /\ e = streak_points(p.consecutive_success)
                                  /\ f = streak_points(q.consecutive_success)
                                  /\ e <= f
  <2>1. /\ streak_points(p.consecutive_success) \in Nat
        /\ streak_points(q.consecutive_success) \in Nat
        /\ streak_points(p.consecutive_success) <= streak_points(q.consecutive_success)
    BY PointsGrow
  <2> QED BY <2>1
<1>4. PICK g \in Nat, h \in Nat : /\ g = tenure_points(p.first_active_slot, s)
                                  /\ h = tenure_points(q.first_active_slot, u)
                                  /\ g <= h
  <2> DEFINE f0 == p.first_active_slot
  <2>1. PICK m \in Nat, n \in Nat : /\ m = SaturatingSub(s, f0)
                                    /\ n = SaturatingSub(u, f0) /\ m <= n
    BY DEF SaturatingSub
  <2>2. SaturatingSub(m, 0) = m /\ SaturatingSub(n, 0) = n
    BY DEF SaturatingSub
  <2>3. /\ tenure_points(f0, s) = tenure_points(0, m)
        /\ tenure_points(f0, u) = tenure_points(0, n)
    BY <2>1, <2>2 DEF tenure_points
  <2> QED BY <2>1, <2>3, PointsGrow
<1>5. PICK i \in Nat, j \in Nat :
        /\ i = feedback_points(p.total_feedback, p.active_negative)
        /\ j = feedback_points(q.total_feedback, q.active_negative)
        /\ i <= j
  OBVIOUS
<1>6. compute(p, s) = Lesser(a + c + e + g + i, MaxScore)
  BY <1>1, <1>2, <1>3, <1>4, <1>5 DEF compute
<1>7. compute(q, u) = Lesser(b + d + f + h + j, MaxScore)
  BY <1>1, <1>2, <1>3, <1>4, <1>5 DEF compute
<1> QED BY <1>1, <1>2, <1>3, <1>4, <1>5, <1>6, <1>7 DEF Lesser, MaxScore

\* A profile on which no instruction has acted yet has no more negative
\* ratings than ratings, and every profile has its type.
ScoreInv ==
    /\ subject \in Subjects /\ clock \in Nat
    /\ cause = "start" => subject.active_negative <= subject.total_feedback

\* One instruction, or the passing of time, and the score before and after.
LEMMA ConductStep ==
    ASSUME ScoreInv, ScoreNext
    PROVE  /\ ScoreInv'
           /\ IF cause' = "negative"
              THEN compute(subject', clock') <= compute(subject, clock)
              ELSE compute(subject', clock') >= compute(subject, clock)
<1> DEFINE t == subject.total_feedback
           n == subject.active_negative
<1>0. /\ subject \in Subjects /\ clock \in Nat /\ cause = "start" /\ n <= t
      /\ t \in Nat /\ n \in Nat
  BY DEF ScoreInv, ScoreNext, Payment, Rating, Revocation,
         Wait, Subjects
<1> HIDE DEF t, n
<1>1. /\ feedback_points(t, n) \in Nat
      /\ feedback_points(t + 1, n) \in Nat /\ feedback_points(t + 1, n + 1) \in Nat
      /\ feedback_points(t + 1, n) >= feedback_points(t, n)
      /\ feedback_points(t + 1, n + 1) <= feedback_points(t, n)
      /\ n > 0 => /\ feedback_points(t, n - 1) \in Nat
                  /\ feedback_points(t, n - 1) >= feedback_points(t, n)
  <2>1. /\ n \in 0..t /\ n \in 0..(t + 1) /\ n + 1 \in 0..(t + 1) /\ t + 1 \in Nat
        /\ n > 0 => n - 1 \in 0..t
    BY <1>0
  <2>2. /\ feedback_points(t, n) \in Nat /\ feedback_points(t + 1, n) \in Nat
        /\ feedback_points(t + 1, n + 1) \in Nat
        /\ n > 0 => feedback_points(t, n - 1) \in Nat
    <3>1. \A u \in Nat : \A m \in 0..u : feedback_points(u, m) \in Nat
      BY FeedbackMoves
    <3> QED BY <1>0, <2>1, <3>1
  <2>3. /\ feedback_points(t + 1, n) >= feedback_points(t, n)
        /\ feedback_points(t + 1, n + 1) <= feedback_points(t, n)
        /\ n > 0 => feedback_points(t, n - 1) >= feedback_points(t, n)
    BY <1>0, <2>1, FeedbackMoves
  <2> QED BY <2>2, <2>3
<1>2. ASSUME NEW q \in Subjects, NEW u \in Nat, clock <= u,
             subject.total_transactions <= q.total_transactions,
             subject.services_used <= q.services_used,
             subject.consecutive_success <= q.consecutive_success,
             feedback_points(q.total_feedback, q.active_negative) \in Nat,
             feedback_points(t, n) <= feedback_points(q.total_feedback, q.active_negative)
      PROVE  compute(q, u) >= compute(subject, clock)
  <2>1. PICK p \in Subjects : p = subject
    BY <1>0
  <2>2. /\ Scorable(p) /\ Scorable(q)
        /\ q.first_active_slot = p.first_active_slot
        /\ feedback_points(p.total_feedback, p.active_negative)
             <= feedback_points(q.total_feedback, q.active_negative)
    BY <1>1, <1>2, <2>1 DEF Scorable, Subjects, t, n
  <2>3. compute(p, clock) \in Nat /\ compute(q, u) \in Nat
        /\ compute(p, clock) <= compute(q, u)
    BY <1>0, <1>2, <2>1, <2>2, ScoreGrows
  <2> QED BY <2>1, <2>3
<1>3. CASE Payment
  <2>1. PICK b \in BOOLEAN : subject' = CountedPayment(subject, 1, b)
    BY <1>3 DEF Payment
  <2>2. PICK sv \in Nat, tx \in Nat, vol \in Nat, st \in Nat :
          /\ subject.services_used <= sv /\ subject.total_transactions <= tx
          /\ subject.consecutive_success <= st
          /\ subject' = [subject EXCEPT !.services_used = sv, !.total_transactions = tx,
                                        !.total_volume = vol, !.consecutive_success = st]
    <3>1. /\ (IF b THEN subject.services_used + 1 ELSE subject.services_used) \in Nat
          /\ subject.services_used
               <= IF b THEN subject.services_used + 1 ELSE subject.services_used
          /\ subject.total_transactions + 1 \in Nat /\ subject.total_volume + 1 \in Nat
          /\ subject.consecutive_success + 1 \in Nat
          /\ subject.total_transactions <= subject.total_transactions + 1
          /\ subject.consecutive_success <= subject.consecutive_success + 1
      BY <1>0 DEF Subjects
    <3>2. subject' = [subject EXCEPT
              !.services_used = IF b THEN subject.services_used + 1
                                ELSE subject.services_used,
              !.total_transactions = subject.total_transactions + 1,
              !.total_volume = subject.total_volume + 1,
              !.consecutive_success = subject.consecutive_success + 1]
      BY <1>0, <2>1 DEF CountedPayment, Subjects
    <3> QED BY <3>1, <3>2
  <2>3. /\ subject' \in Subjects /\ subject'.services_used = sv
        /\ subject'.total_transactions = tx /\ subject'.consecutive_success = st
        /\ subject'.total_feedback = t /\ subject'.active_negative = n
    BY <1>0, <2>2 DEF Subjects, t, n
  <2>4. clock' = clock /\ cause' = "payment"
    BY <1>3 DEF Payment
  <2>5. compute(subject', clock') >= compute(subject, clock)
    <3>1. PICK q \in Subjects : q = subject'
      BY <2>3
    <3>2. /\ subject.total_transactions <= q.total_transactions
          /\ subject.services_used <= q.services_used
          /\ subject.consecutive_success <= q.consecutive_success
          /\ q.total_feedback = t /\ q.active_negative = n
      BY <2>2, <2>3, <3>1
    <3>3. compute(q, clock) >= compute(subject, clock)
      BY <1>0, <1>1, <1>2, <3>2
    <3> QED BY <2>4, <3>1, <3>3
  <2> QED BY <1>0, <2>3, <2>4, <2>5 DEF ScoreInv
<1>4. ASSUME NEW v \in {0, 1}, Rating(v)
      PROVE  /\ ScoreInv' /\ cause' # "negative"
             /\ compute(subject', clock') >= compute(subject, clock)
  <2>0. ~(v < 0)
    OBVIOUS
  <2>1. subject' = [subject EXCEPT !.total_feedback = t + 1, !.active_negative = n,
                                   !.consecutive_success = subject.consecutive_success]
    BY <1>0, <1>4, <2>0 DEF Rating, CountedFeedback, Subjects, t, n
  <2>2. t + 1 \in Nat
    BY <1>0
  <2>3. /\ subject' \in Subjects /\ subject'.services_used = subject.services_used
        /\ subject'.total_transactions = subject.total_transactions
        /\ subject'.consecutive_success = subject.consecutive_success
        /\ subject'.total_feedback = t + 1 /\ subject'.active_negative = n
    BY <1>0, <2>1, <2>2 DEF Subjects
  <2>4. clock' = clock /\ cause' = "rating"
    BY <1>4, <2>0 DEF Rating
  <2>5. compute(subject', clock') >= compute(subject, clock)
    BY <1>0, <1>1, <1>2, <2>3, <2>4 DEF Subjects
  <2> QED BY <1>0, <2>3, <2>4, <2>5 DEF ScoreInv
<1>5. CASE Rating(-1)
  <2>1. subject' = [subject EXCEPT !.total_feedback = t + 1, !.active_negative = n + 1,
                                   !.consecutive_success = 0]
    BY <1>0, <1>5 DEF Rating, CountedFeedback, Subjects, t, n
  <2>2. t + 1 \in Nat /\ n + 1 \in Nat
    BY <1>0
  <2>3. /\ subject' \in Subjects /\ subject'.services_used = subject.services_used
        /\ subject'.total_transactions = subject.total_transactions
        /\ subject'.consecutive_success = 0
        /\ subject'.total_feedback = t + 1 /\ subject'.active_negative = n + 1
    BY <1>0, <2>1, <2>2 DEF Subjects
  <2>4. clock' = clock /\ cause' = "negative"
    BY <1>5 DEF Rating
  <2>5. compute(subject', clock') <= compute(subject, clock)
    <3>1. PICK q \in Subjects : q = subject'
      BY <2>3
    <3>2. /\ q.total_transactions = subject.total_transactions
          /\ q.services_used = subject.services_used
          /\ q.consecutive_success = 0 /\ subject.consecutive_success \in Nat
          /\ q.total_transactions \in Nat /\ q.services_used \in Nat
          /\ q.total_feedback = t + 1 /\ q.active_negative = n + 1
      BY <1>0, <2>3, <3>1 DEF Subjects
    <3>3. /\ q.total_transactions <= subject.total_transactions
          /\ q.services_used <= subject.services_used
          /\ q.consecutive_success <= subject.consecutive_success
          /\ clock <= clock
      BY <1>0, <3>2
    <3>4. feedback_points(q.total_feedback, q.active_negative)
            = feedback_points(t + 1, n + 1)
      BY <3>2
    <3>5. /\ feedback_points(q.total_feedback, q.active_negative) \in Nat
          /\ feedback_points(subject.total_feedback, subject.active_negative) \in Nat
          /\ feedback_points(q.total_feedback, q.active_negative)
               <= feedback_points(subject.total_feedback, subject.active_negative)
      BY <1>1, <3>4 DEF t, n
    <3>6. compute(q, clock) <= compute(subject, clock)
      <4>1. PICK p \in Subjects : p = subject
        BY <1>0
      <4>2. /\ Scorable(p) /\ Scorable(q)
            /\ q.first_active_slot = p.first_active_slot
        BY <3>5, <4>1 DEF Scorable, Subjects
      <4> QED BY <1>0, <3>3, <3>5, <4>1, <4>2, ScoreGrows
    <3> QED BY <2>4, <3>1, <3>6
  <2> QED BY <1>0, <2>3, <2>4, <2>5 DEF ScoreInv
<1>6. CASE Revocation
  <2>1. n > 0 /\ subject' = [subject EXCEPT !.active_negative = n - 1]
    BY <1>0, <1>6 DEF Revocation, RevokedFeedback, Subjects, t, n
  <2>2. n - 1 \in Nat
    BY <1>0, <2>1
  <2>3. /\ subject' \in Subjects /\ subject'.services_used = subject.services_used
        /\ subject'.total_transactions = subject.total_transactions
        /\ subject'.consecutive_success = subject.consecutive_success
        /\ subject'.total_feedback = t /\ subject'.active_negative = n - 1
    BY <1>0, <2>1, <2>2 DEF Subjects, t
  <2>4. clock' = clock /\ cause' = "revocation"
    BY <1>6 DEF Revocation
  <2>5. compute(subject', clock') >= compute(subject, clock)
    BY <1>0, <1>1, <1>2, <2>1, <2>3, <2>4 DEF Subjects
  <2> QED BY <1>0, <2>3, <2>4, <2>5 DEF ScoreInv
<1>7. CASE Wait
  <2>1. subject' = subject /\ cause' = "wait" /\ clock' \in Nat /\ clock' > clock
    BY <1>0, <1>7, StartAssumption DEF Wait
  <2>2. compute(subject', clock') >= compute(subject, clock)
    BY <1>0, <1>1, <1>2, <2>1 DEF Subjects, t, n
  <2> QED BY <1>0, <2>1, <2>2 DEF ScoreInv
<1> QED BY <1>3, <1>4, <1>5, <1>6, <1>7 DEF ScoreNext

\* The score answers to conduct, for every profile, bracket and rounding, and
\* not only at the edges the run starts from.
THEOREM ScoreAnswersToConduct == ScoreSpec => ScoreFollowsConduct
<1>1. ScoreInit => ScoreInv
  <2> SUFFICES ASSUME ScoreInit PROVE ScoreInv
    OBVIOUS
  <2>1. clock \in Nat /\ cause = "start"
    BY StartAssumption DEF ScoreInit
  <2>2. PICK tx \in Transactions, sv \in ServiceCounts, st \in Streaks,
             total \in FeedbackTotals : \E neg \in 0..total :
          subject = [NewProfile("owner", 0) EXCEPT
                        !.total_transactions = tx, !.services_used = sv,
                        !.consecutive_success = st, !.total_feedback = total,
                        !.active_negative = neg]
    BY DEF ScoreInit
  <2>3. tx \in Nat /\ sv \in Nat /\ st \in Nat /\ total \in Nat
    BY <2>2, StartAssumption
  <2>4. PICK neg \in 0..total :
          subject = [NewProfile("owner", 0) EXCEPT
                        !.total_transactions = tx, !.services_used = sv,
                        !.consecutive_success = st, !.total_feedback = total,
                        !.active_negative = neg]
    BY <2>2
  <2>5. neg \in Nat /\ neg <= total
    BY <2>3, <2>4
  <2>6. NewProfile("owner", 0) \in Subjects
    BY DEF NewProfile, Subjects
  <2>7. /\ subject \in Subjects
        /\ subject.total_feedback = total /\ subject.active_negative = neg
    BY <2>3, <2>4, <2>5, <2>6 DEF Subjects
  <2> QED BY <2>1, <2>5, <2>7 DEF ScoreInv
<1>2. ScoreInv /\ [ScoreNext]_scoreVars => ScoreInv'
  BY ConductStep DEF ScoreInv, scoreVars
<1>3. ScoreInv /\ [ScoreNext]_scoreVars =>
        [IF cause' = "negative"
         THEN compute(subject', clock') <= compute(subject, clock)
         ELSE compute(subject', clock') >= compute(subject, clock)]_scoreVars
  BY ConductStep
<1> QED BY <1>1, <1>2, <1>3, PTL DEF ScoreSpec, ScoreFollowsConduct

----------------------------------------------------------------------------
(* The score on chain: the same, for every profile and every step of the   *)
(* program, and not only for one profile taken by itself.                  *)

\* In this step some service gives the agent a negative rating.
RatedBadly(a) ==
    \E r \in DOMAIN feedback' \ DOMAIN feedback :
        feedback'[r].pair[1] = a /\ feedback'[r].value < 0

\* The score that compute_score would give never falls in a step but by a negative
\* rating of that very agent, which never raises it.
ConductDecides(a) ==
    IF RatedBadly(a)
    THEN compute(profile'[a], slot') <= compute(profile[a], slot)
    ELSE compute(profile'[a], slot') >= compute(profile[a], slot)

ScoresFollowConduct == [][\A a \in DOMAIN profile : ConductDecides(a)]_vars

\* What the records on chain say of a profile (FeedbackCounted): its ratings
\* include the negative ones.
LEMMA NegativesAreRatings ==
    ASSUME Inv, NEW a \in DOMAIN profile
    PROVE  profile[a].active_negative \in 0..profile[a].total_feedback
<1>1. /\ profile[a].total_feedback = Cardinality(FeedbackOf(a))
      /\ profile[a].active_negative = Cardinality(StandingNegatives(a))
  BY DEF Inv, FeedbackCounted
<1>2. IsFiniteSet(FeedbackOf(a)) /\ IsFiniteSet(StandingNegatives(a))
  BY FeedbackSets DEF Inv
<1>3. StandingNegatives(a) \subseteq FeedbackOf(a)
  BY DEF StandingNegatives
<1>4. Cardinality(StandingNegatives(a)) <= Cardinality(FeedbackOf(a))
  BY <1>2, <1>3, FS_Subset
<1>5. Cardinality(StandingNegatives(a)) \in Nat /\ Cardinality(FeedbackOf(a)) \in Nat
  BY <1>2, FS_CardinalityType
<1> QED BY <1>1, <1>4, <1>5

\* So every profile can be scored.
LEMMA ProfileScorable ==
    ASSUME Inv, NEW a \in DOMAIN profile
    PROVE  /\ profile[a] \in Profiles /\ Scorable(profile[a])
           /\ slot \in Nat /\ a \in Agents
<1>1. profile[a] \in Profiles /\ slot \in Nat /\ a \in Agents
  BY DEF Inv, TypeOK, Partial, Slots
<1>2. /\ profile[a].total_feedback \in Nat
      /\ profile[a].active_negative \in 0..profile[a].total_feedback
  BY <1>1, NegativesAreRatings DEF Profiles
<1>3. feedback_points(profile[a].total_feedback, profile[a].active_negative) \in Nat
  BY <1>2, FeedbackMoves
<1> QED BY <1>1, <1>3 DEF Scorable, Profiles, Slots

\* Before a step and after it.
LEMMA AllScorable ==
    Inv => \A a \in DOMAIN profile : Scorable(profile[a]) /\ slot \in Nat
BY ProfileScorable

\* After a step.
LEMMA AllScorableAfter ==
    Inv' => \A a \in DOMAIN profile' : Scorable(profile'[a]) /\ slot' \in Nat
<1>1. (Inv => \A a \in DOMAIN profile : Scorable(profile[a]) /\ slot \in Nat)'
  BY AllScorable, PTL
<1> QED BY <1>1 DEF Scorable

\* A step in which nothing of the agent's profile gets worse and no rating is
\* given does not lower its score.
LEMMA NothingWorse ==
    ASSUME Inv, Inv', NEW a \in DOMAIN profile, a \in DOMAIN profile', ~RatedBadly(a),
           slot' >= slot,
           profile'[a].first_active_slot = profile[a].first_active_slot,
           profile'[a].total_transactions >= profile[a].total_transactions,
           profile'[a].services_used >= profile[a].services_used,
           profile'[a].consecutive_success >= profile[a].consecutive_success,
           feedback_points(profile'[a].total_feedback, profile'[a].active_negative)
             >= feedback_points(profile[a].total_feedback, profile[a].active_negative)
    PROVE  ConductDecides(a)
<1>0. PICK p, q : p = profile[a] /\ q = profile'[a]
  OBVIOUS
<1>1. PICK s \in Nat, u \in Nat : s = slot /\ u = slot' /\ Scorable(p) /\ Scorable(q)
  <2>1. Scorable(profile[a]) /\ slot \in Nat
    BY ProfileScorable
  <2>2. Scorable(profile'[a]) /\ slot' \in Nat
    BY AllScorableAfter
  <2> QED BY <1>0, <2>1, <2>2
<1>2. /\ s <= u /\ q.first_active_slot = p.first_active_slot
      /\ p.total_transactions <= q.total_transactions
      /\ p.services_used <= q.services_used
      /\ p.consecutive_success <= q.consecutive_success
      /\ feedback_points(p.total_feedback, p.active_negative)
           <= feedback_points(q.total_feedback, q.active_negative)
  BY <1>0, <1>1 DEF Scorable
<1>3. compute(p, s) \in Nat /\ compute(q, u) \in Nat /\ compute(p, s) <= compute(q, u)
  BY <1>1, <1>2, ScoreGrows
<1> QED BY <1>0, <1>1, <1>3 DEF ConductDecides

\* A negative rating lowers the share of good ratings and ends the streak.
LEMMA RatedBadlyLowers ==
    ASSUME Inv, Inv', NEW a \in DOMAIN profile, a \in DOMAIN profile', RatedBadly(a),
           slot' = slot,
           profile'[a].first_active_slot = profile[a].first_active_slot,
           profile'[a].total_transactions = profile[a].total_transactions,
           profile'[a].services_used = profile[a].services_used,
           profile'[a].consecutive_success = 0,
           profile'[a].total_feedback = profile[a].total_feedback + 1,
           profile'[a].active_negative = profile[a].active_negative + 1
    PROVE  ConductDecides(a)
<1>0. PICK p, q : p = profile[a] /\ q = profile'[a]
  OBVIOUS
<1>1. PICK s \in Nat : s = slot /\ Scorable(p) /\ Scorable(q)
  <2>1. Scorable(profile[a]) /\ slot \in Nat
    BY ProfileScorable
  <2>2. Scorable(profile'[a])
    BY AllScorableAfter
  <2> QED BY <1>0, <2>1, <2>2
<1>2. PICK t \in Nat, n \in Nat :
        t = p.total_feedback /\ n = p.active_negative /\ n \in 0..t
  <2>1. p \in Profiles /\ p.active_negative \in 0..p.total_feedback
    BY <1>0, ProfileScorable, NegativesAreRatings
  <2> QED BY <2>1 DEF Profiles
<1>3. feedback_points(q.total_feedback, q.active_negative)
        <= feedback_points(p.total_feedback, p.active_negative)
  <2>1. feedback_points(t + 1, n + 1) <= feedback_points(t, n)
    BY <1>2, FeedbackMoves
  <2> QED BY <1>0, <1>2, <2>1
<1>4. /\ s <= s /\ p.first_active_slot = q.first_active_slot
      /\ q.total_transactions <= p.total_transactions
      /\ q.services_used <= p.services_used
      /\ q.consecutive_success <= p.consecutive_success
  BY <1>0, <1>1 DEF Scorable
<1>5. compute(q, s) <= compute(p, s)
  BY <1>1, <1>3, <1>4, ScoreGrows
<1> QED BY <1>0, <1>1, <1>5 DEF ConductDecides

\* A profile and an hour that stay as they are, with no rating given.
LEMMA ProfileAside ==
    ASSUME Inv, Inv', NEW a \in DOMAIN profile, a \in DOMAIN profile',
           ~RatedBadly(a), slot' >= slot,
           SameCounts(profile[a], profile'[a]),
           profile'[a].first_active_slot = profile[a].first_active_slot,
           profile'[a].consecutive_success = profile[a].consecutive_success
    PROVE  ConductDecides(a)
<1>1. Scorable(profile[a])
  BY ProfileScorable
<1>2. PICK k \in Nat : k = profile[a].total_transactions
  BY <1>1 DEF Scorable
<1>3. PICK l \in Nat : l = profile[a].services_used
  BY <1>1 DEF Scorable
<1>4. PICK m \in Nat : m = profile[a].consecutive_success
  BY <1>1 DEF Scorable
<1>5. PICK n \in Nat : n = feedback_points(profile[a].total_feedback,
                                           profile[a].active_negative)
  BY <1>1 DEF Scorable
<1>6. /\ profile'[a].total_transactions >= profile[a].total_transactions
      /\ profile'[a].services_used >= profile[a].services_used
      /\ profile'[a].consecutive_success >= profile[a].consecutive_success
      /\ feedback_points(profile'[a].total_feedback, profile'[a].active_negative)
           >= feedback_points(profile[a].total_feedback, profile[a].active_negative)
  BY <1>2, <1>3, <1>4, <1>5 DEF SameCounts
<1> QED BY <1>6, NothingWorse

\* The instructions that neither pay nor rate leave the score to the clock.
LEMMA QuietConduct ==
    ASSUME Inv, Inv', Quiet, NEW a \in DOMAIN profile PROVE ConductDecides(a)
<1>0. TypeOK
  BY DEF Inv
<1>1. ProfilesKept /\ FeedbackKept
  BY <1>0, QuietStep
<1>2. a \in DOMAIN profile' /\ SameCounts(profile[a], profile'[a]) /\ ~RatedBadly(a)
  BY <1>1 DEF ProfilesKept, FeedbackKept, RatedBadly
<1>3. slot \in Nat /\ profile[a] \in Profiles
  BY ProfileScorable
<1>4. slot' >= slot
  <2>1. slot' = slot \/ slot' = slot + 1
    BY DEF Quiet, initialize_agent, register_service, set_service_active,
           compute_score, append_response, AdvanceSlot, vars
  <2> QED BY <1>3, <2>1
<1>5. /\ profile'[a].first_active_slot = profile[a].first_active_slot
      /\ profile'[a].consecutive_success = profile[a].consecutive_success
  <2>1. ASSUME NEW b \in Agents, NEW o \in Owners, initialize_agent(b, o)
        PROVE  profile'[a] = profile[a]
    <3> DEFINE prf == NewProfile(o, slot)
    <3>1. b \notin DOMAIN profile /\ profile' = Put(profile, b, prf)
      BY <2>1 DEF initialize_agent
    <3> HIDE DEF prf
    <3> QED BY <3>1 DEF Put
  <2>2. ASSUME NEW b \in Agents, compute_score(b)
        PROVE  /\ profile'[a].first_active_slot = profile[a].first_active_slot
               /\ profile'[a].consecutive_success = profile[a].consecutive_success
    <3>1. profile' = [profile EXCEPT ![b] = [@ EXCEPT !.score = compute(profile[b], slot)]]
      BY <2>2 DEF compute_score
    <3> QED BY <1>3, <3>1 DEF Profiles
  <2>3. CASE profile' = profile
    BY <2>3
  <2> QED BY <2>1, <2>2, <2>3 DEF Quiet, register_service, set_service_active,
         append_response, AdvanceSlot, vars
<1> QED BY <1>2, <1>4, <1>5, ProfileAside

\* Those of the others are not touched by an instruction on one profile.
LEMMA OthersAside ==
    ASSUME Inv, Inv', NEW a \in DOMAIN profile, profile'[a] = profile[a],
           a \in DOMAIN profile', slot' = slot, ~RatedBadly(a)
    PROVE  ConductDecides(a)
<1>1. slot' >= slot /\ SameCounts(profile[a], profile'[a])
  BY ProfileScorable DEF SameCounts
<1> QED BY <1>1, ProfileAside

\* A recorded payment never lowers the score of the agent that paid, and moves no
\* other.
LEMMA PaymentConduct ==
    ASSUME Inv, Inv', NEW b \in Agents, NEW s \in Services, NEW r \in Receipts,
           NEW n \in Amounts, record_payment(b, s, r, n), NEW a \in DOMAIN profile
    PROVE  ConductDecides(a)
<1>0. TypeOK /\ PaymentFrame(b, s, r)
  BY PaymentStep DEF Inv
<1>1. /\ a \in DOMAIN profile' /\ slot' = slot /\ ~RatedBadly(a)
      /\ b \in DOMAIN profile
      /\ a # b => profile'[a] = profile[a]
  BY <1>0 DEF PaymentFrame, RatedBadly
<1>2. CASE a = b
  <2> DEFINE new == <<b, s>> \notin DOMAIN link
  <2>1. profile' = [profile EXCEPT ![b] = CountedPayment(@, n, new)]
    BY DEF record_payment, RecordedPayment
  <2>2. PICK p \in Profiles : p = profile[a] /\ Scorable(p) /\ slot \in Nat
    BY ProfileScorable
  <2> HIDE DEF new
  <2>3. profile'[a] = CountedPayment(p, n, new)
    BY <1>1, <1>2, <2>1, <2>2
  <2>4. /\ profile'[a].first_active_slot = p.first_active_slot
        /\ profile'[a].total_transactions = p.total_transactions + 1
        /\ profile'[a].services_used = IF new THEN p.services_used + 1
                                       ELSE p.services_used
        /\ profile'[a].consecutive_success = p.consecutive_success + 1
        /\ profile'[a].total_feedback = p.total_feedback
        /\ profile'[a].active_negative = p.active_negative
    BY <2>2, <2>3 DEF CountedPayment, Profiles
  <2>5. /\ slot' >= slot
        /\ profile'[a].total_transactions >= p.total_transactions
        /\ profile'[a].services_used >= p.services_used
        /\ profile'[a].consecutive_success >= p.consecutive_success
        /\ feedback_points(profile'[a].total_feedback, profile'[a].active_negative)
             >= feedback_points(p.total_feedback, p.active_negative)
    BY <1>1, <2>2, <2>4 DEF Scorable
  <2> QED BY <1>1, <2>2, <2>4, <2>5, NothingWorse
<1>3. CASE a # b
  BY <1>1, <1>3, OthersAside
<1> QED BY <1>2, <1>3

\* A rating lowers the score of the rated agent when it is negative, raises it or
\* leaves it when it is not, and moves no other.
LEMMA RatingConduct ==
    ASSUME Inv, Inv', NEW b \in Agents, NEW s \in Services, NEW r \in Receipts,
           NEW v \in Values, give_feedback(b, s, r, v), NEW a \in DOMAIN profile
    PROVE  ConductDecides(a)
<1>0. /\ TypeOK /\ RatingFrame(b, s, r) /\ RatingCounted(b, s, r, v)
      /\ v \in Int
  BY RatingStep, RatingCounts, ReputationAssumption DEF Inv
<1>1. /\ a \in DOMAIN profile' /\ slot' = slot /\ b \in DOMAIN profile
      /\ a # b => profile'[a] = profile[a]
      /\ DOMAIN feedback' \ DOMAIN feedback = {r}
      /\ feedback'[r].pair = <<b, s>> /\ feedback'[r].value = v
  BY <1>0 DEF RatingFrame, RatingCounted
<1>2. RatedBadly(a) <=> a = b /\ v < 0
  BY <1>1 DEF RatedBadly
<1>3. CASE a # b
  BY <1>1, <1>2, <1>3, OthersAside
<1>4. CASE a = b
  <2>1. profile' = [profile EXCEPT ![b] = CountedFeedback(@, v)]
    BY DEF give_feedback
  <2>2. PICK p \in Profiles : p = profile[a] /\ Scorable(p) /\ slot \in Nat
    BY ProfileScorable
  <2>3. profile'[a] = CountedFeedback(p, v)
    BY <1>1, <1>4, <2>1, <2>2
  <2>4. /\ profile'[a].first_active_slot = p.first_active_slot
        /\ profile'[a].total_transactions = p.total_transactions
        /\ profile'[a].services_used = p.services_used
        /\ profile'[a].total_feedback = p.total_feedback + 1
        /\ v < 0 => /\ profile'[a].active_negative = p.active_negative + 1
                    /\ profile'[a].consecutive_success = 0
        /\ ~(v < 0) => /\ profile'[a].active_negative = p.active_negative
                       /\ profile'[a].consecutive_success = p.consecutive_success
    BY <2>2, <2>3 DEF CountedFeedback, Profiles
  <2>5. CASE v < 0
    BY <1>1, <1>2, <1>4, <2>2, <2>4, <2>5, RatedBadlyLowers
  <2>6. CASE ~(v < 0)
    <3>1. PICK t \in Nat, m \in Nat :
            t = p.total_feedback /\ m = p.active_negative /\ m \in 0..t
      <4>1. p.active_negative \in 0..p.total_feedback
        BY <2>2, NegativesAreRatings
      <4> QED BY <4>1 DEF Profiles
    <3>2. feedback_points(t + 1, m) >= feedback_points(t, m)
      BY <3>1, FeedbackMoves
    <3>3. /\ slot' >= slot
          /\ profile'[a].total_transactions >= p.total_transactions
          /\ profile'[a].services_used >= p.services_used
          /\ profile'[a].consecutive_success >= p.consecutive_success
      BY <1>1, <2>2, <2>4, <2>6 DEF Scorable
    <3>4. feedback_points(profile'[a].total_feedback, profile'[a].active_negative)
            >= feedback_points(p.total_feedback, p.active_negative)
      BY <2>4, <2>6, <3>1, <3>2
    <3> QED BY <1>1, <1>2, <2>2, <2>4, <2>6, <3>3, <3>4, NothingWorse
  <2> QED BY <1>0, <2>5, <2>6
<1> QED BY <1>3, <1>4

\* A revocation never lowers the score of the agent that was rated, and moves no
\* other.
LEMMA RevocationConduct ==
    ASSUME Inv, Inv', NEW b \in Agents, NEW s \in Services, NEW r \in Receipts,
           revoke_feedback(b, s, r), NEW a \in DOMAIN profile
    PROVE  ConductDecides(a)
<1>0. b \in DOMAIN profile
  <2>1. r \in DOMAIN feedback /\ feedback[r].pair = <<b, s>>
    BY DEF revoke_feedback
  <2> QED BY <2>1, RatedAgentExists DEF Inv
<1>1. Revoked(b, s, r)
  BY <1>0, RevocationStep DEF Inv
<1>2. /\ a \in DOMAIN profile' /\ slot' = slot /\ ~RatedBadly(a)
      /\ a # b => profile'[a] = profile[a]
  BY <1>1 DEF Revoked, RatedBadly
<1>3. CASE a # b
  BY <1>2, <1>3, OthersAside
<1>4. CASE a = b
  <2> DEFINE v == feedback[r].value
  <2>1. /\ profile' = [profile EXCEPT ![b] = RevokedFeedback(@, v)]
        /\ profile'[b].active_negative >= 0
    BY DEF revoke_feedback
  <2>2. PICK p \in Profiles : p = profile[a] /\ Scorable(p) /\ slot \in Nat
    BY ProfileScorable
  <2> HIDE DEF v
  <2>3. profile'[a] = RevokedFeedback(p, v)
    BY <1>0, <1>4, <2>1, <2>2
  <2>4. /\ profile'[a].first_active_slot = p.first_active_slot
        /\ profile'[a].total_transactions = p.total_transactions
        /\ profile'[a].services_used = p.services_used
        /\ profile'[a].consecutive_success = p.consecutive_success
        /\ profile'[a].total_feedback = p.total_feedback
        /\ profile'[a].active_negative = p.active_negative - 1
             \/ profile'[a].active_negative = p.active_negative
    BY <2>2, <2>3 DEF RevokedFeedback, Profiles
  <2>5. PICK t \in Nat, m \in Nat :
          t = p.total_feedback /\ m = p.active_negative /\ m \in 0..t
    <3>1. p.active_negative \in 0..p.total_feedback
      BY <2>2, NegativesAreRatings
    <3> QED BY <3>1 DEF Profiles
  <2>6. feedback_points(profile'[a].total_feedback, profile'[a].active_negative)
          >= feedback_points(p.total_feedback, p.active_negative)
    <3>1. CASE profile'[a].active_negative = m
      <4>1. feedback_points(t, m) \in Nat
        BY <2>5, FeedbackMoves
      <4> QED BY <2>4, <2>5, <3>1, <4>1
    <3>2. CASE profile'[a].active_negative = m - 1
      <4>1. m > 0
        BY <1>4, <2>1, <3>2
      <4>2. feedback_points(t, m - 1) >= feedback_points(t, m)
        BY <2>5, <4>1, FeedbackMoves
      <4> QED BY <2>4, <2>5, <3>2, <4>2
    <3> QED BY <2>4, <2>5, <3>1, <3>2
  <2>7. /\ slot' >= slot
        /\ profile'[a].total_transactions >= p.total_transactions
        /\ profile'[a].services_used >= p.services_used
        /\ profile'[a].consecutive_success >= p.consecutive_success
    BY <1>2, <2>2, <2>4 DEF Scorable
  <2> QED BY <1>2, <2>2, <2>4, <2>6, <2>7, NothingWorse
<1> QED BY <1>3, <1>4

\* On chain, too, the score answers to conduct: however agents, services and
\* owners interleave, the score compute_score would give an agent falls only by a
\* negative rating of that agent, and no negative rating raises it.
THEOREM ScoresAnswerOnChain == Spec => ScoresFollowConduct
<1>1. Inv /\ Inv' /\ [Next]_vars => \A a \in DOMAIN profile : ConductDecides(a)
  BY Steps, QuietConduct, PaymentConduct, RatingConduct, RevocationConduct
<1>2. Inv /\ Inv' /\ [Next]_vars => [\A a \in DOMAIN profile : ConductDecides(a)]_vars
  BY <1>1
<1> QED BY <1>2, Invariance, PTL DEF Spec, ScoresFollowConduct
============================================================================
