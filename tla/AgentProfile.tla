---------------------------- MODULE AgentProfile ----------------------------
(***************************************************************************)
(* The AgentProfile account of the reputation program: what each           *)
(* instruction does to one profile, and the score computed from it         *)
(* (programs/reputation/src).  Pure operators; a profile here holds the    *)
(* fields the score and the counters' consistency depend on.               *)
(***************************************************************************)
EXTENDS Integers

CONSTANTS
    SlotsPerDay,                \* SLOTS_PER_DAY
    MaxU16, MaxU32, MaxU64      \* the widths of the counters

ASSUME WidthsAssumption ==
    /\ SlotsPerDay \in Nat \ {0}
    /\ MaxU16 \in Nat /\ MaxU32 \in Nat /\ MaxU64 \in Nat

NewProfile(owner, slot) ==
    [owner |-> owner, total_transactions |-> 0, total_volume |-> 0,
     consecutive_success |-> 0, total_feedback |-> 0, active_negative |-> 0,
     services_used |-> 0, first_active_slot |-> slot, score |-> 0]

CountedPayment(p, amount, new_pair) ==
    [p EXCEPT !.services_used = IF new_pair THEN @ + 1 ELSE @,
              !.total_transactions = @ + 1,
              !.total_volume = @ + amount,
              !.consecutive_success = @ + 1]

\* The checked_adds of give_feedback, and of record_payment, fit.
FitsProfile(p) ==
    /\ p.total_transactions <= MaxU64 /\ p.total_volume <= MaxU64
    /\ p.consecutive_success <= MaxU32 /\ p.total_feedback <= MaxU32
    /\ p.active_negative <= MaxU32 /\ p.services_used <= MaxU16

\* Mutant: a negative rating breaks no streak and moves no counter.
CountedFeedbackIgnored(p, value) == [p EXCEPT !.total_feedback = @ + 1]

CountedFeedback(p, value) ==
    [p EXCEPT !.total_feedback = @ + 1,
              !.active_negative = IF value < 0 THEN @ + 1 ELSE @,
              !.consecutive_success = IF value < 0 THEN 0 ELSE @]

\* Mutant: a revocation takes any rating off the negative count.
RevokedFeedbackAlways(p, value) == [p EXCEPT !.active_negative = @ - 1]

\* Neither total_feedback nor the streak is given back.
RevokedFeedback(p, value) ==
    [p EXCEPT !.active_negative = IF value < 0 THEN @ - 1 ELSE @]

----------------------------------------------------------------------------
(* compute_score.                                                          *)

Lesser(m, n) == IF m < n THEN m ELSE n
SaturatingSub(m, n) == IF m > n THEN m - n ELSE 0

VolumeWeight == 250
DiversityCap == 4
StreakCap == 15
TenureWeight == 150
FeedbackWeight == 250
NeutralFeedbackBonus == 100
MaxScore == 1000

volume_points(total_transactions) ==
    CASE total_transactions = 0       -> 0
      [] total_transactions \in 1..9  -> 50
      [] total_transactions \in 10..99 -> 125
      [] OTHER                        -> VolumeWeight

diversity_points(services_used) == 50 * Lesser(services_used, DiversityCap)

streak_points(consecutive_success) ==
    10 * Lesser(consecutive_success, StreakCap)

tenure_points(first_slot, current_slot) ==
    LET tenure == SaturatingSub(current_slot, first_slot) IN
    CASE tenure < SlotsPerDay -> 0
      [] tenure >= SlotsPerDay /\ tenure < 7 * SlotsPerDay -> 50
      [] tenure >= 7 * SlotsPerDay /\ tenure < 30 * SlotsPerDay -> 100
      [] OTHER -> TenureWeight

feedback_points(total, active_negative) ==
    IF total = 0 THEN NeutralFeedbackBonus
    ELSE SaturatingSub(FeedbackWeight,
            (FeedbackWeight * Lesser(active_negative, total)) \div total)

compute(p, current_slot) ==
    Lesser(volume_points(p.total_transactions)
             + diversity_points(p.services_used)
             + streak_points(p.consecutive_success)
             + tenure_points(p.first_active_slot, current_slot)
             + feedback_points(p.total_feedback, p.active_negative),
           MaxScore)
============================================================================
