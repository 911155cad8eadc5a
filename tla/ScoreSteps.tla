----------------------------- MODULE ScoreSteps -----------------------------
(***************************************************************************)
(* How the score of one profile reacts to each instruction, from profiles  *)
(* at the edges of every bracket of compute_score.  The steps are the      *)
(* effects on the profile that Reputation's instructions have; the first   *)
(* state is any profile whose counters FeedbackCounted allows.  A behaviour*)
(* is one step: the property compares the score before and after it.      *)
(***************************************************************************)
EXTENDS AgentProfile

CONSTANTS
    Transactions, ServiceCounts, Streaks, FeedbackTotals,
        \* the counters of the profiles the steps start from
    Tenures     \* slots since registration

ASSUME StartAssumption ==
    /\ Transactions \subseteq Nat /\ ServiceCounts \subseteq Nat
    /\ Streaks \subseteq Nat /\ FeedbackTotals \subseteq Nat
    /\ Tenures \subseteq Nat

VARIABLES subject, clock, cause
scoreVars == <<subject, clock, cause>>

ScoreInit ==
    /\ \E tx \in Transactions, sv \in ServiceCounts, st \in Streaks,
          total \in FeedbackTotals : \E neg \in 0..total :
          /\ sv <= tx /\ st <= tx /\ total <= tx
          /\ subject = [NewProfile("owner", 0) EXCEPT
                    !.total_transactions = tx, !.services_used = sv,
                    !.consecutive_success = st, !.total_feedback = total,
                    !.active_negative = neg]
    /\ clock \in Tenures
    /\ cause = "start"

Payment ==
    /\ cause = "start"
    /\ \E new \in BOOLEAN : subject' = CountedPayment(subject, 1, new)
    /\ cause' = "payment" /\ UNCHANGED clock

Rating(value) ==
    /\ cause = "start"
    /\ subject' = CountedFeedback(subject, value)
    /\ cause' = IF value < 0 THEN "negative" ELSE "rating"
    /\ UNCHANGED clock

Revocation ==
    /\ cause = "start" /\ subject.active_negative > 0
    /\ subject' = RevokedFeedback(subject, -1)
    /\ cause' = "revocation" /\ UNCHANGED clock

Wait ==
    /\ cause = "start"
    /\ clock' \in {t \in Tenures : t > clock}
    /\ cause' = "wait" /\ UNCHANGED subject

ScoreNext == Payment \/ Rating(-1) \/ Rating(0) \/ Rating(1) \/ Revocation \/ Wait

ScoreSpec == ScoreInit /\ [][ScoreNext]_scoreVars

\* The score answers to conduct: a recorded payment, a rating that is not
\* negative, a revocation and the passing of time never lower the score that
\* compute_score gives, and a negative rating never raises it, whatever the
\* rounding of the penalty and wherever the brackets cut.
ScoreFollowsConduct ==
    [][IF cause' = "negative"
       THEN compute(subject', clock') <= compute(subject, clock)
       ELSE compute(subject', clock') >= compute(subject, clock)]_scoreVars

============================================================================
