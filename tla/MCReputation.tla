---------------------------- MODULE MCReputation ----------------------------
(* An instance of Reputation for TLC: receipts are interchangeable.        *)
EXTENDS Reputation, TLC

\* One value outside the accepted range, one negative, one positive.
FeedbackValues == {-101, -1, 1}

ReceiptSymmetry == Permutations(Receipts)
============================================================================
