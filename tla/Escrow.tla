------------------------------- MODULE Escrow -------------------------------
(***************************************************************************)
(* What a credit vault promises its owner, without token accounts, policy  *)
(* or clock: an escrow that is never overdrawn, that pays nothing while it *)
(* is stopped, and in which every request is settled at most once.         *)
(* CreditVault implements it (ImplementsEscrow).                           *)
(***************************************************************************)
EXTENDS Integers

CONSTANT Sums     \* the sums that are moved at once

VARIABLES
    funds,      \* what the escrow holds
    given,      \* all that was ever put in
    paid,       \* all that was ever paid
    returned,   \* all that was ever taken back
    stopped,    \* payments and requests are stopped
    asked,      \* number of requests ever made
    open        \* the requests not yet settled

escrow == <<funds, given, paid, returned, stopped, asked, open>>

Init ==
    /\ funds = 0 /\ given = 0 /\ paid = 0 /\ returned = 0
    /\ stopped = FALSE /\ asked = 0 /\ open = {}

PutIn(n) ==
    /\ funds' = funds + n /\ given' = given + n
    /\ UNCHANGED <<paid, returned, stopped, asked, open>>

\* What goes out is there; sent to the escrow itself, it is put in again.
Out(n) ==
    /\ n > 0 /\ n <= funds
    /\ \/ funds' = funds - n /\ given' = given
       \/ funds' = funds /\ given' = given + n

Pay(n) ==
    /\ ~stopped /\ Out(n)
    /\ paid' = paid + n
    /\ UNCHANGED <<returned, stopped, asked>>

\* A payment of its own, or the settlement of a request by one.
PayDirect(n) == Pay(n) /\ UNCHANGED open

PayRequest(n, r) == Pay(n) /\ r \in open /\ open' = open \ {r}

TakeOut(n) ==
    /\ Out(n)
    /\ returned' = returned + n
    /\ UNCHANGED <<paid, stopped, asked, open>>

Ask ==
    /\ ~stopped
    /\ asked' = asked + 1 /\ open' = open \cup {asked}
    /\ UNCHANGED <<funds, given, paid, returned, stopped>>

Drop(r) ==
    /\ r \in open /\ open' = open \ {r}
    /\ UNCHANGED <<funds, given, paid, returned, stopped, asked>>

Toggle ==
    /\ stopped' = ~stopped
    /\ UNCHANGED <<funds, given, paid, returned, asked, open>>

Next ==
    \/ \E n \in Sums : PutIn(n) \/ PayDirect(n) \/ TakeOut(n)
    \/ \E n \in Sums, r \in open : PayRequest(n, r)
    \/ Ask \/ Toggle
    \/ \E r \in open : Drop(r)

Spec == Init /\ [][Next]_escrow

=============================================================================
