----------------------------- MODULE FleetViews -----------------------------
(***************************************************************************)
(* What the console derives from its agents' activity: the merged feed     *)
(* (pages/Console/useFleetActivity.ts), the figures on the agent cards     *)
(* (screens/Fleet.tsx), the analytics charts (screens/Analytics.tsx) and   *)
(* the score panel (screens/AgentDetail.tsx).                              *)
(*                                                                         *)
(* An event is its number, which orders it as (slot, log_index) does; a    *)
(* row is an event with the time it was received.  Amounts, services and   *)
(* scores are functions of the event, so that two sums over different rows *)
(* differ.                                                                 *)
(***************************************************************************)
EXTENDS Integers, Sequences, FiniteSets, SequencesExt, FiniteSetsExt, FiniteSums

CONSTANTS
    Agents,       \* the agents of the signed-in owner
    RangeDays,    \* the finite ranges of the analytics screen, in days (RANGE_DAYS)
    DefaultDays,  \* the days the bars cover when the range has no end (`?? 30`)
    PerAgentLimit,\* PER_AGENT_LIMIT
    TicksPerDay   \* ticks of the clock in a day

ASSUME ViewAssumption ==
    /\ IsFiniteSet(Agents)
    /\ RangeDays \in SUBSET (Nat \ {0}) /\ DefaultDays \in Nat \ {0}
    /\ PerAgentLimit \in Nat \ {0} /\ TicksPerDay \in Nat \ {0}

\* The range "all" has no number of days.
All == 0
Ranges == RangeDays \cup {All}

Hours == 0..(TicksPerDay - 1)
Services == {"even", "odd"}

amount_usdc(e) == e.id
serviceOf(e) == IF e.id % 2 = 0 THEN "even" ELSE "odd"

Ids(rows) == {r.id : r \in ToSet(rows)}

\* The elements of S, the highest key first: Array.sort with a comparison of
\* keys.  Equal keys may come in either order.
Descending(S, key) ==
    CHOOSE q \in [1..Cardinality(S) -> S] :
        \A i, j \in DOMAIN q : i < j => q[i] # q[j] /\ key[q[i]] >= key[q[j]]

\* slice(0, n)
Slice(s, n) == SubSeq(s, 1, IF Len(s) < n THEN Len(s) ELSE n)

-----------------------------------------------------------------------------
(* The merged feed: histories and live frames, one row per event. *)

\* A frame whose event is not in a history is a row received just now.
frameToRow(id, now) == [id |-> id, ts |-> now]

SliceThenSort(rows, n) ==
    LET first == Slice(Descending(rows, [r \in rows |-> -r.id]), n)
    IN  Descending(ToSet(first), [r \in rows |-> r.id])

SortThenSlice(rows, n) == Slice(Descending(rows, [r \in rows |-> r.id]), n)

useFleetActivityLiveFirst(histories, live, now) ==
    LET known == UNION {ToSet(histories[a]) : a \in Agents}
    IN  SortThenSlice({r \in known : r.id \notin ToSet(live)}
                          \cup {frameToRow(i, now) : i \in ToSet(live)},
                      PerAgentLimit * Max({1, Cardinality(Agents)}))

\* On a collision the history's row stays.
useFleetActivity(histories, live, now) ==
    LET known == UNION {ToSet(histories[a]) : a \in Agents}
        fresh == ToSet(live) \ {r.id : r \in known}
    IN  SortThenSlice(known \cup {frameToRow(i, now) : i \in fresh},
                      PerAgentLimit * Max({1, Cardinality(Agents)}))

-----------------------------------------------------------------------------
(* Sums over the feed.  spends: the Spent rows with their events.          *)

Spends(rows, events) ==
    {[id |-> r.id, ts |-> r.ts, agent |-> events[r.id].agent] :
        r \in {x \in ToSet(rows) : events[x.id].name = "Spent"}}

Volume(spends) == SumOver([s \in spends |-> amount_usdc(s)], spends)

\* The cards: what an agent spent in the last 24 hours, and how often.
useEnrichedAgents(spends, now) ==
    [a \in Agents |->
        LET recent == {s \in spends : s.agent = a /\ s.ts >= now - TicksPerDay}
        IN  [volume |-> Volume(recent), tx |-> Cardinality(recent)]]

\* The spends the heatmap and the services keep: "all" has no lower bound.
rangeWindow(spends, range, now) ==
    {s \in spends : range # All => s.ts >= now - range * TicksPerDay}

buildServiceBreakdown(spends, range, now) ==
    LET window == rangeWindow(spends, range, now)
    IN  [v \in Services |-> Volume({s \in window : serviceOf(s) = v})]

buildHourlyMatrixUnwindowed(spends, range, now) ==
    [a \in Agents |-> [h \in Hours |->
        Cardinality({s \in spends : s.agent = a /\ s.ts % TicksPerDay = h})]]

buildHourlyMatrix(spends, range, now) ==
    LET window == rangeWindow(spends, range, now)
    IN  [a \in Agents |-> [h \in Hours |->
            Cardinality({s \in window : s.agent = a /\ s.ts % TicksPerDay = h})]]

\* The bars cover a fixed number of days even for "all", and start at midnight
\* of the first.
Days(range) == IF range = All THEN DefaultDays ELSE range

windowStart(range, now) == (now \div TicksPerDay - (Days(range) - 1)) * TicksPerDay

buildSpendSeries(spends, range, now) ==
    LET start == windowStart(range, now)
        day(s) == 1 + Min({Days(range) - 1, (s.ts - start) \div TicksPerDay})
    IN  [i \in 1..Days(range) |-> Volume({s \in spends : s.ts >= start /\ day(s) = i})]

Total(f) == SumOver(f, DOMAIN f)

-----------------------------------------------------------------------------
(* Scores: a sample, and its score, is the number of its event, which      *)
(* orders samples as their slots do.                                       *)

ScorePanelUnsorted(history) == Last(history)

\* The panel shows the sample of the highest slot.
ScorePanel(history) ==
    LET oldestFirst == Descending(DOMAIN history, [i \in DOMAIN history |-> -history[i]])
    IN  history[Last(oldestFirst)]

=============================================================================
