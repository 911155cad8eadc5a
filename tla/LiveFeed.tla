------------------------------ MODULE LiveFeed ------------------------------
(***************************************************************************)
(* The live side of the web console: the sockets of lib/api/live.ts, the   *)
(* agent screen's frames merged into the query cache (useLiveAgent.ts),    *)
(* the fleet ticker (useFleetTicker.ts), and the REST pages that race with *)
(* them (useAgentActivityQuery, useAgentScoreHistoryQuery).  The views of  *)
(* FleetViews are computed from the cache and the ticker.                  *)
(***************************************************************************)
EXTENDS FleetViews

CONSTANTS
    Visited,      \* the agents whose screen is opened
    MaxEvents,    \* bound: events of the agents
    Times,        \* bound: the instants of the clock
    MaxSubs,      \* bound: subscriptions of the agent screen not yet closed
    MaxSamples,   \* bound: samples of a score history
    MaxBuffered,  \* MAX_BUFFERED_ACTIVITY
    MaxTicker,    \* MAX_TICKER
    PageLimit,    \* rows of a REST page
    None          \* no value

ASSUME FeedAssumption ==
    /\ Visited \subseteq Agents /\ MaxEvents \in Nat /\ Times \in (SUBSET Nat) \ {{}} /\ MaxSubs \in Nat
    /\ MaxSamples \in Nat
    /\ MaxBuffered \in Nat \ {0} /\ MaxTicker \in Nat \ {0}
    /\ PageLimit \in 1..MaxBuffered

VARIABLES
    events,       \* the backend's events, oldest first
    now,
    screen,       \* the subscription of the mounted agent screen, or None
    subs,         \* subscriptions: agent, alive flag and socket
    ticker,       \* the buffer of the mounted fleet feed's ticker, newest first
    activity,     \* the activity query of each agent: rows, or None
    pages,        \* its fetch under way: the page the backend read, or None
    scores        \* the score history of each agent

feedVars == <<events, now, screen, subs, ticker, activity, pages, scores>>

Subs == 1..MaxSubs
NoSub == [agent |-> None, alive |-> FALSE, socket |-> "closed"]

FeedInit ==
    /\ events = <<>> /\ now = Min(Times)
    /\ screen = None /\ subs = [s \in Subs |-> NoSub]
    /\ ticker = <<>>
    /\ activity = [a \in Agents |-> None] /\ pages = [a \in Agents |-> None]
    /\ scores = [a \in Agents |-> <<>>]

Prepended(x, s, n) == Slice(<<x>> \o s, n)

-----------------------------------------------------------------------------
(* The backend. *)

\* An event is stored.  The hub pushes it to the sockets then open on its
\* agent, and again whenever the webhook delivers it again.
Emit(a, name) ==
    /\ Len(events) < MaxEvents
    /\ events' = Append(events, [agent |-> a, name |-> name, at |-> now])
    /\ UNCHANGED <<now, screen, subs, ticker, activity, pages, scores>>

EventsOf(a) == {i \in 1..Len(events) : events[i].agent = a}

\* A page: the newest rows, with the time the backend received them.
Page(a) ==
    LET newest == Slice(Descending(EventsOf(a), [e \in EventsOf(a) |-> e]), PageLimit)
    IN  [i \in DOMAIN newest |-> [id |-> newest[i], ts |-> events[newest[i]].at]]

Tick ==
    /\ \E t \in Times : t > now
    /\ now' = Min({t \in Times : t > now})
    /\ UNCHANGED <<events, screen, subs, ticker, activity, pages, scores>>

-----------------------------------------------------------------------------
(* Sockets of the agent screen. *)

Socket(s, to) == subs' = [subs EXCEPT ![s].socket = to]

AgentDetail(a) ==
    /\ screen = None
    /\ \E s \in Subs :
         /\ ~subs[s].alive /\ subs[s].socket = "closed"
         /\ subs' = [subs EXCEPT ![s] = [NoSub EXCEPT !.agent = a, !.alive = TRUE,
                                                      !.socket = "connecting"]]
         /\ screen' = s
    /\ ticker' = <<>>
    /\ UNCHANGED <<events, now, activity, pages, scores>>

\* An open socket is closed and a timer cleared; a socket that is still
\* connecting is left to itself, and its listeners stay.
unsubscribe ==
    /\ screen # None /\ screen' = None
    /\ subs' = [subs EXCEPT ![screen].alive = FALSE,
                  ![screen].socket = IF @ = "connecting" THEN @ ELSE "closed"]
    /\ UNCHANGED <<events, now, ticker, activity, pages, scores>>

onOpen(s) ==
    /\ subs[s].socket = "connecting" /\ Socket(s, "open")
    /\ UNCHANGED <<events, now, screen, ticker, activity, pages, scores>>

onClose(s) ==
    /\ subs[s].socket \in {"connecting", "open"}
    /\ Socket(s, IF subs[s].alive THEN "waiting" ELSE "closed")
    /\ UNCHANGED <<events, now, screen, ticker, activity, pages, scores>>

connect(s) ==
    /\ subs[s].socket = "waiting" /\ Socket(s, "connecting")
    /\ UNCHANGED <<events, now, screen, ticker, activity, pages, scores>>

-----------------------------------------------------------------------------
(* Frames. *)

mergeEventAlways(prev, id) ==
    IF prev = None THEN <<frameToRow(id, now)>>
    ELSE Prepended(frameToRow(id, now), prev, MaxBuffered)

mergeEvent(prev, id) ==
    IF prev = None THEN <<frameToRow(id, now)>>
    ELSE IF id \in Ids(prev) THEN prev
    ELSE Prepended(frameToRow(id, now), prev, MaxBuffered)

ActivityOfAll(a) == Agents

\* The queries a frame of agent a is merged into.
ActivityOf(a) == {a}

Queried(a) == activity[a] # None \/ pages[a] # None

\* A frame of the hub.  Samples are appended without a look at the others.
useLiveAgent(s, id) ==
    LET me == subs[s].agent
        sample == events[id].name = "ScoreComputed"
    IN
    /\ subs[s].socket = "open" /\ id \in EventsOf(me)
    /\ activity' = [a \in Agents |->
          IF a \in ActivityOf(me) /\ Queried(a)
          THEN mergeEvent(activity[a], id) ELSE activity[a]]
    /\ sample => Len(scores[me]) < MaxSamples
    /\ scores' = IF sample THEN [scores EXCEPT ![me] = Append(@, id)] ELSE scores
    /\ UNCHANGED <<events, now, screen, subs, ticker, pages>>

\* The ticker has a socket for each agent, which may be down when an event is
\* pushed: frames are missed, and the pushes of two agents come in any order.
\* The fleet, activity and analytics screens each have a ticker of their own;
\* one screen is mounted at a time, and the agent screen has no feed.
useFleetTicker(id) ==
    /\ screen = None /\ id \in 1..Len(events)
    /\ ticker' = IF Contains(ticker, id) THEN ticker ELSE Prepended(id, ticker, MaxTicker)
    /\ UNCHANGED <<events, now, screen, subs, activity, pages, scores>>

\* The operator leaves a screen with a feed: its buffer is state of the hook,
\* so that the next screen starts with none.
FeedUnmounts ==
    /\ screen = None /\ ticker' = <<>>
    /\ UNCHANGED <<events, now, screen, subs, activity, pages, scores>>

-----------------------------------------------------------------------------
(* REST. *)

\* The agent screen and the fleet feed share the query of the head page; its
\* rows are those of the moment the backend answers.  Fetches of two agents
\* write different queries, so that one under way at a time is enough.
useAgentActivityQuery(a) ==
    /\ \A b \in Agents : pages[b] = None
    /\ pages' = [pages EXCEPT ![a] = Page(a)]
    /\ UNCHANGED <<events, now, screen, subs, ticker, activity, scores>>

\* The answer becomes the query's data; after an error the data stays.
PageResolved(a) ==
    /\ pages[a] # None /\ pages' = [pages EXCEPT ![a] = None]
    /\ \/ activity' = [activity EXCEPT ![a] = pages[a]]
       \/ UNCHANGED activity
    /\ UNCHANGED <<events, now, screen, subs, ticker, scores>>

\* The backfill button of the agent screen: once the indexer has caught up, the
\* queries are invalidated, and a fetch under way is dropped for a new one.
useBackfillAgent(a) ==
    /\ screen # None /\ subs[screen].agent = a
    /\ \A b \in Agents \ {a} : pages[b] = None
    /\ pages' = [pages EXCEPT ![a] = Page(a)]
    /\ UNCHANGED <<events, now, screen, subs, ticker, activity, scores>>

\* score_history answers newest first.  The query is refetched as a whole.
useAgentScoreHistoryQuery(a) ==
    LET samples == {i \in EventsOf(a) : events[i].name = "ScoreComputed"} IN
    /\ samples # {} /\ a \in Visited
    /\ scores' = [scores EXCEPT ![a] = Descending(samples, [e \in samples |-> e])]
    /\ UNCHANGED <<events, now, screen, subs, ticker, activity, pages>>

-----------------------------------------------------------------------------
FeedNext ==
    \/ \E a \in Agents :
         \/ Emit(a, "Spent")
         \/ a \in Visited /\ (Emit(a, "ScoreComputed") \/ AgentDetail(a))
         \/ useAgentActivityQuery(a) \/ PageResolved(a)
         \/ useAgentScoreHistoryQuery(a) \/ useBackfillAgent(a)
    \/ Tick \/ unsubscribe \/ FeedUnmounts
    \/ \E s \in Subs : onOpen(s) \/ onClose(s) \/ connect(s)
    \/ \E id \in 1..MaxEvents : useFleetTicker(id) \/ \E s \in Subs : useLiveAgent(s, id)

FeedSpec == FeedInit /\ [][FeedNext]_feedVars

-----------------------------------------------------------------------------
(* Properties. *)

Rows(a) == IF activity[a] = None THEN <<>> ELSE activity[a]
FleetAt(t) == useFleetActivity([a \in Agents |-> Rows(a)], ticker, t)
Fleet == FleetAt(now)
Known == (UNION {Ids(Rows(a)) : a \in Agents}) \cup ToSet(ticker)

\* Buffers stay within their limits.
FeedTypeOK ==
    /\ screen \in Subs \cup {None} /\ now \in Times
    /\ \A a \in Agents : Len(Rows(a)) <= MaxBuffered
    /\ Len(ticker) <= MaxTicker
    /\ screen # None => subs[screen].alive

\* An event is one row, however often it reaches the console: by a page, by the
\* screen's socket, and by a socket the screen left while it was connecting.
OneRowPerEvent ==
    /\ \A a \in Agents : \A i, j \in 1..Len(Rows(a)) :
         Rows(a)[i].id = Rows(a)[j].id => i = j
    /\ \A i, j \in 1..Len(ticker) : ticker[i] = ticker[j] => i = j

\* A frame of one agent never shows on another's page.
OwnActivity == \A a \in Agents : Ids(Rows(a)) \subseteq EventsOf(a)

\* The merged feed is newest first, and its limit cuts off the oldest.
FeedKeepsNewest ==
    LET feed == Fleet IN
    /\ \A i \in 1..(Len(feed) - 1) : feed[i].id > feed[i + 1].id
    /\ \A i \in Known \ Ids(feed), r \in ToSet(feed) : r.id > i

\* The rows are computed when a query or the ticker changes, and kept until the
\* next change: at an instant since the latest event of the ticker was stored.
RenderTimes == {t \in Times : t <= now /\ \A i \in ToSet(ticker) : events[i].at <= t}

\* No query has the time the backend stored the spend at, only a frame's arrival.
DatedOnArrival(s) ==
    \A a \in Agents : \A r \in ToSet(Rows(a)) : r.id = s.id => r.ts # events[s.id].at

StoredSince(spends, start) == {s \in spends : events[s.id].at >= start}

\* The most a figure may count: those, and the ones dated on arrival.
LateSince(spends, start) ==
    {s \in spends : events[s.id].at >= start \/ DatedOnArrival(s)}

VolumeSince(figure, spends, start) ==
    /\ Volume(StoredSince(spends, start)) <= figure
    /\ figure <= Volume(LateSince(spends, start))

CountSince(figure, spends, start) ==
    /\ Cardinality(StoredSince(spends, start)) <= figure
    /\ figure <= Cardinality(LateSince(spends, start))

RangeStart(range) == IF range = All THEN 0 ELSE now - range * TicksPerDay

SpendsOf(spends, a) == {s \in spends : s.agent = a}

\* The 24 hours of the cards.
CardsCounted(spends) ==
    LET cards == useEnrichedAgents(spends, now) IN
    \A a \in Agents :
        LET own == SpendsOf(spends, a)
        IN  /\ VolumeSince(cards[a].volume, own, now - TicksPerDay)
            /\ CountSince(cards[a].tx, own, now - TicksPerDay)

\* The charts of a range.  The services and the heatmap go back from this
\* instant, the bars from midnight: they never add up to more.
ChartsCounted(spends, range) ==
    LET services == Total(buildServiceBreakdown(spends, range, now))
        matrix == buildHourlyMatrix(spends, range, now)
        bars == Total(buildSpendSeries(spends, range, now))
    IN  /\ VolumeSince(services, spends, RangeStart(range))
        /\ VolumeSince(bars, spends, windowStart(range, now))
        /\ \A a \in Agents :
             CountSince(Total(matrix[a]), SpendsOf(spends, a), RangeStart(range))
        /\ bars <= services

\* Each figure of the cards and, for every range, of the charts counts the
\* spends of the feed that the backend stored in its window, and beyond them at
\* most spends that only a late frame told the console of: a history's time,
\* once known, is the one that counts.
SpendsCounted ==
    \A spends \in {Spends(FleetAt(t), events) : t \in RenderTimes} :
        CardsCounted(spends) /\ \A range \in Ranges : ChartsCounted(spends, range)

\* The panel's score is the newest sample's, although the backend answers
\* newest first and the socket's samples, some of them again, are appended.
PanelShowsNewest ==
    \A a \in Agents : scores[a] # <<>> =>
        \A p \in ToSet(scores[a]) : p <= ScorePanel(scores[a])

\* However frames and pages interleave, an event is one row of its own agent.
RowsInPlace == OneRowPerEvent /\ OwnActivity

\* What the console shows as newest is the newest it knows.
NewestShown == FeedKeepsNewest /\ PanelShowsNewest

=============================================================================
