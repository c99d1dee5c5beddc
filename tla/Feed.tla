-------------------------------- MODULE Feed --------------------------------
(***************************************************************************)
(* One browser that watches one market: the relay of its server            *)
(* (adapters/src/relay.rs), the process's broadcast channel, the WebSocket *)
(* connection (adapters/src/http/ws.rs) and the client (web/lib/ws.ts and  *)
(* the market page).                                                       *)
(*                                                                         *)
(* A price or tally frame carries what a query reads when the event is     *)
(* served, a lifecycle frame carries the event's own state, a snapshot     *)
(* carries everything and has no sequence number.  The clock of a query is *)
(* read before the query runs.                                             *)
(***************************************************************************)
EXTENDS Naturals, Sequences, FiniteSets

CONSTANTS
    NewsLimit,   \* how many events of each kind are committed (bound)
    BusCap,      \* capacity of the broadcast channel (256 in the code)
    MaxDrops,    \* lost connections (bound)
    MaxResends,  \* relay transactions that fail after their sends (bound)
    MaxMisses    \* failed snapshot queries (bound)

ASSUME FeedAssumption ==
    /\ NewsLimit \in [{"trade", "vote", "advance"} -> Nat]
    /\ BusCap \in Nat \ {0} /\ {MaxDrops, MaxResends, MaxMisses} \subseteq Nat

VARIABLES
    news,     \* the market's committed events, in seq order
    hushed,   \* tally_hidden_at is past
    aired,    \* the relay's transaction has sent the events up to this one
    marked,   \* published_at is set up to this one
    line,     \* the connection: "down", "open", "subscribed", "closing"
    bus,      \* events this connection's receiver has not taken
    lagged,   \* the channel overwrote one of them
    serving,  \* the query the connection waits for
    wire,     \* frames on their way to the client
    known,    \* the client's dedupe set
    page,     \* what the client shows
    drops, resends, misses,
    missed    \* history: a query of the present connection has failed

newsVars == <<news, hushed>>
relayVars == <<aired, marked, resends>>
lineVars == <<line, bus, lagged, serving, wire, known, page, drops, misses, missed>>
feedVars == <<newsVars, relayVars, lineVars>>

Idle == [op |-> "idle"]

FeedInit ==
    /\ news = <<>> /\ hushed = FALSE
    /\ aired = 0 /\ marked = 0
    /\ line = "down" /\ bus = <<>> /\ lagged = FALSE /\ serving = Idle
    /\ wire = <<>> /\ known = {}
    /\ page = [price |-> 0, stage |-> 0, tally |-> "unknown", votes |-> 0]
    /\ drops = 0 /\ resends = 0 /\ misses = 0 /\ missed = FALSE

HowMany(kind, n) == Cardinality({i \in 1..n : news[i] = kind})

\* market_snapshot: prices, state and counts are those of the moment of the query.
Price == HowMany("trade", Len(news))
MarketStage == HowMany("advance", Len(news))
Votes == HowMany("vote", Len(news))

-----------------------------------------------------------------------------
\* The market.  Trades and votes end with the close, the second advance;
\* an administrator may advance before the tally hides.

CommitNews(kind) ==
    /\ HowMany(kind, Len(news)) < NewsLimit[kind]
    /\ kind # "advance" => MarketStage < 2
    /\ news' = Append(news, kind)
    /\ UNCHANGED <<hushed, relayVars, lineVars>>

\* The clock passes tally_hidden_at; the scheduler advances the market later.
TallyHides ==
    /\ ~hushed
    /\ hushed' = TRUE
    /\ UNCHANGED <<news, relayVars, lineVars>>

-----------------------------------------------------------------------------
\* The relay.

\* tx.send: a receiver that is BusCap behind loses its oldest event.
RelayAirs ==
    /\ aired < Len(news)
    /\ aired' = aired + 1
    /\ IF line \notin {"open", "subscribed"}
       THEN UNCHANGED <<bus, lagged>>
       ELSE LET full == Len(bus) = BusCap
            IN  /\ bus' = Append(IF full THEN Tail(bus) ELSE bus, aired')
                /\ lagged' = (lagged \/ full)
    /\ UNCHANGED <<newsVars, marked, resends, line, serving, wire, known, page, drops, misses, missed>>

RelayMarks ==
    /\ marked < aired
    /\ marked' = aired
    /\ UNCHANGED <<newsVars, aired, resends, lineVars>>

\* The mark or the commit fails: the events are sent again.
RelayFails ==
    /\ marked < aired /\ resends < MaxResends
    /\ aired' = marked
    /\ resends' = resends + 1
    /\ UNCHANGED <<newsVars, marked, lineVars>>

-----------------------------------------------------------------------------
\* The connection: serve.

\* onopen clears the dedupe set and asks for the market; serve has its receiver
\* from the start.
Connects ==
    /\ line = "down"
    /\ line' = "open" /\ bus' = <<>> /\ lagged' = FALSE
    /\ known' = {} /\ missed' = FALSE
    /\ UNCHANGED <<newsVars, relayVars, serving, wire, page, drops, misses>>

ServeSubscribe ==
    /\ line = "open" /\ serving = Idle
    /\ line' = "subscribed"
    /\ serving' = [op |-> "subscribe", hidden |-> hushed]
    /\ UNCHANGED <<newsVars, relayVars, bus, lagged, wire, known, page, drops, misses, missed>>

\* events.recv: an event of a market nobody subscribed to is passed over, a
\* lifecycle event becomes its frame, the others need the snapshot query.
ServeEvent ==
    /\ line \in {"open", "subscribed"} /\ serving = Idle
    /\ ~lagged /\ bus # <<>>
    /\ bus' = Tail(bus)
    /\ LET q == Head(bus) IN
       \/ /\ line = "open"
          /\ UNCHANGED <<serving, wire>>
       \/ /\ line = "subscribed" /\ news[q] = "advance"
          /\ wire' = Append(wire, [type |-> "lifecycle", seq |-> q, stage |-> HowMany("advance", q)])
          /\ UNCHANGED serving
       \/ /\ line = "subscribed" /\ news[q] # "advance"
          /\ serving' = [op |-> news[q], seq |-> q, hidden |-> hushed]
          /\ UNCHANGED wire
    /\ UNCHANGED <<newsVars, relayVars, line, lagged, known, page, drops, misses, missed>>

\* RecvError::Lagged ends the connection; a mutant that goes on with the events
\* that are left.
ServeLags_GoesOn ==
    /\ line \in {"open", "subscribed"} /\ serving = Idle /\ lagged
    /\ lagged' = FALSE
    /\ UNCHANGED <<newsVars, relayVars, line, bus, serving, wire, known, page, drops, misses, missed>>

ServeLags ==
    /\ line \in {"open", "subscribed"} /\ serving = Idle /\ lagged
    /\ line' = "closing" /\ bus' = <<>> /\ lagged' = FALSE
    /\ UNCHANGED <<newsVars, relayVars, serving, wire, known, page, drops, misses, missed>>

TallyShown(hidden) == MarketStage = 0 /\ ~hidden

\* snapshot_frame and event_frames
Frames(r) ==
    CASE r.op = "subscribe" ->
            <<[type |-> "snapshot", seq |-> 0, price |-> Price, stage |-> MarketStage,
               tally |-> IF TallyShown(r.hidden) THEN "shown" ELSE "hidden",
               votes |-> IF TallyShown(r.hidden) THEN Votes ELSE 0]>>
      [] r.op = "trade" -> <<[type |-> "price", seq |-> r.seq, price |-> Price]>>
      [] r.op = "vote" ->
            IF TallyShown(r.hidden) THEN <<[type |-> "tally", seq |-> r.seq, votes |-> Votes]>> ELSE <<>>

QueryAnswers ==
    /\ serving # Idle
    /\ wire' = wire \o Frames(serving)
    /\ serving' = Idle
    /\ UNCHANGED <<newsVars, relayVars, line, bus, lagged, known, page, drops, misses, missed>>

\* A failed query is passed over; the connection stays.
QueryFails ==
    /\ serving # Idle /\ misses < MaxMisses
    /\ misses' = misses + 1 /\ missed' = TRUE
    /\ serving' = Idle
    /\ UNCHANGED <<newsVars, relayVars, line, bus, lagged, wire, known, page, drops>>

LineDrops ==
    /\ line # "down" /\ drops < MaxDrops
    /\ drops' = drops + 1
    /\ line' = "down" /\ bus' = <<>> /\ lagged' = FALSE /\ serving' = Idle /\ wire' = <<>>
    /\ UNCHANGED <<newsVars, relayVars, known, page, misses, missed>>

-----------------------------------------------------------------------------
\* The client.

\* shouldApplyFrame
NotSeen(f) == f.type = "snapshot" \/ <<f.seq, f.type>> \notin known

\* The frame handler of the market page.  A tally frame holds yes and no, and
\* the handler takes its field "tally", which such a frame does not have.
Shown(f) ==
    CASE f.type = "snapshot" -> [price |-> f.price, stage |-> f.stage, tally |-> f.tally, votes |-> f.votes]
      [] f.type = "price" -> [page EXCEPT !.price = f.price]
      [] f.type = "lifecycle" -> [page EXCEPT !.stage = f.stage]
      [] f.type = "tally" -> [page EXCEPT !.tally = "undefined", !.votes = 0]

ClientReceives ==
    /\ wire # <<>>
    /\ wire' = Tail(wire)
    /\ LET f == Head(wire) IN
       \/ /\ NotSeen(f)
          /\ page' = Shown(f)
          /\ known' = known \cup {<<f.seq, f.type>>}
       \/ /\ ~NotSeen(f)
          /\ UNCHANGED <<page, known>>
    /\ UNCHANGED <<newsVars, relayVars, line, bus, lagged, serving, drops, misses, missed>>

\* onclose; scheduleReconnect then leads to Connects.
ClientCloses ==
    /\ line = "closing" /\ wire = <<>>
    /\ line' = "down"
    /\ UNCHANGED <<newsVars, relayVars, bus, lagged, serving, wire, known, page, drops, misses, missed>>

ServeNext == ServeSubscribe \/ ServeEvent \/ ServeLags \/ QueryAnswers
ClientNext == Connects \/ ClientReceives \/ ClientCloses
FeedNext ==
    \/ \E kind \in {"trade", "vote", "advance"} : CommitNews(kind)
    \/ TallyHides
    \/ RelayAirs \/ RelayMarks \/ RelayFails
    \/ ServeNext \/ QueryFails \/ LineDrops
    \/ ClientNext

-----------------------------------------------------------------------------
\* Properties.

Quiet ==
    /\ line = "subscribed" /\ serving = Idle /\ wire = <<>>
    /\ aired = Len(news) /\ bus = <<>> /\ ~lagged

\* "reconnect, re-subscribe, receive a fresh snapshot of current truth, and
\* resume the stream from there": when nothing is under way and no query of the
\* present connection has failed, the page shows the market's price, whatever was
\* lost, repeated or overtaken before and whatever failed on earlier connections,
\* and its state too as long as the relay has not repeated anything.
QuietMeansCurrent ==
    Quiet /\ ~missed => page.price = Price /\ (resends = 0 => page.stage = MarketStage)

\* The same without the condition on failed queries: a failed one is passed over
\* (ws.rs), and nothing asks again before the next event.
PriceIsCurrent == Quiet => page.price = Price

\* "discard any frame whose (outbox_seq, frame type) pair it has already
\* handled": also after repeated events, the page shows the market's state.
StageIsCurrent == Quiet => page.stage = MarketStage

\* The relay, the connection and the reconnecting client bring the page to the
\* market's last price.
WatcherCatchesUp == <>[](page.price = Price)

\* The table of frames: a tally frame carries "Yes and no vote counts".  While
\* the tally is visible the page shows the votes.
TallyIsLive == Quiet /\ TallyShown(hushed) => page.tally = "shown" /\ page.votes = Votes
=============================================================================
