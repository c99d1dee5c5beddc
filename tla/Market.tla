------------------------------- MODULE Market -------------------------------
(***************************************************************************)
(* One market: seeding, votes, trades, pauses, the scheduler, the curator  *)
(* and the settlement, each as the transactions of the code under the      *)
(* locks it takes.                                                         *)
(*                                                                         *)
(* A vote or a trade runs in four steps: the user's advisory lock ("user"),*)
(* the market row ("market"), the shared fences and the pause read         *)
(* ("fenced"), the commit.  A resolution holds the key resolve:<market>,   *)
(* enumerates the participants, takes their user locks one by one in       *)
(* ascending order, and then works under the market row.  A pause writer   *)
(* holds the exclusive fence of its key.  Whatever a transaction does      *)
(* between taking the market row and its commit is invisible to others and *)
(* is one step here, except where a fence is waited for in between.        *)
(*                                                                         *)
(* Requests carry their idempotency key: a request is its key, its commit  *)
(* makes every later submission a replay without effect.                   *)
(***************************************************************************)
EXTENDS Cpmm, Functions

CONSTANTS
    User,            \* user ids; locks are taken in ascending order
    Request,         \* the votes and trades that clients may send, and resend
    Cash,            \* a user's balance at the start
    Debt,            \* what another market's unwind may claim back
    Bind,            \* the referral binds, as pairs of referrer and referee
    House,           \* balance of the house account at the start
    Seed,            \* collateral of the pool, and its inventory of each side
    FeeBps,          \* the fees effective_fee may answer
    MinVotes,        \* min_votes_to_resolve
    OiFloor,         \* below it a thin market voids by itself
    HoldThreshold,   \* payout_hold_threshold_micro
    RatioVotes,      \* min_votes_for_ratios of the integrity checks
    RepMinPot,       \* rep_score_min_pot_micro
    OpensAt, HiddenAt, ClosesAt, SweepDelay,
    AdminEvent,      \* lifecycle events the administrator may send
    AdminDecision,   \* decisions the administrator may send, None for none
    PauseKey,        \* the pause keys that may be written
    MaxPauses,       \* bound on the pauses set
    MaxTime,
    None

ASSUME UserAssumption == User \subseteq Nat \ {0} /\ IsFiniteSet(User)
ASSUME BindAssumption == Bind \subseteq {b \in User \X User : b[1] # b[2]}
ASSUME TimeAssumption ==
    /\ {OpensAt, HiddenAt, ClosesAt, SweepDelay, MaxTime} \subseteq Nat
    /\ OpensAt <= HiddenAt /\ HiddenAt <= ClosesAt

VARIABLES
    row,        \* the market row: state, curator flag, integrity due time
    report,     \* verdict of the integrity report, or None
    votes,      \* side each user voted for, or None
    pool,       \* reserves
    positions,  \* shares and cost per user and side
    cash,       \* user balances
    fund,       \* escrow, fees, pool and house balances, and another market's
    owed,       \* outstanding receivable per user, None before it is recorded
    realized,   \* sum of the realization facts per user
    rep,        \* number of reputation updates per user
    outcome,    \* what the settlement wrote, or None
    done,       \* requests whose key is recorded
    commands,   \* recorded lifecycle command keys
    pause,      \* the pause keys in force
    pauses,     \* pauses set so far
    session,    \* step of each request
    writer,     \* the pause key a writer holds the exclusive fence of, or None
    resolver,   \* the resolution each of the scheduler and the admin runs
    sched,      \* what the scheduler has read and is about to do
    now

vars == <<row, report, votes, pool, positions, cash, fund, owed, realized, rep,
          outcome, done, commands, pause, pauses, session, writer, resolver,
          sched, now>>

book == <<pool, positions, cash, fund, owed, realized>>
settled == <<rep, outcome>>
marketRow == <<row, report>>
requests == <<done, session>>
config == <<pause, pauses, writer>>

-----------------------------------------------------------------------------
(* The lifecycle graph. *)

State == {"Draft", "Scheduled", "Live", "Closing", "Closed", "Resolving",
          "Resolved", "Paid", "Voided"}

Event == {"Approve", "GoLive", "EnterCloseWindow", "Close",
          "StartIntegritySweep", "Resolve", "Pay", "VoidLowParticipation",
          "VoidByAdmin"}

Edge ==
    { <<"Draft", "Approve", "Scheduled">>, <<"Scheduled", "GoLive", "Live">>,
      <<"Live", "EnterCloseWindow", "Closing">>, <<"Closing", "Close", "Closed">>,
      <<"Closed", "StartIntegritySweep", "Resolving">>,
      <<"Resolved", "Pay", "Paid">> }
    \cup { <<s, "Resolve", "Resolved">> : s \in {"Closed", "Resolving"} }
    \cup { <<s, "VoidLowParticipation", "Voided">> : s \in {"Closed", "Resolving"} }
    \cup { <<s, "VoidByAdmin", "Voided">> : s \in State \ {"Paid", "Voided"} }

Transition(s, e, t) == <<s, e, t>> \in Edge

-----------------------------------------------------------------------------
Nobody == [u \in User |-> None]
Out == [pc |-> "idle", at |-> None]
Party == {"scheduler", "admin"}

Idle == [pc |-> "idle", tries |-> 0, prelock |-> {}, held |-> {},
         decision |-> None]

Init ==
    /\ row = [state |-> None, flagged |-> FALSE, due |-> None]
    /\ report = None
    /\ votes = Nobody
    /\ pool = [s \in Side |-> 0]
    /\ positions = [u \in User |-> [s \in Side |-> [shares |-> 0, cost |-> 0]]]
    /\ cash = Cash
    /\ fund = [escrow |-> 0, fees |-> 0, pool |-> 0, house |-> House, other |-> 0]
    /\ owed = Nobody
    /\ realized = [u \in User |-> 0]
    /\ rep = [u \in User |-> 0]
    /\ outcome = None
    /\ done = {}
    /\ commands = {}
    /\ pause = {}
    /\ pauses = 0
    /\ session = [r \in Request |-> Out]
    /\ writer = None
    /\ resolver = [p \in Party |-> Idle]
    /\ sched = [pc |-> "idle", event |-> None]
    /\ now = 0

(* Locks are read off the steps of the transactions that hold them. *)
UserFree(u) ==
    /\ \A r \in Request : r.user = u => session[r].pc = "idle"
    /\ \A p \in Party : u \notin resolver[p].held

MarketFree == \A r \in Request : session[r].pc \in {"idle", "user"}

\* Mutant: the resolution holds the row while it waits for users.
RowFree_ResolverFirst ==
    /\ MarketFree
    /\ \A p \in Party : resolver[p].pc # "locking"

(* A resolution takes the row last, in its one committing step, so only    *)
(* other requests can keep a request from it.                              *)
RowFree == MarketFree

Fence(key) == IF key = "voting_paused" THEN "voting" ELSE "trading"

FencesOf(r) == IF r.op = "vote" THEN {"voting"} ELSE {"trading"}

Voters == {u \in User : votes[u] # None}

Holders == {u \in User : \E s \in Side : positions[u][s].shares > 0}

Traders == {r.user : r \in {q \in done : q.op # "vote"}}

(* referral_relevant_users: both parties of a bind whose referee traded.   *)
ReferralParties == UNION {{b[1], b[2]} : b \in {a \in Bind : a[2] \in Traders}}

Participants == Voters \cup ReferralParties \cup Holders

Tally(s) == Cardinality({u \in User : votes[u] = s})

Total == Tally("Yes") + Tally("No")

YesBps == IF Total = 0 THEN None ELSE (Tally("Yes") * 10000) \div Total

OpenInterest ==
    MapThenSumSet(LAMBDA p : positions[p[1]][p[2]].cost, User \X Side)

-----------------------------------------------------------------------------
(* SeedMarket: the house's collateral backs the pool's inventory. *)
SeedMarket ==
    /\ row.state = None
    /\ fund.house >= Seed
    /\ fund' = [fund EXCEPT !.house = @ - Seed, !.escrow = @ + Seed]
    /\ pool' = [s \in Side |-> Seed]
    /\ \E t \in State : Transition("Draft", "Approve", t)
                        /\ row' = [row EXCEPT !.state = t]
    /\ UNCHANGED <<report, votes, positions, cash, owed, realized, settled,
                   requests, commands, config, resolver, sched, now>>

-----------------------------------------------------------------------------
(* Votes and trades. *)

RequestStep(r, next) == session' = [session EXCEPT ![r] = next]

WithoutEffect ==
    UNCHANGED <<marketRow, votes, book, settled, done, commands, config,
                resolver, sched, now>>

(* The user lock and the gates under it; a recorded key is replayed. *)
Begin(r) ==
    /\ session[r].pc = "idle"
    /\ r \notin done
    /\ row.state # None
    /\ UserFree(r.user)
    /\ RequestStep(r, [Out EXCEPT !.pc = "user"])
    /\ WithoutEffect

(* Any guard outside this model, a store failure or a crash: the           *)
(* transaction rolls back and its locks are released.                      *)
Abort(r) ==
    /\ session[r].pc # "idle"
    /\ RequestStep(r, Out)
    /\ WithoutEffect

Tradable == row.state = "Live" /\ now < HiddenAt

\* Mutant: a closed market still takes votes.
Votable_NoCutoff == row.state \in {"Live", "Closing", "Closed"}

Votable == row.state \in {"Live", "Closing"} /\ now < ClosesAt

(* The market row, and the clock and the checks under its lock. *)
LockMarket(r) ==
    /\ session[r].pc = "user"
    /\ RowFree
    /\ IF r.op = "vote" THEN Votable ELSE Tradable /\ votes[r.user] # None
    /\ RequestStep(r, [pc |-> "market", at |-> now])
    /\ WithoutEffect

(* A trade refuses on any pause, a vote only on its own and only before    *)
(* the hidden window.                                                      *)
Unpaused(r) ==
    IF r.op = "vote"
    THEN session[r].at < HiddenAt => "voting_paused" \notin pause
    ELSE pause = {}

(* The shared fences wait for a writer that holds one exclusively. *)
TakeFence(r) ==
    /\ session[r].pc = "market"
    /\ writer # None => Fence(writer) \notin FencesOf(r)
    /\ Unpaused(r)
    /\ RequestStep(r, [session[r] EXCEPT !.pc = "fenced"])
    /\ WithoutEffect

Recorded(r) ==
    /\ session[r].pc = "fenced"
    /\ done' = done \cup {r}
    /\ RequestStep(r, Out)
    /\ UNCHANGED <<marketRow, settled, commands, config, resolver, sched, now>>

(* auto_collect: the open receivable, as far as the balance reaches. *)
Collected(u, balance) ==
    IF owed[u] = None THEN 0 ELSE IF owed[u] <= balance THEN owed[u] ELSE balance

Remaining(u, c) == IF owed[u] = None THEN None ELSE owed[u] - c

(* votes has one row per user and market; a debt is collected on the way. *)
CommitVote(r) ==
    LET c == Collected(r.user, cash[r.user])
    IN  /\ r.op = "vote"
        /\ votes[r.user] = None
        /\ votes' = [votes EXCEPT ![r.user] = r.side]
        /\ cash' = [cash EXCEPT ![r.user] = @ - c]
        /\ owed' = [owed EXCEPT ![r.user] = Remaining(r.user, c)]
        /\ fund' = [fund EXCEPT !.house = @ + c]
        /\ Recorded(r)
        /\ UNCHANGED <<pool, positions, realized>>

\* Mutant: the balance is not checked.
CommitBuy_Overdraft(r, bps) ==
    LET u == r.user
        c == Collected(u, cash[u])
        q == QuoteBuy(pool, r.side, r.amount, bps)
    IN  /\ r.op = "buy"
        /\ q.ok
        /\ cash' = [cash EXCEPT ![u] = @ - c - r.amount]
        /\ owed' = [owed EXCEPT ![u] = Remaining(u, c)]
        /\ fund' = [fund EXCEPT !.house = @ + c, !.fees = @ + q.fee,
                                !.escrow = @ + r.amount - q.fee]
        /\ pool' = q.after
        /\ positions' = [positions EXCEPT
                            ![u][r.side].shares = @ + q.shares,
                            ![u][r.side].cost = @ + r.amount]
        /\ Recorded(r)
        /\ UNCHANGED <<votes, realized>>

CommitBuy(r, bps) ==
    LET u == r.user
        c == Collected(u, cash[u])
        q == QuoteBuy(pool, r.side, r.amount, bps)
    IN  /\ r.op = "buy"
        /\ q.ok
        /\ cash[u] - c >= r.amount
        /\ cash' = [cash EXCEPT ![u] = @ - c - r.amount]
        /\ owed' = [owed EXCEPT ![u] = Remaining(u, c)]
        /\ fund' = [fund EXCEPT !.house = @ + c, !.fees = @ + q.fee,
                                !.escrow = @ + r.amount - q.fee]
        /\ pool' = q.after
        /\ positions' = [positions EXCEPT
                            ![u][r.side].shares = @ + q.shares,
                            ![u][r.side].cost = @ + r.amount]
        /\ Recorded(r)
        /\ UNCHANGED <<votes, realized>>

\* Mutant: the fee of a sale stays in the escrow.
CommitSell_FeeLeftInEscrow(r, bps) ==
    LET u    == r.user
        c    == Collected(u, cash[u])
        q    == QuoteSell(pool, r.side, r.amount, bps)
        held == positions[u][r.side]
        relieved == (held.cost * r.amount) \div held.shares
    IN  /\ r.op = "sell"
        /\ held.shares >= r.amount
        /\ q.ok
        /\ fund.escrow >= q.proceeds
        /\ cash' = [cash EXCEPT ![u] = @ - c + q.proceeds - q.fee]
        /\ owed' = [owed EXCEPT ![u] = Remaining(u, c)]
        /\ fund' = [fund EXCEPT !.house = @ + c, !.fees = @,
                                !.escrow = @ - q.proceeds + q.fee]
        /\ pool' = q.after
        /\ positions' = [positions EXCEPT
                            ![u][r.side].shares = @ - r.amount,
                            ![u][r.side].cost = @ - relieved]
        /\ realized' = [realized EXCEPT ![u] = @ + q.proceeds - q.fee - relieved]
        /\ Recorded(r)
        /\ UNCHANGED votes

\* Mutant: the realization forgets the fee.
CommitSell_GrossRealized(r, bps) ==
    LET u    == r.user
        c    == Collected(u, cash[u])
        q    == QuoteSell(pool, r.side, r.amount, bps)
        held == positions[u][r.side]
        relieved == (held.cost * r.amount) \div held.shares
    IN  /\ r.op = "sell"
        /\ held.shares >= r.amount
        /\ q.ok
        /\ fund.escrow >= q.proceeds
        /\ cash' = [cash EXCEPT ![u] = @ - c + q.proceeds - q.fee]
        /\ owed' = [owed EXCEPT ![u] = Remaining(u, c)]
        /\ fund' = [fund EXCEPT !.house = @ + c, !.fees = @ + q.fee,
                                !.escrow = @ - q.proceeds]
        /\ pool' = q.after
        /\ positions' = [positions EXCEPT
                            ![u][r.side].shares = @ - r.amount,
                            ![u][r.side].cost = @ - relieved]
        /\ realized' = [realized EXCEPT ![u] = @ + q.proceeds - relieved]
        /\ Recorded(r)
        /\ UNCHANGED votes

(* A sale relieves the cost of the shares sold, rounded down. *)
CommitSell(r, bps) ==
    LET u    == r.user
        c    == Collected(u, cash[u])
        q    == QuoteSell(pool, r.side, r.amount, bps)
        held == positions[u][r.side]
        relieved == (held.cost * r.amount) \div held.shares
    IN  /\ r.op = "sell"
        /\ held.shares >= r.amount
        /\ q.ok
        /\ fund.escrow >= q.proceeds
        /\ cash' = [cash EXCEPT ![u] = @ - c + q.proceeds - q.fee]
        /\ owed' = [owed EXCEPT ![u] = Remaining(u, c)]
        /\ fund' = [fund EXCEPT !.house = @ + c, !.fees = @ + q.fee,
                                !.escrow = @ - q.proceeds]
        /\ pool' = q.after
        /\ positions' = [positions EXCEPT
                            ![u][r.side].shares = @ - r.amount,
                            ![u][r.side].cost = @ - relieved]
        /\ realized' = [realized EXCEPT ![u] = @ + q.proceeds - q.fee - relieved]
        /\ Recorded(r)
        /\ UNCHANGED votes

CommitTrade(r) == \E bps \in FeeBps : CommitBuy(r, bps) \/ CommitSell(r, bps)

(* The unwind of another market claims a payout back: what the balance     *)
(* does not cover the house advances, and the user owes.  It takes the     *)
(* ledger rows, not the user's lock.                                       *)
RecordReceivable(u) ==
    LET pay == IF Debt[u] <= cash[u] THEN Debt[u] ELSE cash[u]
    IN  /\ Debt[u] > 0 /\ owed[u] = None
        /\ fund.house >= Debt[u] - pay
        /\ cash' = [cash EXCEPT ![u] = @ - pay]
        /\ owed' = [owed EXCEPT ![u] = Debt[u] - pay]
        /\ fund' = [fund EXCEPT !.house = @ - (Debt[u] - pay), !.other = @ + Debt[u]]
        /\ UNCHANGED <<marketRow, votes, pool, positions, realized, settled,
                       requests, commands, config, resolver, sched, now>>

-----------------------------------------------------------------------------
(* Pause writers. *)

(* A trading pause of the market is not lifted inside the hidden window,   *)
(* a voting pause is not set once it began.                                *)
PauseTimely(key, t) ==
    /\ key = "market_paused" /\ key \in pause => ~(t > HiddenAt /\ t <= ClosesAt)
    /\ key = "voting_paused" /\ key \notin pause => t < HiddenAt

\* Mutant: the writer does not wait for shared holders.
TakeExclusive_NoDrain(key) ==
    /\ writer = None
    /\ key \in pause \/ pauses < MaxPauses
    /\ \E t \in 0 .. now : PauseTimely(key, t)
    /\ writer' = key
    /\ UNCHANGED <<marketRow, votes, book, settled, requests, commands, pause,
                   pauses, resolver, sched, now>>

(* The exclusive fence waits for every transaction that holds it shared;   *)
(* the clock of the timing rules was read before that wait.                *)
TakeExclusive(key) ==
    /\ writer = None
    /\ key \in pause \/ pauses < MaxPauses
    /\ \A r \in Request : session[r].pc = "fenced" => Fence(key) \notin FencesOf(r)
    /\ \E t \in 0 .. now : PauseTimely(key, t)
    /\ writer' = key
    /\ UNCHANGED <<marketRow, votes, book, settled, requests, commands, pause,
                   pauses, resolver, sched, now>>

WritePause ==
    /\ writer # None
    /\ pause' = IF writer \in pause THEN pause \ {writer} ELSE pause \cup {writer}
    /\ pauses' = IF writer \in pause THEN pauses ELSE pauses + 1
    /\ writer' = None
    /\ UNCHANGED <<marketRow, votes, book, settled, requests, commands,
                   resolver, sched, now>>

-----------------------------------------------------------------------------
(* Lifecycle moves. *)

(* AdvanceMarket under the key of its caller: a recorded key and an        *)
(* illegal edge change nothing.                                            *)
Advance(caller, e) ==
    /\ MarketFree
    /\ IF <<caller, e>> \in commands \/ ~ \E t \in State : Transition(row.state, e, t)
       THEN UNCHANGED <<row, commands>>
       ELSE /\ \E t \in State : Transition(row.state, e, t)
                                /\ row' = [row EXCEPT !.state = t]
            /\ commands' = commands \cup {<<caller, e>>}

Whitelist == {"Approve", "GoLive", "EnterCloseWindow", "Close", "StartIntegritySweep"}

AdminAdvance(e) ==
    /\ e \in Whitelist
    /\ Advance("admin", e)
    /\ UNCHANGED <<report, votes, book, settled, requests, config, resolver,
                   sched, now>>

(* The scheduler reads the due row without a lock. *)
SchedulerReads ==
    LET todo(pc, e) == sched' = [pc |-> pc, event |-> e]
    IN  /\ sched.pc = "idle"
        /\ \/ row.state = "Scheduled" /\ now >= OpensAt /\ todo("advance", "GoLive")
           \/ row.state = "Live" /\ now >= HiddenAt /\ todo("advance", "EnterCloseWindow")
           \/ row.state = "Closing" /\ now >= ClosesAt /\ todo("advance", "Close")
           \/ row.state = "Closed" /\ todo("resolve", None)
           \/ /\ row.state = "Resolving" /\ ~row.flagged
              /\ row.due # None /\ row.due <= now
              /\ todo("report", None)
        /\ UNCHANGED <<marketRow, votes, book, settled, requests, commands,
                       config, resolver, now>>

SchedulerIdle == [pc |-> "idle", event |-> None]

SchedulerAdvances ==
    /\ sched.pc = "advance"
    /\ Advance("scheduler", sched.event)
    /\ sched' = SchedulerIdle
    /\ UNCHANGED <<report, votes, book, settled, requests, config, resolver, now>>

(* With too few votes every check is skipped and the verdict is a pass. *)
Verdict == IF Total < RatioVotes THEN {"pass"} ELSE {"pass", "flag"}

(* The first report stays; the stored verdict decides what comes next. *)
WriteIntegrityReport ==
    /\ sched.pc = "report"
    /\ MarketFree
    /\ IF row.state # "Resolving"
       THEN UNCHANGED report /\ sched' = SchedulerIdle
       ELSE /\ IF report = None THEN report' \in Verdict ELSE UNCHANGED report
            /\ sched' = [pc |-> IF report' = "flag" THEN "flag" ELSE "settle",
                         event |-> None]
    /\ UNCHANGED <<row, votes, book, settled, requests, commands, config,
                   resolver, now>>

\* Mutant: a market under review is not flagged.
FlagCurator_ClosedOnly ==
    /\ sched.pc = "flag"
    /\ MarketFree
    /\ IF row.state \in {"Closed"}
       THEN /\ row' = [row EXCEPT !.state = "Resolving", !.flagged = TRUE]
            /\ commands' = IF row.state = "Closed"
                           THEN commands \cup {<<"curator", "StartIntegritySweep">>}
                           ELSE commands
       ELSE UNCHANGED <<row, commands>>
    /\ sched' = SchedulerIdle
    /\ UNCHANGED <<report, votes, book, settled, requests, config, resolver, now>>

FlagCurator ==
    /\ sched.pc = "flag"
    /\ MarketFree
    /\ IF row.state \in {"Closed", "Resolving"}
       THEN /\ row' = [row EXCEPT !.state = "Resolving", !.flagged = TRUE]
            /\ commands' = IF row.state = "Closed"
                           THEN commands \cup {<<"curator", "StartIntegritySweep">>}
                           ELSE commands
       ELSE UNCHANGED <<row, commands>>
    /\ sched' = SchedulerIdle
    /\ UNCHANGED <<report, votes, book, settled, requests, config, resolver, now>>

SchedulerCrash ==
    /\ sched.pc # "idle" /\ resolver["scheduler"].pc = "idle"
    /\ sched' = SchedulerIdle
    /\ UNCHANGED <<marketRow, votes, book, settled, requests, commands, config,
                   resolver, now>>

-----------------------------------------------------------------------------
(* ResolveMarket. *)

MaxTries == 4    \* RESOLUTION_PARTICIPANT_LOCK_ATTEMPTS

(* A resolution ends, with what its caller does next. *)
Finish(p, next) ==
    /\ resolver' = [resolver EXCEPT ![p] = Idle]
    /\ sched' = IF p = "scheduler" THEN [pc |-> next, event |-> None] ELSE sched

ResolutionOnly ==
    UNCHANGED <<marketRow, votes, book, settled, requests, commands, config, now>>

(* A call takes the key lock; a recorded key replays, otherwise the        *)
(* participants are read without a lock.  The scheduler calls after what   *)
(* it read and never overrides; the administrator may carry a decision.    *)
BeginResolve(p, decision) ==
    /\ row.state # None
    /\ \A q \in Party : resolver[q].pc # "locking"
    /\ \/ resolver[p].pc = "idle"
       \/ resolver[p].pc = "restart" /\ resolver[p].decision = decision
    /\ p = "scheduler" => sched.pc \in {"resolve", "settle"} /\ decision = None
    /\ IF outcome # None
       THEN Finish(p, "idle")
       ELSE /\ resolver' = [resolver EXCEPT
                               ![p].pc = "locking", ![p].tries = @ + 1,
                               ![p].prelock = Participants, ![p].decision = decision]
            /\ UNCHANGED sched
    /\ ResolutionOnly

LockParticipant(p) ==
    LET rest == resolver[p].prelock \ resolver[p].held
    IN  /\ resolver[p].pc = "locking"
        /\ rest # {}
        /\ UserFree(Min(rest))
        /\ resolver' = [resolver EXCEPT ![p].held = @ \cup {Min(rest)}]
        /\ UNCHANGED sched
        /\ ResolutionOnly

UnderLocks(p) ==
    /\ resolver[p].pc = "locking"
    /\ resolver[p].held = resolver[p].prelock
    /\ MarketFree

\* Mutant: the participants are not read again under the lock.
Stable_Assumed(p) == TRUE

Stable(p) == Participants \subseteq resolver[p].prelock

(* A participant appeared meanwhile: every lock is dropped, none is added. *)
Restart(p) ==
    /\ UnderLocks(p)
    /\ ~Stable(p)
    /\ IF resolver[p].tries = MaxTries
       THEN Finish(p, "idle")
       ELSE /\ resolver' = [resolver EXCEPT ![p].pc = "restart", ![p].held = {},
                                            ![p].prelock = {}]
            /\ UNCHANGED sched
    /\ ResolutionOnly

(* Who may settle: a flagged market only the curator, an unflagged one     *)
(* never the curator, and one under review only with a passing report.     *)
Authorized(decision) ==
    /\ \E t \in State : row.state = "Resolving"
                        \/ Transition(row.state, "StartIntegritySweep", t)
    /\ IF row.state = "Resolving" /\ row.flagged
       THEN decision # None
       ELSE decision = None
    /\ row.state = "Resolving" /\ ~row.flagged => report = "pass"

RefuseResolve(p) ==
    /\ UnderLocks(p) /\ Stable(p)
    /\ ~Authorized(resolver[p].decision)
    /\ Finish(p, "idle")
    /\ ResolutionOnly

\* Mutant: the threshold itself is not held.
Held_Above == row.state = "Closed" /\ fund.escrow > HoldThreshold

Held == row.state = "Closed" /\ fund.escrow >= HoldThreshold

HoldForReview(p) ==
    /\ UnderLocks(p) /\ Stable(p)
    /\ Authorized(resolver[p].decision)
    /\ Held
    /\ row' = [row EXCEPT !.state = "Resolving", !.due = now + SweepDelay]
    /\ commands' = commands \cup {<<"sweep", "StartIntegritySweep">>}
    /\ Finish(p, "idle")
    /\ UNCHANGED <<report, votes, book, settled, requests, config, now>>

(* Enough votes resolve at the tally; too few void below the floor of open *)
(* interest.                                                               *)
TallyDecision ==
    LET enough == Total > 0 /\ Total >= MinVotes
    IN  {d \in {[voided |-> FALSE, bps |-> YesBps]} : enough}
        \cup {d \in {[voided |-> TRUE, bps |-> 5000]} : ~enough /\ OpenInterest < OiFloor}

(* The final price in basis points, and whether the market voids; {} when  *)
(* a curator must decide.                                                  *)
Decide(decision) ==
    CASE decision = None    -> TallyDecision
      [] decision = "tally" -> {d \in {[voided |-> FALSE, bps |-> YesBps]} : Total > 0}
      [] decision = "void"  -> {[voided |-> TRUE, bps |-> 5000]}

\* Mutant: the missing decision is reported and dropped.
NeedsCurator_NotFlagged(p) ==
    /\ UnderLocks(p) /\ Stable(p)
    /\ Authorized(resolver[p].decision)
    /\ ~Held
    /\ Decide(resolver[p].decision) = {}
    /\ Finish(p, "idle")
    /\ ResolutionOnly

(* Only the caller that found the market Closed turns this into a flag. *)
NeedsCurator(p) ==
    /\ UnderLocks(p) /\ Stable(p)
    /\ Authorized(resolver[p].decision)
    /\ ~Held
    /\ Decide(resolver[p].decision) = {}
    /\ Finish(p, IF sched.pc = "resolve" THEN "flag" ELSE "idle")
    /\ ResolutionOnly

(* The pool is holder 0. *)
Holdings ==
    [h \in User \cup {0} |->
        [s \in Side |-> IF h = 0 THEN pool[s] ELSE positions[h][s].shares]]

PaidTo(settlement, h) == settlement.payout[h]["Yes"] + settlement.payout[h]["No"]

CostOf(u) == positions[u]["Yes"].cost + positions[u]["No"].cost

\* Mutant: a voided market rates its voters.
Rated_VoidToo(voided) ==
    IF Total >= MinVotes /\ fund.escrow >= RepMinPot THEN Voters ELSE {}

(* Reputation moves only for a truth that enough votes and money back. *)
Rated(voided) ==
    IF ~voided /\ Total >= MinVotes /\ fund.escrow >= RepMinPot
    THEN Voters ELSE {}

(* Payouts, dust to the fees, receivables out of the payouts, positions    *)
(* closed, outcomes and reputations written, one transaction.              *)
Settle(p) ==
    /\ UnderLocks(p) /\ Stable(p)
    /\ Authorized(resolver[p].decision)
    /\ ~Held
    /\ \E d \in Decide(resolver[p].decision) :
        LET st == SettleMarket(Holdings, d.bps, fund.escrow)
            c  == [u \in User |-> IF PaidTo(st, u) > 0
                                  THEN Collected(u, cash[u] + PaidTo(st, u)) ELSE 0]
        IN  /\ st.ok
            /\ cash' = [u \in User |-> cash[u] + PaidTo(st, u) - c[u]]
            /\ owed' = [u \in User |-> Remaining(u, c[u])]
            /\ fund' = [escrow |-> 0, fees |-> fund.fees + st.dust,
                        pool |-> fund.pool + PaidTo(st, 0),
                        house |-> fund.house + SumFunction(c),
                        other |-> fund.other]
            /\ realized' = [u \in User |-> realized[u] + PaidTo(st, u) - CostOf(u)]
            /\ positions' = [u \in User |-> [s \in Side |-> [shares |-> 0, cost |-> 0]]]
            /\ rep' = [u \in User |-> rep[u] + IF u \in Rated(d.voided) THEN 1 ELSE 0]
            /\ outcome' = d
            /\ row' = [row EXCEPT !.state = IF d.voided THEN "Voided" ELSE "Paid",
                                  !.flagged = @ /\ resolver[p].decision = None]
    /\ Finish(p, "idle")
    /\ UNCHANGED <<report, votes, pool, requests, commands, config, now>>

(* A store failure or a crash, wherever the transaction is. *)
AbortResolve(p) ==
    /\ resolver[p].pc # "idle"
    /\ Finish(p, "idle")
    /\ ResolutionOnly

-----------------------------------------------------------------------------
Tick ==
    /\ now < MaxTime
    /\ now' = now + 1
    /\ UNCHANGED <<marketRow, votes, book, settled, requests, commands, config,
                   resolver, sched>>

RequestNext(r) ==
    Begin(r) \/ LockMarket(r) \/ TakeFence(r) \/ CommitVote(r) \/ CommitTrade(r)

ResolveNext(p) ==
    \/ resolver[p].pc = "restart" /\ BeginResolve(p, resolver[p].decision)
    \/ LockParticipant(p) \/ Restart(p) \/ RefuseResolve(p)
    \/ HoldForReview(p) \/ NeedsCurator(p) \/ Settle(p)

SchedulerNext ==
    \/ SchedulerReads \/ SchedulerAdvances \/ WriteIntegrityReport \/ FlagCurator
    \/ BeginResolve("scheduler", None)

Failure == SchedulerCrash \/ \E p \in Party : AbortResolve(p)

Normal ==
    \/ SeedMarket
    \/ Tick
    \/ \E r \in Request : RequestNext(r) \/ Abort(r)
    \/ \E u \in User : RecordReceivable(u)
    \/ WritePause \/ \E key \in PauseKey : TakeExclusive(key)
    \/ \E e \in AdminEvent : AdminAdvance(e)
    \/ \E d \in AdminDecision : BeginResolve("admin", d)
    \/ \E p \in Party : ResolveNext(p)
    \/ SchedulerNext

Next == Normal \/ Failure

Spec == Init /\ [][Next]_vars

(***************************************************************************)
(* The server runs the scheduler in a loop.  A request ends, by its commit *)
(* or its rollback, and gives its locks back, unless it waits for a lock:  *)
(* nothing but the holder ends that wait.  The lock queues of the database *)
(* are first-in first-out, whence strong fairness of the steps that wait   *)
(* for a lock.  Crashes and store failures cease at some point.  Nobody    *)
(* must send a request, pause, advance by hand or call the resolution.     *)
(***************************************************************************)
Waiting(r) ==
    \/ session[r].pc = "user" /\ ~RowFree
    \/ session[r].pc = "market" /\ writer # None /\ Fence(writer) \in FencesOf(r)

Fairness ==
    /\ WF_vars(SeedMarket)
    /\ WF_vars(Tick)
    /\ WF_vars(WritePause)
    /\ \A r \in Request : WF_vars(session[r].pc # "idle"
                               /\ (RequestNext(r) \/ (~Waiting(r) /\ Abort(r))))
    /\ WF_vars(SchedulerReads)
    /\ SF_vars(SchedulerAdvances)
    /\ SF_vars(WriteIntegrityReport)
    /\ SF_vars(FlagCurator)
    /\ SF_vars(BeginResolve("scheduler", None))
    /\ \A p \in Party : SF_vars(ResolveNext(p))
    /\ <>[][Normal]_vars

FairSpec == Spec /\ Fairness

-----------------------------------------------------------------------------
(* Properties. *)

Settled == outcome # None

Shares(s) == pool[s] + MapThenSumSet(LAMBDA u : positions[u][s].shares, User)

(* The market row, ballots, positions and books hold what the tables can:   *)
(* every balance and every share count is a natural number (the ledger's    *)
(* non-negative accounts), whatever rounding the market maker applied.      *)
TypeOK ==
    /\ row \in [state : State \cup {None}, flagged : BOOLEAN, due : Nat \cup {None}]
    /\ report \in {None, "pass", "flag"}
    /\ votes \in [User -> Side \cup {None}]
    /\ pool \in Pool
    /\ positions \in [User -> [Side -> [shares : Nat, cost : Nat]]]
    /\ cash \in [User -> Nat] /\ owed \in [User -> Nat \cup {None}] /\ realized \in [User -> Int]
    /\ fund \in [{"escrow", "fees", "pool", "house", "other"} -> Nat]
    /\ rep \in [User -> Nat]
    /\ done \subseteq Request
    /\ pause \subseteq PauseKey
    /\ writer \in PauseKey \cup {None}

(* Every share in circulation is backed: until the settlement, the pool's  *)
(* reserve and the users' shares of each side add up to the escrow, through *)
(* every rounding of quote_buy and quote_sell; afterwards the escrow is    *)
(* empty and no position is left.  settle_market refuses to pay otherwise. *)
Collateral ==
    IF Settled
    THEN fund.escrow = 0 /\ Holders = {}
    ELSE \A s \in Side : Shares(s) = fund.escrow

(* settle_market never refuses (HoldingsIncomplete, dust bound) and never  *)
(* pays more than the escrow, for which it has no check: whatever the      *)
(* votes say, the market as it stands can be settled or voided.            *)
AlwaysSettleable ==
    row.state # None /\ ~Settled =>
        \A bps \in {5000} \cup (IF Total > 0 THEN {YesBps} ELSE {}) :
            LET st == SettleMarket(Holdings, bps, fund.escrow)
            IN  st.ok /\ st.dust >= 0

(* The user's books: what left the balance went into the cost of open      *)
(* positions, into realized results or into the receivable, over every     *)
(* interleaving of trades, collections and the settlement (identities of   *)
(* the invariant sweep).  Balance rows are read and written under locks.   *)
BooksBalance ==
    /\ \A u \in User :
           cash[u] + CostOf(u) - realized[u]
               + (IF owed[u] = None THEN 0 ELSE Debt[u] - owed[u]) = Cash[u]
    /\ SumFunction(cash) + SumFunction(fund) = SumFunction(Cash) + House

(* A market that paid did so at the tally of all its votes, and a vote     *)
(* that was accepted is in that tally and rated at most once: no vote      *)
(* slips in between the tally the resolution read and its commit.          *)
PaidAtFinalTally ==
    /\ Settled /\ ~outcome.voided => Total > 0 /\ outcome.bps = YesBps
    /\ \A u \in User : rep[u] > 0 => rep[u] = 1 /\ Settled /\ ~outcome.voided
    /\ (\E u \in User : rep[u] = 1) => \A u \in Voters : rep[u] = 1

(* Once the row reads Closed the ballots and the book are frozen: only the *)
(* settlement moves them, whichever request was waiting for the row.       *)
FrozenAfterClose ==
    [][row.state \in {"Closed", "Resolving", "Paid", "Voided"} =>
           /\ UNCHANGED votes
           /\ UNCHANGED <<pool, positions>> \/ (outcome = None /\ outcome' # None)]_vars

(* A request is accepted only while the market takes it.  None that waited *)
(* for the row commits after the scheduler or the administrator moved the  *)
(* market on.  And the exclusive fence drains: no trade commits while a    *)
(* trading pause is in force and no vote while a voting pause is, unless   *)
(* that vote locked the market in the hidden window, where the pause has   *)
(* expired.                                                                *)
AcceptedWhileOpen ==
    [][\A r \in done' \ done :
          IF r.op = "vote"
          THEN /\ row.state \in {"Live", "Closing"}
               /\ "voting_paused" \in pause => session[r].at >= HiddenAt
          ELSE /\ row.state = "Live"
               /\ pause \cap {"trading_paused", "market_paused"} = {}]_vars

(* The settlement writes only users whose lock it holds, so no request of  *)
(* theirs is between its checks and its commit, although the participants  *)
(* were enumerated before the locks (rule B5).  A market that pays also    *)
(* has the lock of both parties of every referral it may reward.           *)
SettledUnderLocks ==
    [][outcome = None /\ outcome' # None =>
          \E p \in Party :
              /\ \A u \in User :
                     cash'[u] # cash[u] \/ positions'[u] # positions[u] \/ rep'[u] # rep[u]
                         => u \in resolver[p].held
              /\ ~outcome'.voided => ReferralParties \subseteq resolver[p].held]_vars

(* A pot as large as the hold threshold is paid only after a passing       *)
(* integrity report or by a curator's decision on a flagged market,        *)
(* whichever of the scheduler and the administrator walked it there.       *)
BigPotsReviewed ==
    [][outcome = None /\ outcome' # None /\ fund.escrow >= HoldThreshold =>
          row.state = "Resolving" /\ (row.flagged \/ report = "pass")]_vars

(* The book never trades against a frozen tape: no trade commits while a   *)
(* voting pause is in force (the overlay read of place_trade.rs).          *)
NoTradeOnFrozenTape ==
    [][\A r \in done' \ done : r.op # "vote" => "voting_paused" \notin pause]_vars

(* A closed market does not stay closed: it is settled, held for the       *)
(* integrity sweep or given to a curator (AdvanceDue.sweep).               *)
ClosedMovesOn ==
    (row.state = "Closed") ~> (Settled \/ row.flagged \/ row.state = "Resolving")

(* A market whose payout is held is decided once its sweep is due, when    *)
(* enough people voted: it is paid, or flagged for a curator.              *)
HeldIsDecided ==
    (row.state = "Resolving" /\ row.due # None /\ row.due <= MaxTime /\ Total >= MinVotes)
        ~> (Settled \/ row.flagged)

(* The same without the votes: too few votes with real money at stake go   *)
(* to a curator.                                                           *)
ThinHeldIsDecided ==
    (row.state = "Resolving" /\ row.due # None /\ row.due <= MaxTime)
        ~> (Settled \/ row.flagged)

(* A resolution that was called ends: two of them, requests that hold user *)
(* locks and trades that hold the market never wait for one another.       *)
ResolutionEnds == \A p \in Party : (resolver[p].pc # "idle") ~> (resolver[p].pc = "idle")
=============================================================================
