# Verification of the opinions money system

TLA+ specifications of the parts of `opinions` where an interleaving, a crash or a stale read
could lose, create or strand money, or leave a promise of the system unkept; the TLC models that
check them on small instances; and TLAPS proofs of the central safety properties for instances of
any size.

Contents: [the system](#the-system) · [modules](#modules) · [runs](#runs) ·
[bounds](#bounds) · [fairness](#fairness) · [proofs](#proofs) ·
[where code and documents disagree](#where-code-and-documents-disagree) ·
[abstractions](#abstractions) · [not modelled](#not-modelled)

## The system

A real-money opinion market. Users vote and trade YES/NO shares on a market; the crowd's
votes decide the payout. It is a Rust monolith in layers
(`crates/domain` <- `application` <- `adapters` <- `main`) over one Postgres database, plus a
Python service, a web client and a load harness. Paths below are relative to `crates/`.

| part | code | what it does to the others |
|---|---|---|
| ledger | `domain/ledger.rs`, `adapters/pg/trade_tx.rs` (`ledger_apply`) | double-entry postings; every balance of every other part |
| AMM | `domain/{amm,money}.rs` | integer constant-product quotes over complete sets |
| market requests | `application/{seed_market,cast_vote,place_trade}.rs` | votes, buys, sells; read pauses, collect debts |
| lifecycle and resolution | `application/{advance_market,advance_due,resolve_market}.rs`, `domain/{market,resolution,integrity}.rs` | closes, holds, tallies, pays, voids |
| withdrawals: desk | `application/money/withdraw_{request,decide,send}.rs`, `adapters/pg/withdraw_tx.rs` | holds cash, decides, gates the claim |
| withdrawals: rail | `withdraw_{send,reconcile,settle}.rs`, `outbound.rs`, `adapters/pg/outbound_tx.rs`, `adapters/rails/solana.rs` | signs, broadcasts, proves, settles |
| deposits and refunds | `application/credit_deposit.rs`, `adapters/rails/watcher.rs`, `adapters/pg/deposit_tx.rs` | chain transfers into suspense, then to the user or back |
| unwind and receivables | `application/ops/{unwind_market,receivable_collection,remedial_credit}.rs` | takes back what a void market paid; debts collected by every later money path |
| credits and referrals | `application/money/{credits,referrals}.rs`, `adapters/pg/credit_tx.rs` | bonus lots, conversion by fees, referral grants |
| compliance | `application/money/{kyc,aml,statuses,self_exclusion,enforcement,admin}.rs`, `phone_verification.rs` | facts that the gates of every money path read |
| configuration | `application/ops/{config,set_config,proposals,reconciler,fee_override}.rs` | fences, two-person changes, the snapshot all servers follow |
| events and incidents | `adapters/{relay,notifier,inbox}.rs`, `adapters/http/ws.rs`, `application/ops/alerts.rs`, `notify.rs` | outbox to websockets, notifications, pages |
| leased jobs | `application/ops/replay_job.rs`, `video/worker.rs`, `moderation_escalate.rs`, `publish_now_command.rs` | work taken under a lease |
| content and comments | `application/content/*`, `create_draft.rs`, `comments.rs` | drafts, publication saga, reports and moderation |
| invariant sweep | `application/integrity/invariant_sweep.rs` | reads fourteen ledger identities in one snapshot |
| surface | `adapters/http/*`, `main`, `simswarm`, `services/converse`, `web/` | routes, wiring, harness, clients |

How the parts meet. Every command runs in a READ COMMITTED transaction that takes advisory
locks (class 1 idempotency keys, 2 users, 3 the liquidity kill switch, 4 fences and caps,
6 credit lots) and row locks. While it holds them its reads and writes are one atomic step.
What the models interleave is what the code leaves open: a lookup before a lock, a wait
between two locks, a provider call, a network effect after a commit, a second transaction.

`PROJECT.json` lists every part with its status, every definition with the source lines it
translates, and the hazards with the properties that would catch them.

## Modules

| module | models | code it stands for |
|---|---|---|
| `WithdrawalRail` | send, recover, replace, reconcile and settle one approved withdrawal | `withdraw_send`, `withdraw_reconcile`, `withdraw_settle`, `outbound`, `outbound_tx`, `solana` |
| `OutboundAttempt` | landing states of an attempt and the legal edges between them, shared by both rails | `money/types.rs`, `outbound_tx.rs` |
| `PayoutOnce` | abstract: held money is paid once or returned, never both | refined by `WithdrawalRail` |
| `WithdrawalDesk` | the request protocol, every decision on a row, the gate of the claim | `withdraw_request`, `withdraw_decide`, `ensure_send_allowed`, `withdraw_tx` |
| `DepositMachine` | the watcher, observation, admission, hold, the two dual-control commands | `credit_deposit`, `watcher`, `deposit_tx`, `enforcement` |
| `RefundRail` | sending one approved deposit refund | `credit_deposit` from `begin_refund_send` to `settle_refund` |
| `Cpmm` | quotes, integer square root, settlement arithmetic | `domain/{amm,money,resolution}.rs` |
| `Market` | one market from seeding to payout, with its users, pauses, scheduler and administrator | `seed_market`, `cast_vote`, `place_trade`, `set_config`, `advance_*`, `resolve_market`, their `pg` transactions |
| `Receivables` | unwinds, the debts they open, collection, write-off, remedial credit | `unwind_market`, `receivable_collection`, `remedial_credit`, `unwind_tx` |
| `Credits` | bonus lots, fee allocation and conversion, referrals | `credits`, `referrals`, `credit_tx` |
| `Outbox` | writers, relays and cursor consumers of the event outbox | `relay`, `notifier`, `notification_tx`, the materializer's cursor |
| `Feed` | one browser on one market: relay, bus, connection, client page | `relay`, `http/ws.rs`, `web` (market socket and page) |
| `ConfigPlane` | direct writes, proposals, validation, the reconcilers | `set_config`, `proposals`, `config`, `reconciler`, `ops_config_tx` |
| `Alerts` | incidents: open, page, stamp, acknowledge, resolve, redeliver | `alerts`, `alert_tx` |
| `LeasedJobs` | fenced artifact jobs and their workers | `video/*`, `video_tx` |
| `JobOnce` | abstract: a job is tried a bounded number of times and ends once | refined by `LeasedJobs` |
| `OpsJobs` | replay and refanout commands, leased but not fenced | `replay_job`, `unwind_tx` |
| `Publication` | drafts, review, slots, the day's seed budget, the publication saga | `content/*`, `content_tx` |
| `Comments` | posts, votes, reports, moderation and the screening runner | `comments`, `moderation_escalate`, `comment_tx` |
| `Compliance` | status, exclusion, flag, license, limit, KYC and telephone commands | `statuses`, `self_exclusion`, `kyc`, `phone_verification`, `compliance_tx` |
| `MC*` | the constants of the TLC instances; `MCBooks` and `MCServices` put several modules side by side | |
| `*_proofs` | the theorems: `WithdrawalRail`, `RefundRail`, `DepositMachine`, `Outbox`, `ConfigPlane`, `LeasedJobs`, `Publication`, `Comments` | |

`MCBooks` and `MCServices` extend components that share no table. The variable `part` chooses at
the start which of them moves; the others stay in their initial state. State spaces then add and
do not multiply, and one run answers one question about several components.

### State and actions

**WithdrawalRail.** The row is its `combo` (W2, W3, W6–W10, W14, W15 of the fifteen legal
combinations), the attempt table `count`/`landing`/`lastValid` and the `lease`; the ledger is
the `posted` keys and the `book`; `persisted[p]` is the signed-bytes map of the `SolanaRails`
in process `p`, lost by `Crash(p)`; `cont[w]` is what worker `w` still does after its commit.
`height`, `sent` and `fate` are the chain. One action per transaction (`ClaimW2`,
`RecoverSending`, `ReplaceExpired`, `ObserveFinalized`, `ProveNonLanding`, `Settle`, ...), one
per network call (`Broadcast`, `Repersist`), one for the compare-and-set that records a
broadcast (`CasBroadcast`). `ReplaceRollsBack` is the transaction that fails after the rail
kept the new bytes. Endpoints answer with any height they may have seen; `Faulty` ones answer
anything; the code's two-of-three verdict is `DefinitiveFailed`. A `QuorumObservation` names no
signature, so `ReplaceExpired` and `ProveNonLanding` take evidence about any attempt (`target`);
`crossed` is a history that only properties read: the attempts that were declared failed on
evidence about another one.

**WithdrawalDesk.** A client's `pc` is its place in the request protocol: lock-free lookup,
provider calls, fingerprint and key locks with the clock read (`stamped`), balance and limit
checks under the user and cap locks (`checked`), commit. A decision takes its locks before it
reads and is one action. `FactStep` changes status, configuration, AML flags, identity tier,
exclusion, cash (a spend) and debt (an unwind). `RailSettles`/`RailFails` stand for the rail.

**DepositMachine.** A caller has a phase for each read that precedes a lock: `admit` (row read
under the deposit key), `admitting` and `confirming` (waiting for the user lock with the row
as it was read). `Tick` starts the watcher's scan at its first slot, `Fails` is an error or a
stop between the two transactions. A tick that returns `Ok` leaves behind how far it went.

**RefundRail.** As the rail, for the refund commands: the deposit stays `refund_sending`
whatever its attempt's landing state, and nothing releases it. A replacement rests on the
verdict over three endpoints (`DefinitiveFailed`), one of which may be wrong, about any attempt
(`target`, `crossed`, as in the rail).

**Market.** A request goes `idle -> user -> market -> fenced -> commit`; a resolution holds
`resolve:<market>`, collects its participants' user locks in ascending order
(`LockParticipant`), restarts if one appeared meanwhile (`Restart`), and settles under the
market row. Participants are voters, holders and the two parties of every referral whose referee
traded (`Bind`). A pause writer holds the exclusive fence (`TakeExclusive`, `WritePause`). The
scheduler reads due markets without locks (`SchedulerReads`) and then acts on what it read.
`RecordReceivable(u)` is another market's unwind that leaves user `u` in debt.

**Receivables.** A transaction that moves money is two steps, `Begin...` (it takes its own lock and
reads what its decision rests on) and `Commit...` (it posts; the ledger refuses only a negative
account), kept in `txns` between them. `opened` and `collected` are a receivable's movements;
write-offs are summed from their confirmed proposals. `OtherPosting` is any other use case that
moves the user's cash in between.

**Credits.** `book` is lots, allocations, reserve and house credit; every operator on it is pure
(`PlanTradeAllocations`, `Converted`, `OnPaid`, ...), and an action is one transaction under the
user's lots lock or the market row. A transaction that cannot be funded rolls back whole.

**Outbox.** `row[q]` is drawn at the insert (`AppendEvent`) and visible at the commit
(`EndWriter`). `RelayClaim`, `RelaySend` and `RelayMark` are one database transaction with sends
inside; `ServerFault` ends it anywhere. `Consume` reads after the cursor and advances it,
`PushFrames` follows the commit.

**Feed.** The same relay in one process, seen from a page: `bus` is what the connection's receiver
has not taken, `lagged` that the channel overwrote something, `serving` the query a connection waits
for, `missed` that one has failed, `wire` the frames on their way, `known` and `page` the client's
dedupe set and what it shows. `RelayFails` rolls back after sending, `LineDrops` loses the connection with everything under way.

**ConfigPlane.** `snaps[g]` is the configuration as generation `g` left it; `ctx[a]` an open
transaction, first waiting for the generation row, then holding it with the entries it read.
`load[r]` is the generation that the first SELECT of `load_snapshot` saw; `FinishLoad` is the second.

**Alerts.** A sweep, a delivery tick and an acknowledgement each keep the copy of the incident
row they read; every save writes it back whole. Pages may fail, and the processes may die
between any two steps.

**LeasedJobs, OpsJobs.** `claims` and `batch` are what a worker has in hand; `Lapse` and
`RunLeaseLapses` are the clock. The difference between the two is the fence: `Owns(c)` compares
the token, `Deliver` compares nothing.

**Publication.** `exec[e]` is an executor's place in the saga with the stage it read last; `made`
counts the effects (seed, question, opening, jobs, event). `ExecutorDies` and `SagaFails` stop
anywhere; `Resume` reads the stored stage again. The LP kill switch is the set of hours
`LpPaused`: in them an approval is refused and a seeding that is not a replay fails (`SeedRefused`).

**Comments.** `ReadComment`, `Screen`, `ApplyEscalation` and `CompleteScreening` are the four
transactions of a screening; users and operators act in between.

**Compliance.** `visit[v]` is a request that has read its clock or its proposal and still waits for
its lock; `ticket` are the two-person proposals by replay key; `applied` and `asks` are histories
that only properties read.

## Runs

Run one with `tlc -config <cfg> <MC module>`. "Pass" means that TLC explored the whole
instance; "violated" that it found a counterexample to a statement of the documents.

| run | instance | shows |
|---|---|---|
| `rail` | `WithdrawalRail.cfg` | One withdrawal, two workers in two processes, one lying endpoint of three, crashes and rollbacks anywhere, and evidence about any attempt. At most one transfer executes (`PayAtMostOnce`) and a released hold is never paid, before or after (`ReleasedNeverPaid`), attempts apart that were given up on evidence about another signature; nothing is broadcast before its row is durable (`SentIsDurable`); the whole refines `PayoutOnce`, where such evidence is a step of its own (`PaysOnce`). |
| `desk_requests` | `DeskRequests.cfg` | Two clients, two users, one in debt, requests interleaved with denials and a pause. Rolling limits hold in every window although clocks are read before locks (`WindowLimits`), the withheld account is the sum of the rows that hold (`HoldMatchesActive`), a receipt is final and agrees with the row (`ReplayStable`). |
| `desk_decisions` | `DeskDecisions.cfg` | One row through every decision while three facts change. An approved row had the review its reasons call for (`ApprovalEarned`), and a claim meets the policy in force at the claim (`ClaimMeetsCurrentPolicy`). |
| `desk_unwind_race` | `DeskUnwindRace.cfg` | Violated: `CashNonNegative`, see [below](#where-code-and-documents-disagree). |
| `deposit_machine` | `DepositMachine.cfg` | A watcher and two staff callers race for two deposits of an indebted user. Suspense and external account follow the statuses (`SuspenseSigma`), every deposit is credited once and a refunded one never (`CreditedOnce`). |
| `deposit_sweep` | `DepositSweep.cfg` | Two watchers and a staff member who may select a refund, one failure between the two transactions of a transfer. A tick that reports success has left every transfer it listed recorded and decided (`SweptIsDecided`). |
| `market` | `Market.cfg` | Votes, a buy, a sell, pauses, a debt, scheduler and administrator on one market. Both sides equal the escrow through every rounding (`Collateral`); at any moment the market can be settled without refusal or overdraft (`AlwaysSettleable`); every user's books close (`BooksBalance`); the payout is at the tally of all accepted votes, each rated at most once (`PaidAtFinalTally`); no request commits under its pause or after the market moved on, although it waited for the row (`AcceptedWhileOpen`); the settlement holds the lock of every user it writes and of every referral party, although it enumerated them before the locks (`SettledUnderLocks`); large pots are reviewed (`BigPotsReviewed`). |
| `market_liveness` | `MarketLiveness.cfg` | A held market with enough votes is decided (`HeldIsDecided`), no resolution waits forever (`ResolutionEnds`). |
| `books` | `Books.cfg` | Debts, remedial credits, bonus credits or a refund. No debt is collected twice (`CollectedWithinOpened`); what the house is out of pocket is exactly what its records say (`HouseAccounted`); the reserve holds every unconverted real-money lot (`ReserveCovers`); converted bonus cash is backed by fees of markets that stand (`FeesBackConversions`); a refund is paid once on the verdict of three endpoints, one of which lies (`RefundPaidOnce`, with the rail's exception). |
| `services` | `Services.cfg` | The services, one at a time, with two processes, crashes, lapsed leases and failed calls. A row marked published was sent (`PublishedWasSent`); no committed configuration breaks a cross-key rule (`CrossKeysHold`); no process holds entries older than its generation (`SnapshotNotBehind`); no stage of a publication is recorded before its effect, no effect happens twice (`SagaSound`); a comment others see has fewer reports than the threshold (`VisibleBelowThreshold`); an effective deposit limit above what a user asked for was itself asked for a day ago (`RaiseWaits`); a page with nothing under way and no failed query on its connection shows the market's price (`QuietMeansCurrent`); the fenced jobs refine `JobOnce` (`JobsEndOnce`). |
| `services_liveness` | `ServicesLive.cfg` | Every committed event is sent (`EventuallySent`), every process ends up with the newest configuration (`ReplicasCatchUp`), every incident is paged or resolved (`EveryIncidentPaged`), every job, command and due draft comes to an end (`JobEnds`, `CommandEnds`, `DueIsPublished`). |
| `exclusion_lapses` | `ComplianceExclusion.cfg` | Violated: `ExclusionInForce`, see [below](#where-code-and-documents-disagree). |

Every property of a passing run is broken by at least one small change of a definition that
the run uses (the definitions marked as mutants in the modules): a dropped guard, a skipped
second lookup, a lock not taken, a wrong rounding.

Further properties of the same modules. All of them hold; most follow the question of a run above
or are proved. Where the instance is that of a run, its configuration is run with these properties in
place of its own:

| instance | module | properties |
|---|---|---|
| `WithdrawalRailMore.cfg` | `MCWithdrawalRail` | `TypeOK`, `SettledWasPaid`, `HoldMatchesRow`, `ExpiredIsResolvable`, `ReplaceOnlyTheDead` |
| `DeskRequests.cfg` | `MCWithdrawalDesk` | `DebtCollectedOnce`, `CashNonNegative` (without unwinds) |
| `DeskDecisions.cfg` | `MCWithdrawalDesk` | `TypeOK`, `ApprovalCap` |
| `DepositMachine.cfg` | `MCDepositMachine` | `TypeOK`, `ConfirmedDecides`, `PostedMatches` |
| `RefundRail.cfg` | `MCRefundRail` | `TypeOK`, `RefundPaidOnce`, `RefundedWasPaid`, `SendingHasLiveAttempt` |
| `Market.cfg`, `MarketLiveness.cfg` | `MCMarket` | `TypeOK`, `FrozenAfterClose`; `ClosedMovesOn` |
| `Books.cfg` | `MCBooks` | `MintWithinCap` |
| `ServicesMore.cfg` | `MCServices` | `ClaimsDisjoint`, `PagedMeansLanded`, `OneLiveIncident`, `DoneWasDelivered`, `OneExclusion`, `QuietMeansCurrent` (two trades), `SensitiveNeedsTwo`, `StageForward`, `BoundForGood`, `OnlyTightens` |
| `ServicesLiveMore.cfg` | `MCServices` | `ScreeningEnds`, `WatcherCatchesUp` |

## Bounds

- **Rail.** Two attempts are enough for "one dead, one live"; a third adds only more dead ones,
  and the proofs cover any number. `MaxHeight = 4` with `Validity = 1` lets an attempt expire
  and its replacement expire too. Two workers in two processes give every pairing of a slow
  worker with a recovering one, in the same or in another memory.
- **Refund.** Three attempts, because a mistaken mark needs a replacement of a replacement; three
  endpoints, as the verdict asks for exactly three, of which one is wrong.
- **Desk.** Amounts are multiples of the minimum withdrawal; limits are such that two requests
  fill a window and a third overflows it. A window is one tick (`Day = 1`), the clock has two
  or three values, and intents settled before the start lie inside and outside the first
  window and make a destination warm. `MaxChanges` bounds how often facts change: every single
  change (requests) and every sequence of three (decisions) happens at every point. The requests
  run leaves out unwinds: with them `CashNonNegative` fails, which is `desk_unwind_race`.
- **Deposits.** Two transfers of unequal amounts (2 and 1) against a debt of 2, so that a
  collection can be partial, exact and nothing; a confirm window that expires within the clock.
  `deposit_sweep` has a second watcher and one failure (`MaxCrash = 1`) instead of the second
  staff caller.
- **Market.** Two users; votes on both sides, one buy and one sell of a part of it, with odd
  amounts so that fees and the square root round. The pot reaches the hold threshold
  (16 = seed 10 + net purchase 6) exactly with the buy and is below it without; one vote is
  below `MinVotes`. One user was referred by the other (`Bind`), who is a participant as soon as the
  first one has traded. Time 0..3 has one tick for each of opening, hidden window, close, sweep.
  `MaxReserve` and `MaxAmount` stand for the closed caps and are not reached.
- **Books.** Two markets, one voided and one flagged, and two users: a winner who still has part of
  the cash and a loser without any, so that an unwind takes all, a part or nothing. Two transactions
  in flight, two principals, caps that two items fill and a third passes, a day that ends within the
  clock. For credits two markets and three trades, so that one fee splits over two lots, and a reserve
  and mint cap that two grants exhaust.
- **Services.** Two processes of each kind, two rows, jobs, commands, drafts or comments, and one or
  two faults: the races named in the hazards need two actors, one fault and one retry. Sequence
  numbers, generations and incidents stop at 2 or 3, which is one more than a lost race needs. Two
  attempts per job reach the attempts boundary. A report threshold of 2 can be reached, reset and
  reached again. The bus holds one event (`BusCap = 1`), so a receiver lags as soon as it is
  behind; one snapshot query may fail (`MaxMisses = 1`). A draft may ask for less than the floor, and
  the LP is paused in the middle one of three hours (`LpPaused = {1}`), the hour in which a draft
  approved at once is due. Groups of commands that meet only in the
  clock (the families of `Compliance`; proposals and replicas of `ConfigPlane`; review and saga of
  `Publication`; users and runners of `Comments`) are explored as separate parts.

Deadlock checking is off where every behaviour ends when the bounded inputs are used up.

## Fairness

Only loops that `main` spawns, and commands that have begun, are fair. Safety runs assume none.

- **Deposits.** `main` does not spawn the `InboundWatcher`, so no standing run assumes that it ticks:
  `SweptIsDecided` says what a tick has done once it reports success. `DepositWatcherStops.cfg`
  does assume it (`FairSpec`: `WF Tick`, `WF Proceed`, and `SF AdmitRead` because Postgres grants
  an advisory lock in queue order), since it refutes: even a watcher that keeps ticking stops.
- **Market.** The scheduler loop is spawned (`WF SchedulerReads`); steps that wait for a lock
  have strong fairness because the lock queue is first-in first-out; a request ends by commit
  or rollback unless it waits for a lock (`WF`, with `Abort` fair only when it does not wait);
  crashes and store errors cease eventually (`<>[][Normal]_vars`). Nobody is obliged to vote,
  trade, pause, advance by hand or call a resolution.
- **Services.** `main.rs` spawns the relay (684), the notifier (692), the config reconcilers
  (699-702), alert delivery (631-643), the publisher, worker and moderation ticks (431-505) and
  the command runner (744-758): each of their steps is weakly fair. So are the clock (a lease
  lapses, a backoff ends, an hour with the LP paused passes) and the end of an open transaction. The invariant sweep runs only with
  `--continuous` (712-741), which `EveryIncidentPaged` assumes, and the publisher, artifact and
  moderation ticks only where their flag is set, which `DueIsPublished`, `JobEnds` and
  `ScreeningEnds` assume. Faults are bounded, so they cease.
  A person proposing, confirming, acknowledging, posting or reporting is never fair, nor is
  the wake-up tick of a reconciler: the heal tick alone brings a replica up to date. In `Feed` the
  client reconnects (its timer is always armed) and the connection task keeps running.
- The rails have no liveness property: `main` spawns no sender or reconciler. That a stuck
  row *can* be finished is an invariant with `ENABLED` (`ExpiredIsResolvable`).

## Proofs

The constants' assumptions are the named `ASSUME`s of the modules (bounds are natural numbers,
bounded sets are not empty, at most one endpoint lies, ...). No theorem bounds the number of actors,
rows, attempts, generations, crashes or retries.

| theorem | states |
|---|---|
| `WithdrawalRail_proofs`: `TypeCorrect`, `HoldCorrect`, `SentIsDurableCorrect` | `[]TypeOK`, `[]HoldMatchesRow`, `[]SentIsDurable` |
| `PayAtMostOnceCorrect`, `ReleasedNeverPaidCorrect`, `SettledWasPaidCorrect`, `ReplaceOnlyTheDeadCorrect` | `[]PayAtMostOnce`, `[]ReleasedNeverPaid`, `[]SettledWasPaid`, `ReplaceOnlyTheDead` |
| `RailPaysOnce` | `Spec => PaysOnce` (refinement of `PayoutOnce`) |
| `RefundRail_proofs`: `RefundPaidOnceCorrect`, `RefundedWasPaidCorrect`, `SendingHasLiveAttemptCorrect` | `[]RefundPaidOnce`; a refunded deposit was paid; a refund being sent has one live attempt, the newest |
| `DepositMachine_proofs`: `ConfirmedDecidesCorrect`, `PostedMatchesCorrect`, `SweptIsDecidedCorrect` | a confirmed pair of signatures decides; the posted keys are exactly those of the status; a successful tick left nothing behind |
| `Outbox_proofs`: `PublishedWasSentCorrect`, `ClaimsDisjointCorrect` | what is marked was sent; two relays never hold one row |
| `ConfigPlane_proofs`: `CrossKeysHoldCorrect`, `SensitiveNeedsTwoCorrect`, `SnapshotNotBehindCorrect` | committed configurations satisfy the cross-key rule; a sensitive key changes only by another principal's confirmation; snapshots are never behind their generation |
| `LeasedJobs_proofs`: `LeasedInvCorrect`, `LeasedJobsEndOnce` | the fence; refinement of `JobOnce` |
| `Publication_proofs`: `SagaSoundCorrect`, `StageForwardCorrect` | effect before stage, effects once; stages never go back |
| `Comments_proofs`: `VisibleBelowThresholdCorrect`, `OnlyTightensCorrect` | the report threshold; only a moderator loosens or blocks |

Beyond at most one faulty endpoint, no theorem assumes anything of the evidence. `QuorumObservation`
names no signature, and neither `prove_non_landing` nor `replace_expired` nor its counterpart for
refunds can tell that the observations it is handed are about another attempt than the live one. The payment theorems therefore speak of the attempts outside
`crossed`, the ones that were not given up on such evidence. The exception is real
(`FailedNeverLands` [below](#where-code-and-documents-disagree)); it is also the only one.

**The rail.** None of the payment properties is inductive: that a released hold is not paid
*later* depends on the released attempt being expired, which depends on the evidence, which
depends on which attempt is live. The inductive invariant `IInv` has four parts besides types:

- `Lineage`: the attempt table follows the row. All attempts but the last are definitively
  failed, and the last is in the landing state that the row's combination implies.
- `Durable`: nodes have only bytes of committed attempts, the chain only what nodes have, and
  a worker about to broadcast attempt `a` has `a` in its process's map. This is where a crash
  and a rolled-back replacement are absorbed.
- `Verdicts`: a definitively failed attempt is past its last valid block and did not execute,
  unless it is `crossed`; a finalized one executed.
- `HoldMatchesRow`: the books.

The hinge is lemma `VerdictSound`: if the two-of-three verdict is obtainable for an attempt,
an honest endpoint saw a finalized height beyond its validity and no execution, so it is dead
for good. Each part is preserved action by action; each property follows from `IInv`; the
refinement maps `hold` to the posted ledger keys, `paid` to "some attempt executed" and `void` to
"evidence about another attempt was accepted", after which `PayoutOnce` promises nothing more
about payments.

**The refund rail** (`RefundInv`). Attempts are placed relative to the newest: the earlier ones are
failed, past their window and, unless `crossed`, never executed (`Earlier`), later ones do not
exist (`Later`), no map, wire or worker has bytes of a later attempt (`Bytes`), and the deposit's
status fixes the newest one's landing state (`Newest`). That two transfers cannot both execute
follows, because apart from the crossed ones only the newest attempt can have a fate. Its
`VerdictSound` is the rail's: two of three endpoints include an honest one.

**Deposits** (`DepositInv`). `ConfirmedDecides` and `PostedMatches` are inductive together once it is
known where a caller stands (`CallersAt`): a caller that waits with a stale row compares it
again under the user lock, so whichever comes second leaves the row alone. `SweptIsDecided` needs in
addition that a decided row stays decided and that a watcher passes a transfer only after its own
admission or after it read a decided row (`CallersAt` and the sweep lemmas).

**Outbox** (`RelayInv`). `PublishedWasSent` needs that the rows a relay's open transaction has
sent were heard on its bus (`SentIsHeard`), and that two open transactions hold disjoint rows.

**Config plane** (`WriteInv`, then `ReadInv`). The holder of the generation row has read the entries
that are committed (`LockInv`), an open confirmation has the pending proposal of another principal
(`ConfirmInv`), and a direct write names no sensitive key (`KindInv`). Lemmas state what validation
and overlay return. For readers: generations only grow and a load's first read is at most the
current generation, so the second read is at least as new as the generation it is stored with.

**Leased jobs** (`LeasedInv`). Tokens are drawn once, so the claim whose token a job carries is the
job's newest attempt (`Fence`), and a queued job has an attempt left (`Budget`). The refinement maps
a job's status and attempts to `JobOnce`; a superseded worker's step maps to a stutter.

**Publication** (`SagaInv`). `SagaSound` is not inductive: an executor that records a stage must know
that the effect was made, possibly by another one. `Works` says what an executor's place implies:
the stage it read is not ahead of the draft's, and before it advances, the effect exists.

**Comments** (`CommentsInv`). With finite report sets (`ReportsInv`) the threshold invariant is
inductive: a report that reaches the threshold shadows the comment in the same transaction, a restore
clears the reports, and a verdict applies only if it is more severe than the comment's status.

Only model-checked: every liveness property and `ExpiredIsResolvable` (`ENABLED`); properties that
are sums over sets or sequences (`SuspenseSigma`, `HoldMatchesActive`, `WindowLimits`,
`CollectedWithinOpened`, `HouseAccounted`, `ReserveCovers`, `FeesBackConversions`), which need
induction over data; what the recursive `isqrt` computes and with it `Collateral` and the rest of
`Market`; the desk's decisions, `Alerts`, `OpsJobs`, `Compliance` and `Feed`.

## Where code and documents disagree

Standing runs, each with its counterexample:

- **`desk_unwind_race`** (`adapters/pg/withdraw_tx.rs:1201`). A request checks the balance; an
  unwind, which takes no user lock, debits it and commits; the request writes its hold without
  a second look. The account is negative, against identity 2 of `invariants.md` (line 23).
- **`exclusion_lapses`** (`adapters/pg/credit_tx.rs:939`). `self_exclusion.rs:99-101` says that "an
  unlifted exclusion is in force whether or not its cooling-off has elapsed"; the gates compare
  its end with the clock, so it stops refusing anything on that day.

Further properties that TLC refutes. The first column is the configuration to run: as it stands if
it names the property, otherwise with its properties replaced by this one, the constant changed as
given and, for `Services.cfg` and `ServicesMore.cfg`, `Parts` reduced to the part named:

| instance | property | what it shows |
|---|---|---|
| `WithdrawalRail.cfg` | `ProofSufficesToReplace` | `persist_signed` (`solana.rs:169`) refuses other bytes for a payment it already holds, so a process that sent or rebroadcast the first attempt cannot replace it until it restarts; `withdrawal-states.md` has W7 -> W8 "only with proof it did not land", without this condition. |
| `WithdrawalRail.cfg` | `EveryFateDecides` | A transaction included with an execution error counts as present (`solana.rs:207`) and has no matching receipt: the row stays in W7. |
| `WithdrawalRail.cfg` | `FailedNeverLands` | Evidence gathered for attempt 1, attempt 1 replaced, evidence applied to attempt 2 (`withdraw_reconcile.rs:220`): an attempt is declared definitively failed although it lands. |
| `RailLateBroadcastMark.cfg` | `BroadcastWasSent` | `cas_broadcast` compares the state, not the attempt (`withdraw_send.rs:356`): after W8 -> W7 -> W8 a slow sender marks the newer, unsent attempt as broadcast. |
| `DeskHit.cfg` | `NoSendAfterHit` | Only the latest screening counts (`withdraw_tx.rs:377`): a Clear stamped after a Hit of another request of the same user hides the Hit. |
| `DeskRescreen.cfg` | `RescreenedAtSend` | `ensure_send_allowed` (`withdraw_send.rs:404`) refuses an aged Clear and nothing screens again, against `compliance.md`. |
| `DepositProposalExpires.cfg` | `HeldIsActionable` | An expired proposal keeps its replay key (`credit_deposit.rs:439`): once both commands expired, nobody can act on the held deposit. |
| `DepositWatcherStops.cfg` | `AlwaysRecorded` | A transfer whose admission fails for good (selected for a refund) ends every tick (`watcher.rs:89`) before later transfers are recorded. |
| `RefundRail.cfg` | `ExpiredRefundResolvable` | A broadcast refund attempt that expired is neither recovered nor replaced (`credit_deposit.rs:823`). |
| `MarketThinHold.cfg` | `ThinHeldIsDecided` | A market held for review with fewer votes than the minimum and real money at stake is swept forever: the error that flags a *closed* market for a curator is only passed on for a *held* one (`advance_due.rs:208`), and the curator's override needs the flag. |
| `Market.cfg` | `NoTradeOnFrozenTape` | A trade reads the voting pause under the trading fences (`place_trade.rs:206`), so a voting pause can commit before the trade does; the comment there promises otherwise. |
| `Books.cfg` | `ReceivablesReconcile` | A collection holds the user's lots and a write-off its key (`receivable_collection.rs:37`, `216`): both take the same cents. `invariants.md:50-52`: "collections plus write-offs never exceed what was opened". |
| `Books.cfg` | `OutstandingWithinCap` | The confirmation compares the total before its own debts with the cap (`unwind_market.rs:173-174`), and two unwinds may read the same total; lines 111-112 say that it is refused when outstanding "would pass the pinned threshold". |
| `Books.cfg` | `RemedialWithinCaps` | Two confirmations under two keys read the same totals (`remedial_credit.rs:154`) and together pass the caps. |
| `Books.cfg`, `StartCredit = 3` | `ReferralNeverBlocksPay` | `referrals.rs:536-538`: a pair that is "presently ineligible (including cap/reserve refusal)" is skipped; the house's own credit is not among the refusals, and its shortfall fails the payout. |
| `Services.cfg`, part `outbox` | `NothingSkipped` | A consumer's cursor passes a number whose transaction commits later (`notification_tx.rs:46`): the notification is never made. |
| `Services.cfg`, part `outbox` | `HeardEverywhere` | A row is published once, on the bus of the process whose relay claimed it; browsers on another server hear nothing, against `live-updates.md`. |
| `Services.cfg`, part `watch` | `SnapshotExact` | `ops_config_tx.rs:550` calls generation and entries "consistent"; two statements at READ COMMITTED may differ. What does hold is `SnapshotNotBehind`. |
| `Services.cfg`, part `govern`, `Asked <- MCAskedFees` | `DiscountWithinFee` | A patch of the fee alone does not look at the discounts (`config.rs:165-169`): the fee falls below a discount. |
| `ServicesMore.cfg`, part `alerts` | `ResolvedStays` | The copy read before the page is saved whole after it (`alerts.rs:217`), over a resolution: the incident is live again. |
| `ServicesMore.cfg`, part `opsjobs` | `DeliveredAtMostOnce` | A runner that outlives its lease delivers again (`replay_job.rs:127`); line 4 says "exactly once per command". |
| `Services.cfg`, part `screen` | `SecondShadowNeedsReports` | A screening that read the comment before a restore shadows it after; the plan of phase 4 says "a second shadow requires threshold NEW reports". |
| `Services.cfg`, part `talk`, `MaxReports = 1` | `ReportVelocity` | Restoring deletes the reports that a reporter's velocity is counted from. |
| `Services.cfg`, part `exclusion` | `LiftStaysPossible` | The expired proposal keeps its replay key (`self_exclusion.rs:151`): the exclusion can never be lifted. |
| `Services.cfg`, part `standing` | `UnbanNeedsTwo` | `set_shadow` (`statuses.rs:190`) overwrites any status, so one person ends a ban; line 70 asks for a proposal and a confirmation. |
| `Services.cfg`, part `standing` | `OneEffect` | `statuses.rs:168` ignores what the compare-and-set of `confirm_proposal` answers: a second confirmer repeats the effect, against `compliance_tx.rs:145-147`. |
| `Services.cfg`, part `kyc` | `TierIsLatest` | The time of an event is read before its lock: the newest row of `kyc_events` and `users.kyc_tier` disagree. |
| `Services.cfg`, part `feed`, `NewsLimit <- MCNewsStage`, `MaxMisses = 0` | `StageIsCurrent` | A relay transaction sends two lifecycle events and rolls back; a page that connected between them shows the newer, then takes the repeated older one and drops the newer as seen. |
| `Services.cfg`, part `feed`, `MaxMisses = 0` | `TallyIsLive` | The server's tally frame has `yes` and `no` (`ws.rs:173`), the page reads `frame.tally` (`web/app/m/[slug]/page.tsx:308`): the counts vanish. |
| `Services.cfg`, part `feed` | `PriceIsCurrent` | A failed query is skipped (`ws.rs:465`) and nothing asks again until the next event. |

Seen while reading, without a run: `set_config.rs` reads the clock of its timing rule before it
waits for the fences; a manual `StartIntegritySweep` of a closed market leaves it held with no
due time; `withdrawal-states.md` lets an unwind cancel unsent withdrawals, the code does not; a
publisher tick stops at its first error (`publisher.rs:45`), so drafts behind it wait for the next.

## Abstractions

- A transaction that holds its locks is one step; where it waits for a further lock between
  reads, it has a phase. Collisions of hashed lock keys are ignored.
- Amounts are small integers. In the desk an unwind and a collection move single units.
- What one locked decision reads (account, screenings, config) is read at one instant.
- Clocks: database and application clock are one; a step that reads the clock before a wait
  keeps what it read (`stamped`, the `now` of a `visit`, any earlier value in `TakeExclusive`).
- A request is identified with its idempotency key; a key reused for another request is
  modelled in the desk only.
- Initial states with a past (a settled intent, a bound key, an open debt, a voided market) are
  states the program reaches by commands outside the module.
- Re-evaluation of held deposits (`reevaluate_held`) is modelled; no route calls it.
- In `Market`, gates, velocity, account age, phone, tier caps and a stale configuration are
  one possible refusal (`Abort`); the fee is any of `FeeBps`; who referred whom
  is fixed (`Bind`); the market's own unwind, bonus lots and referral grants are absent (they are
  in `Receivables` and `Credits`); the two trading fences
  are one; one pause writer at a time (the configuration generation row serialises them);
  reputation is counted, not computed.
- `Receivables` and `Credits` keep only the accounts they move; the user's other postings are
  `OtherPosting`. Lots granted at the same instant are taken in the order of their sequence,
  where the code orders by a random identifier. The referral feature flag is on.
- Roles (who may propose, confirm or operate) are left out: only that two principals differ is kept.
- `ConfigPlane` has one key per kind of rule. `Compliance` leaves out the validity horizon of a
  verdict and the providers' answers. `Outbox` and `Feed` treat a payload as its number; `Feed` has
  one process, one market, no trade tape and no notification frames.
- The LP's loss, which closes its kill switch, is a set of hours in `Publication`; where a user's
  deposits came from and were refunded to is fixed in the desk (`SourceOf`, `RefundedTo`).
- A lease is held or lapsed and a backoff waiting or over; durations are not counted.
- Two postings that lock rows in opposite order are left to the deadlock detection of Postgres: one
  of them fails, which is a failure the models have anyway.

## Not modelled

`PROJECT.json` gives the reason for each part. In short:

- **No control state of the system**: HTTP routes, middleware and answers, rendering, drafting
  templates and language-model ports, the Python service, most of the web client, the load harness,
  process wiring (it appears as fairness).
- **Read-only**: the invariant sweep (its identities on the modelled books are invariants here)
  and the chain reconciliation sums.
- **Pure formulas applied once**: reputation and scores.
- **Not in the source**: the fee override, whose port has no implementation over the database; a
  sender, reconciler or inbound watcher loop, which nothing spawns.
- **Abstracted to a refusal**: text rules, rate windows, age, geography and tier policies.

What remains unmapped is mostly not behaviour. The repository has about 176,000 lines of Rust, Python
and TypeScript; roughly half are copies under `var/backup`, and a large share of the rest is tests,
fakes and fixtures. About 48,000 lines are the program itself, and the definitions here stand
for about 12,600 of them. The others are data types and their conversions, port traits,
row mapping, error tables, request and answer structures, routes and pages: a definition that claimed
those lines would translate nothing in them.
