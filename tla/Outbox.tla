------------------------------- MODULE Outbox -------------------------------
(***************************************************************************)
(* The event outbox and the processes that read it.                        *)
(*                                                                         *)
(* Every use case appends its events to events_outbox inside its own       *)
(* transaction; Postgres draws seq from a sequence when the row is         *)
(* INSERTED, and the row becomes visible when the transaction COMMITS.     *)
(* Each server runs an OutboxRelay (adapters/src/relay.rs), which claims   *)
(* unpublished rows with FOR UPDATE SKIP LOCKED, sends them on the bus of  *)
(* its own process and marks them published, all in one transaction, and   *)
(* cursor consumers: the notifier (adapters/src/notifier.rs) and the       *)
(* moderation materializer (application/src/moderation_escalate.rs), which *)
(* read the rows after the consumer's cursor and advance it, also in one   *)
(* transaction under the cursor's row lock.                                *)
(***************************************************************************)
EXTENDS Naturals, FiniteSets, FiniteSetsExt

CONSTANTS
    Server,      \* the processes sharing the database
    Consumer,    \* the rows of outbox_cursors modelled here
    MaxSeq,      \* how many events are ever appended (bound)
    RelayBatch,  \* rows of one relay claim (128 in the code)
    ReadBatch,   \* rows of one consumer batch (128 in the code)
    MaxFaults    \* failed ticks and crashed processes (bound)

ASSUME OutboxAssumption ==
    /\ MaxSeq \in Nat /\ MaxFaults \in Nat
    /\ RelayBatch \in Nat \ {0} /\ ReadBatch \in Nat \ {0}

VARIABLES
    row,        \* seq -> "none" (not drawn yet), "open" (inserted, not committed), "committed", "aborted"
    published,  \* the rows with published_at set
    claim,      \* server -> rows its relay's transaction has locked
    sent,       \* server -> those of them already sent on its bus
    heard,      \* server -> rows its bus carried so far
    cursor,     \* consumer -> last_seq
    done,       \* consumer -> rows it has turned into notifications or jobs
    frames,     \* server -> notification frames to push once the notifier's commit returned
    faults

outboxVars == <<row, published, claim, sent, heard, cursor, done, frames, faults>>

Seq1 == 1..MaxSeq

OutboxTypeOK ==
    /\ row \in [Seq1 -> {"none", "open", "committed", "aborted"}]
    /\ published \subseteq Seq1
    /\ claim \in [Server -> SUBSET Seq1]
    /\ sent \in [Server -> SUBSET Seq1]
    /\ heard \in [Server -> SUBSET Seq1]
    /\ cursor \in [Consumer -> 0..MaxSeq]
    /\ done \in [Consumer -> SUBSET Seq1]
    /\ frames \in [Server -> SUBSET Seq1]
    /\ faults \in 0..MaxFaults

OutboxInit ==
    /\ row = [q \in Seq1 |-> "none"]
    /\ published = {}
    /\ claim = [s \in Server |-> {}]
    /\ sent = [s \in Server |-> {}]
    /\ heard = [s \in Server |-> {}]
    /\ cursor = [c \in Consumer |-> 0]
    /\ done = [c \in Consumer |-> {}]
    /\ frames = [s \in Server |-> {}]
    /\ faults = 0

-----------------------------------------------------------------------------
\* The writers.

Committed == {q \in Seq1 : row[q] = "committed"}

\* OutboxWriter::append inside a use case's transaction: the sequence is drawn now.
AppendEvent ==
    \E q \in Seq1 :
        /\ row[q] = "none"
        /\ \A p \in 1..(q - 1) : row[p] # "none"
        /\ row' = [row EXCEPT ![q] = "open"]
        /\ UNCHANGED <<published, claim, sent, heard, cursor, done, frames, faults>>

\* The use case commits, or rolls back; transactions end in any order.
EndWriter(q) ==
    /\ row[q] = "open"
    /\ \E end \in {"committed", "aborted"} : row' = [row EXCEPT ![q] = end]
    /\ UNCHANGED <<published, claim, sent, heard, cursor, done, frames, faults>>

-----------------------------------------------------------------------------
\* OutboxRelay::pump_once_inner

\* The first n elements of S in seq order (ORDER BY seq LIMIT n).
FirstOf(S, n) == {q \in S : Cardinality({p \in S : p < q}) < n}

\* SELECT ... WHERE published_at IS NULL ... FOR UPDATE SKIP LOCKED; a mutant
\* that remembers the last published number instead.
Unclaimed_ByCursor ==
    {q \in Committed : \A p \in published : p < q} \ UNION {claim[s] : s \in Server}

Unclaimed == (Committed \ published) \ UNION {claim[s] : s \in Server}

RelayClaim(s) ==
    /\ claim[s] = {}
    /\ Unclaimed # {}
    /\ claim' = [claim EXCEPT ![s] = FirstOf(Unclaimed, RelayBatch)]
    /\ UNCHANGED <<row, published, sent, heard, cursor, done, frames, faults>>

RelaySend(s) ==
    /\ claim[s] \ sent[s] # {}
    /\ LET q == Min(claim[s] \ sent[s])
       IN  /\ sent' = [sent EXCEPT ![s] = @ \cup {q}]
           /\ heard' = [heard EXCEPT ![s] = @ \cup {q}]
    /\ UNCHANGED <<row, published, claim, cursor, done, frames, faults>>

\* A mutant: the rows are marked before they are sent.
RelayMark_BeforeSend(s) ==
    /\ claim[s] # {}
    /\ published' = published \cup claim[s]
    /\ claim' = [claim EXCEPT ![s] = {}]
    /\ sent' = [sent EXCEPT ![s] = {}]
    /\ UNCHANGED <<row, heard, cursor, done, frames, faults>>

RelayMark(s) ==
    /\ claim[s] # {}
    /\ sent[s] = claim[s]
    /\ published' = published \cup claim[s]
    /\ claim' = [claim EXCEPT ![s] = {}]
    /\ sent' = [sent EXCEPT ![s] = {}]
    /\ UNCHANGED <<row, heard, cursor, done, frames, faults>>

-----------------------------------------------------------------------------
\* OutboxNotifier::pump_once_inner and materialize_stage: lock the cursor, read
\* the batch, write its facts, advance the cursor, commit.

Unread(c) == {q \in Committed : q > cursor[c]}

Consume(c, s) ==
    /\ Unread(c) # {}
    /\ LET batch == FirstOf(Unread(c), ReadBatch)
       IN  /\ done' = [done EXCEPT ![c] = @ \cup batch]
           /\ cursor' = [cursor EXCEPT ![c] = Max(batch)]
           /\ frames' = IF c = "notifier" THEN [frames EXCEPT ![s] = @ \cup batch] ELSE frames
    /\ UNCHANGED <<row, published, claim, sent, heard, faults>>

\* After its commit the notifier sends the frames on the bus of its own process.
PushFrames(s) ==
    /\ frames[s] # {}
    /\ frames' = [frames EXCEPT ![s] = {}]
    /\ UNCHANGED <<row, published, claim, sent, heard, cursor, done, faults>>

-----------------------------------------------------------------------------
\* A failed statement or commit, or the death of the process: the relay's
\* transaction rolls back and its row locks go; frames not yet pushed are lost.
ServerFault(s) ==
    /\ faults < MaxFaults
    /\ claim[s] # {} \/ frames[s] # {}
    /\ faults' = faults + 1
    /\ claim' = [claim EXCEPT ![s] = {}]
    /\ sent' = [sent EXCEPT ![s] = {}]
    /\ frames' = [frames EXCEPT ![s] = {}]
    /\ UNCHANGED <<row, published, heard, cursor, done>>

OutboxNext ==
    \/ AppendEvent
    \/ \E q \in Seq1 : EndWriter(q)
    \/ \E s \in Server :
        \/ RelayClaim(s) \/ RelaySend(s) \/ RelayMark(s)
        \/ \E c \in Consumer : Consume(c, s)
        \/ PushFrames(s) \/ ServerFault(s)

OutboxSpec == OutboxInit /\ [][OutboxNext]_outboxVars

\* Every use case ends its transaction; main.rs runs the relay and the
\* consumers on intervals that log an error and go on.
Relay(s) == RelayClaim(s) \/ RelaySend(s) \/ RelayMark(s)
SomeConsume(c) == \E s \in Server : Consume(c, s)

-----------------------------------------------------------------------------
\* A row is marked published only when some bus carried it, whatever fails
\* between the claim and the commit: the relay sends first and marks in the
\* same transaction (relay.rs, pump_once_inner).
PublishedWasSent ==
    \A q \in published : \E s \in Server : q \in heard[s]

\* The relay's row locks keep two servers off the same row, and what a
\* transaction holds is unpublished until it commits: a row is sent twice only
\* after a fault, never by two healthy relays at once.
ClaimsDisjoint ==
    \A s \in Server :
        /\ claim[s] \subseteq Committed \ published
        /\ \A t \in Server \ {s} : claim[s] \cap claim[t] = {}

\* Every committed event reaches a bus, crashes and failed ticks notwithstanding.
EventuallySent ==
    \A q \in Seq1 : row[q] = "committed" ~> q \in published

\* What docs-site/build/live-updates.md says of notifications: the row exists
\* whether or not the frame arrived.  A consumer's cursor never passes a
\* committed event it did not process.
NothingSkipped ==
    \A c \in Consumer, q \in Seq1 :
        row[q] = "committed" /\ q <= cursor[c] => q \in done[c]

\* What docs-site/build/live-updates.md says of running more than one server:
\* a published event was heard on the bus of every server.
HeardEverywhere ==
    \A q \in published : \A s \in Server : q \in heard[s]
=============================================================================
