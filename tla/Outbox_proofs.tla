---------------------------- MODULE Outbox_proofs ----------------------------
(***************************************************************************)
(* Proofs about the outbox relay, for any number of servers, consumers,    *)
(* events and faults: a row is marked published only after a bus carried   *)
(* it, and no two relays ever hold the same row.                           *)
(***************************************************************************)
EXTENDS Outbox, TLAPS

\* The shape of the state the relay touches.
Shape ==
    /\ row \in [Seq1 -> {"none", "open", "committed", "aborted"}]
    /\ DOMAIN claim = Server
    /\ DOMAIN sent = Server
    /\ DOMAIN heard = Server

\* Between the claim and the mark, what the transaction sent has been heard.
SentIsHeard == \A s \in Server : sent[s] \subseteq heard[s]

RelayInv == Shape /\ SentIsHeard /\ PublishedWasSent /\ ClaimsDisjoint

-----------------------------------------------------------------------------
LEMMA ShapeInit == OutboxInit => RelayInv
  BY DEF OutboxInit, RelayInv, Shape, SentIsHeard, PublishedWasSent, ClaimsDisjoint

\* The ends of writers only add committed rows.
LEMMA WriterInv ==
  ASSUME RelayInv, AppendEvent \/ \E q \in Seq1 : EndWriter(q)
  PROVE  RelayInv'
  <1>1. Shape' /\ UNCHANGED <<published, claim, sent, heard>>
    BY DEF RelayInv, Shape, AppendEvent, EndWriter
  <1>2. Committed \subseteq Committed'
    <2>1. ASSUME AppendEvent PROVE Committed \subseteq Committed'
      BY <2>1 DEF AppendEvent, RelayInv, Shape, Committed
    <2>2. ASSUME NEW q \in Seq1, EndWriter(q) PROVE Committed \subseteq Committed'
      BY <2>2 DEF EndWriter, RelayInv, Shape, Committed
    <2> QED
      BY <2>1, <2>2
  <1> QED
    BY <1>1, <1>2 DEF RelayInv, SentIsHeard, PublishedWasSent, ClaimsDisjoint

\* A claim takes unpublished rows that no other transaction has locked.
LEMMA ClaimInv ==
  ASSUME RelayInv, NEW s \in Server, RelayClaim(s)
  PROVE  RelayInv'
  <1>1. Shape' /\ UNCHANGED <<row, published, sent, heard>>
    BY DEF RelayInv, Shape, RelayClaim
  <1>2. Committed' = Committed
    BY <1>1 DEF Committed
  <1>3. claim' = [claim EXCEPT ![s] = FirstOf(Unclaimed, RelayBatch)] /\ DOMAIN claim = Server
    BY DEF RelayInv, Shape, RelayClaim
  <1>4. FirstOf(Unclaimed, RelayBatch) \subseteq Unclaimed
    BY DEF FirstOf
  <1>5. /\ Unclaimed \subseteq Committed \ published
        /\ \A t \in Server : Unclaimed \cap claim[t] = {}
    BY DEF Unclaimed
  <1>6. /\ claim'[s] \subseteq Unclaimed
        /\ \A t \in Server \ {s} : claim'[t] = claim[t]
    BY <1>3, <1>4
  <1>7. ClaimsDisjoint'
    BY <1>1, <1>2, <1>5, <1>6 DEF RelayInv, ClaimsDisjoint
  <1> QED
    BY <1>1, <1>7 DEF RelayInv, SentIsHeard, PublishedWasSent

LEMMA SendInv ==
  ASSUME RelayInv, NEW s \in Server, RelaySend(s)
  PROVE  RelayInv'
  <1> DEFINE q == Min(claim[s] \ sent[s])
  <1>1. /\ sent' = [sent EXCEPT ![s] = sent[s] \cup {q}]
        /\ heard' = [heard EXCEPT ![s] = heard[s] \cup {q}]
        /\ UNCHANGED <<row, published, claim>>
    BY DEF RelaySend
  <1> HIDE DEF q
  <1>2. Shape' /\ SentIsHeard'
    BY <1>1 DEF RelayInv, Shape, SentIsHeard
  <1>3. \A t \in Server : heard[t] \subseteq heard'[t]
    BY <1>1 DEF RelayInv, Shape
  <1>4. PublishedWasSent'
    BY <1>1, <1>3 DEF RelayInv, PublishedWasSent
  <1>5. ClaimsDisjoint'
    BY <1>1 DEF RelayInv, ClaimsDisjoint, Committed
  <1> QED
    BY <1>2, <1>4, <1>5 DEF RelayInv

\* The rows are marked only when every one of them has been sent.
LEMMA MarkInv ==
  ASSUME RelayInv, NEW s \in Server, RelayMark(s)
  PROVE  RelayInv'
  <1>1. /\ sent[s] = claim[s] /\ published' = published \cup claim[s]
        /\ claim' = [claim EXCEPT ![s] = {}] /\ sent' = [sent EXCEPT ![s] = {}]
        /\ UNCHANGED <<row, heard>>
    BY DEF RelayMark
  <1>2. Shape' /\ SentIsHeard'
    BY <1>1 DEF RelayInv, Shape, SentIsHeard
  <1>3. PublishedWasSent'
    BY <1>1 DEF RelayInv, SentIsHeard, PublishedWasSent
  <1>4. claim'[s] = {} /\ \A t \in Server \ {s} : claim'[t] = claim[t]
    BY <1>1 DEF RelayInv, Shape
  <1>5. Committed' = Committed
    BY <1>1 DEF Committed
  <1>6. ClaimsDisjoint'
    BY <1>1, <1>4, <1>5 DEF RelayInv, ClaimsDisjoint
  <1> QED
    BY <1>2, <1>3, <1>6 DEF RelayInv

\* A failed tick or a dead process gives its rows back unpublished.
LEMMA FaultInv ==
  ASSUME RelayInv, NEW s \in Server, ServerFault(s)
  PROVE  RelayInv'
  <1>1. /\ claim' = [claim EXCEPT ![s] = {}] /\ sent' = [sent EXCEPT ![s] = {}]
        /\ UNCHANGED <<row, published, heard>>
    BY DEF ServerFault
  <1>2. Shape' /\ SentIsHeard' /\ PublishedWasSent'
    BY <1>1 DEF RelayInv, Shape, SentIsHeard, PublishedWasSent
  <1>3. claim'[s] = {} /\ \A t \in Server \ {s} : claim'[t] = claim[t]
    BY <1>1 DEF RelayInv, Shape
  <1>4. ClaimsDisjoint'
    BY <1>1, <1>3 DEF RelayInv, ClaimsDisjoint, Committed
  <1> QED
    BY <1>2, <1>4 DEF RelayInv

LEMMA RelayStep ==
  ASSUME RelayInv, [OutboxNext]_outboxVars
  PROVE  RelayInv'
  <1>1. ASSUME UNCHANGED <<row, published, claim, sent, heard>> PROVE RelayInv'
    BY <1>1 DEF RelayInv, Shape, SentIsHeard, PublishedWasSent, ClaimsDisjoint, Committed
  <1>2. ASSUME NEW s \in Server, NEW c \in Consumer, Consume(c, s) PROVE RelayInv'
    BY <1>1, <1>2 DEF Consume
  <1>3. ASSUME NEW s \in Server, PushFrames(s) PROVE RelayInv'
    BY <1>1, <1>3 DEF PushFrames
  <1>4. CASE UNCHANGED outboxVars
    BY <1>1, <1>4 DEF outboxVars
  <1> QED
    BY <1>2, <1>3, <1>4, WriterInv, ClaimInv, SendInv, MarkInv, FaultInv DEF OutboxNext

\* The inductive invariant of the relays holds in every reachable state
\* (relay.rs, pump_once_inner).
THEOREM RelayInvCorrect == OutboxSpec => []RelayInv
  BY ShapeInit, RelayStep, PTL DEF OutboxSpec

\* A row is marked published only when some bus carried it, with any number of
\* relays, failed ticks and crashes (relay.rs, pump_once_inner).
THEOREM PublishedWasSentCorrect == OutboxSpec => []PublishedWasSent
  <1>1. RelayInv => PublishedWasSent
    BY DEF RelayInv
  <1> QED
    BY <1>1, RelayInvCorrect, PTL

\* No two relays hold the same row, and what one holds is committed and not yet
\* published (relay.rs, FOR UPDATE SKIP LOCKED).
THEOREM ClaimsDisjointCorrect == OutboxSpec => []ClaimsDisjoint
  <1>1. RelayInv => ClaimsDisjoint
    BY DEF RelayInv
  <1> QED
    BY <1>1, RelayInvCorrect, PTL
=============================================================================
