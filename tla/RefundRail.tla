----------------------------- MODULE RefundRail -----------------------------
(***************************************************************************)
(* Sending one approved deposit refund (credit_deposit.rs, from            *)
(* begin_refund_send to settle_refund).  It shares the attempt table and   *)
(* the rail's signed-bytes map with withdrawals, not their use cases.      *)
(*                                                                         *)
(* Every command holds the deposit's key for its transaction, so one       *)
(* transaction is one action; what follows its commit is the worker's      *)
(* continuation.  A replacement rests on what the archival endpoints say:  *)
(* one of them may lie, the others may lag, and nothing ties what they     *)
(* were asked to the attempt that is judged.                               *)
(***************************************************************************)
EXTENDS Integers, FiniteSets, OutboundAttempt

CONSTANTS
    Worker,      \* tasks that run refund commands
    Proc, Host,  \* server processes, and the one each worker runs in
    Endpoint,    \* the pinned archival endpoints (three in the code)
    Faulty,      \* those that may answer anything
    MaxAttempt   \* bound: signed attempts

ASSUME RefundAssumption == Host \in [Worker -> Proc] /\ MaxAttempt \in Nat \ {0}

ASSUME EndpointAssumption ==
    /\ IsFiniteSet(Endpoint)
    /\ Faulty \subseteq Endpoint
    /\ Cardinality(Faulty) <= 1

VARIABLES
    status,     \* the deposit's machine_status
    count,      \* rows of outbound_send_attempts for the refund
    landing,    \* landing_state of each attempt
    lease,      \* of the prepared attempt
    persisted,  \* per process: the attempt whose bytes its rail map holds
    cont,       \* per worker: what it does after its last commit
    sent,       \* attempts whose bytes some node has received
    expired,    \* attempts whose last valid block height has passed
    fate,       \* what the chain did with each attempt
    crossed     \* history: attempts declared failed on observations that were
                \* about another attempt's signature

row == <<status, count, landing, lease>>
chain == <<sent, expired, fate>>
vars == <<status, count, landing, lease, persisted, cont, sent, expired, fate, crossed>>

Attempt == 1 .. MaxAttempt

\* A rail map entry whose bytes belong to no committed attempt.
Phantom == -1

Idle == [step |-> "idle", attempt |-> 0, mark |-> "no"]

Then(w, step, a, mark) ==
    cont' = [cont EXCEPT ![w] = [step |-> step, attempt |-> a, mark |-> mark]]

Return(w) == cont' = [cont EXCEPT ![w] = Idle]

IsIdle(w) == cont[w].step = "idle"

LiveAttempt(a) == \A b \in Attempt : (landing[b] \in LiveState) <=> (b = a)

\* save_attempt
SaveAttempt(a, state) ==
    /\ LegalAttemptEdge(landing[a], state)
    /\ state \in LiveState => \A b \in Attempt \ {a} : landing[b] \notin LiveState
    /\ state = "finalized" => \A b \in Attempt \ {a} : landing[b] # "finalized"
    /\ landing' = [landing EXCEPT ![a] = state]

\* insert_attempt, on the table as the transaction has left it
InsertAttempt(table, a) ==
    /\ a \in Attempt
    /\ a = count + 1
    /\ a > 1 => table[a - 1] = "definitive_failed"
    /\ count' = a
    /\ landing' = [table EXCEPT ![a] = "prepared"]
    /\ lease' = "held"

\* persist_signed
PersistSigned(p, a) ==
    /\ persisted[p] \in {0, a}
    /\ persisted' = [persisted EXCEPT ![p] = a]

\* lookup_signature and finalized_block_height at a node that may lag
Presence(a) == {"absent", "unknown"} \cup (IF a \in sent THEN {"present"} ELSE {})
SeenExpired(a) == IF a \in expired THEN {"yes", "no"} ELSE {"no"}

-----------------------------------------------------------------------------
(* begin_refund_send *)

\* A refund that was approved: first attempt, bytes kept, then broadcast.
BeginRefundSend(w) ==
    /\ IsIdle(w)
    /\ status = "refund_approved"
    /\ count = 0
    /\ InsertAttempt(landing, 1)
    /\ PersistSigned(Host[w], 1)
    /\ status' = "refund_sending"
    /\ Then(w, "broadcast", 1, "yes")
    /\ UNCHANGED <<chain, crossed>>

\* Mutant: not found is taken for failed.
GiveUp_Failed(a) == SaveAttempt(a, "definitive_failed")

\* Neither found nor known to be still sendable.
GiveUp(a) == SaveAttempt(a, "unknown")

\* A prepared attempt whose lease ran out.
RecoverPrepared(w) ==
    /\ IsIdle(w)
    /\ status = "refund_sending"
    /\ lease = "expired"
    /\ \E a \in Attempt :
         /\ LiveAttempt(a)
         /\ landing[a] = "prepared"
         /\ \/ /\ "present" \in Presence(a)
               /\ SaveAttempt(a, "broadcast")
               /\ UNCHANGED cont
            \/ /\ "absent" \in Presence(a) /\ "no" \in SeenExpired(a)
               /\ Then(w, "persist", a, "yes")
               /\ UNCHANGED landing
            \/ GiveUp(a) /\ UNCHANGED cont
    /\ UNCHANGED <<status, count, lease, persisted, chain, crossed>>

\* An unknown attempt that can still land: the same bytes again, no mark.
RebroadcastUnknown(w) ==
    /\ IsIdle(w)
    /\ status = "refund_sending"
    /\ \E a \in Attempt :
         /\ LiveAttempt(a)
         /\ landing[a] = "unknown"
         /\ "no" \in SeenExpired(a)
         /\ Then(w, "persist", a, "no")
    /\ UNCHANGED <<row, persisted, chain, crossed>>

\* same_bytes_rebroadcast
Repersist(w) ==
    /\ cont[w].step = "persist"
    /\ IF persisted[Host[w]] \in {0, cont[w].attempt}
         THEN /\ PersistSigned(Host[w], cont[w].attempt)
              /\ Then(w, "broadcast", cont[w].attempt, cont[w].mark)
         ELSE Return(w) /\ UNCHANGED persisted
    /\ UNCHANGED <<row, chain, crossed>>

\* OutboundRails::broadcast; a failed call may have delivered the bytes.
Broadcast(w) ==
    /\ cont[w].step = "broadcast"
    /\ \/ /\ persisted[Host[w]] # 0
          /\ sent' = sent \cup {persisted[Host[w]]}
          /\ \/ cont[w].mark = "yes" /\ Then(w, "mark", cont[w].attempt, "yes")
             \/ Return(w)
       \/ sent' = sent /\ Return(w)
    /\ UNCHANGED <<row, persisted, expired, fate, crossed>>

\* mark_refund_broadcast: whichever attempt is live; the table refuses
\* unknown -> broadcast.
MarkRefundBroadcast(w) ==
    /\ cont[w].step = "mark"
    /\ Return(w)
    /\ \/ /\ status = "refund_sending"
          /\ \E a \in Attempt : LiveAttempt(a) /\ SaveAttempt(a, "broadcast")
       \/ /\ \/ status # "refund_sending"
             \/ \E a \in Attempt : LiveAttempt(a) /\ landing[a] = "unknown"
          /\ UNCHANGED landing
    /\ UNCHANGED <<status, count, lease, persisted, chain, crossed>>

-----------------------------------------------------------------------------
(* replace_expired_refund and settle_refund *)

(* The archival proof.  An observation made for live attempt a is unusable,
   finds the signature, or does not find it at a finalized height that is
   past a's window ("absent") or not ("behind"). *)

\* quorum_observations at an honest endpoint, asked about `target`
HonestObservation(a, target) ==
    {"unusable", "behind"}
    \cup (IF target \in sent THEN {"present"} ELSE {})
    \cup (IF a \in expired /\ fate[target] = "none" THEN {"absent"} ELSE {})

\* ... and at a faulty one.
AnyObservation == {"unusable", "present", "behind", "absent"}

\* Mutant: one endpoint past the window is enough.
DefinitiveFailed_OneVote(obs) ==
    /\ \A e \in Endpoint : obs[e] \in {"behind", "absent"}
    /\ Cardinality({e \in Endpoint : obs[e] = "absent"}) >= 1

\* refund_non_landing_verdict and non_landing_verdict
DefinitiveFailed(obs) ==
    /\ \A e \in Endpoint : obs[e] \in {"behind", "absent"}
    /\ Cardinality({e \in Endpoint : obs[e] = "absent"}) >= 2

DefinitiveFrom(a, target) ==
    \E honest \in [Endpoint \ Faulty -> HonestObservation(a, target)],
       faulty \in [Faulty -> AnyObservation] :
      DefinitiveFailed([e \in Endpoint |-> IF e \in Faulty THEN faulty[e] ELSE honest[e]])

\* An unknown attempt past its window, with a definitive verdict.  Any other
\* verdict is stored as the attempt's evidence and changes nothing else.
Replaceable(a, target) ==
    /\ status = "refund_sending"
    /\ LiveAttempt(a)
    /\ landing[a] = "unknown"
    /\ "yes" \in SeenExpired(a)
    /\ DefinitiveFrom(a, target)

ReplaceExpiredRefund(w) ==
    /\ IsIdle(w)
    /\ \E a \in Attempt, target \in 1 .. count :
         /\ Replaceable(a, target)
         /\ crossed' = IF target = a THEN crossed ELSE crossed \cup {a}
         /\ LegalAttemptEdge(landing[a], "definitive_failed")
         /\ InsertAttempt([landing EXCEPT ![a] = "definitive_failed"], a + 1)
         /\ PersistSigned(Host[w], a + 1)
         /\ Then(w, "broadcast", a + 1, "yes")
    /\ UNCHANGED <<status, chain>>

\* Either transaction fails after the rail took the new bytes.
SignedRollsBack(w) ==
    /\ IsIdle(w)
    /\ \/ status = "refund_approved"
       \/ \E a \in Attempt, target \in 1 .. count : Replaceable(a, target) /\ a < MaxAttempt
    /\ persisted[Host[w]] = 0
    /\ persisted' = [persisted EXCEPT ![Host[w]] = Phantom]
    /\ UNCHANGED <<row, cont, chain, crossed>>

\* Mutant: a receipt is not compared with the refund's amount.
VerifiedReceipt_AnyDelta(a) == fate[a] # "none"

\* verify_chain_receipt
VerifiedReceipt(a) == fate[a] = "landed"

\* Mutant: the deposit ends as if it had been admitted.
SettleRefund_Admits ==
    /\ status = "refund_sending"
    /\ \E a \in 1 .. count :
         /\ VerifiedReceipt(a)
         /\ landing[a] \in LiveState
         /\ SaveAttempt(a, "finalized")
    /\ status' = "admitted"
    /\ UNCHANGED <<count, lease, persisted, cont, chain, crossed>>

\* settle_refund: the attempt is found by the receipt's signature.
SettleRefund ==
    /\ status = "refund_sending"
    /\ \E a \in 1 .. count :
         /\ VerifiedReceipt(a)
         /\ landing[a] \in LiveState
         /\ SaveAttempt(a, "finalized")
    /\ status' = "refunded"
    /\ UNCHANGED <<count, lease, persisted, cont, chain, crossed>>

-----------------------------------------------------------------------------
(* Time, crashes and the chain *)

LeaseExpires ==
    /\ lease = "held"
    /\ lease' = "expired"
    /\ UNCHANGED <<status, count, landing, persisted, cont, chain, crossed>>

\* A process restarts: its rail map and its workers' continuations are lost.
Crash(p) ==
    /\ persisted' = [persisted EXCEPT ![p] = 0]
    /\ cont' = [w \in Worker |-> IF Host[w] = p THEN Idle ELSE cont[w]]
    /\ UNCHANGED <<row, chain, crossed>>

Expire(a) ==
    /\ a <= count
    /\ expired' = expired \cup {a}
    /\ UNCHANGED <<row, persisted, cont, sent, fate, crossed>>

\* A received transaction executes, or is included and fails, while valid.
Include(a) ==
    /\ a \in sent \ expired
    /\ fate[a] = "none"
    /\ \E outcome \in {"landed", "reverted"} : fate' = [fate EXCEPT ![a] = outcome]
    /\ UNCHANGED <<row, persisted, cont, sent, expired, crossed>>

Init ==
    /\ status = "refund_approved"
    /\ count = 0
    /\ landing = [a \in Attempt |-> "none"]
    /\ lease = "expired"
    /\ persisted = [p \in Proc |-> 0]
    /\ cont = [w \in Worker |-> Idle]
    /\ sent = {} /\ expired = {}
    /\ fate = [a \in Attempt |-> "none"]
    /\ crossed = {}

Send(w) ==
    \/ BeginRefundSend(w) \/ RecoverPrepared(w) \/ RebroadcastUnknown(w)
    \/ Repersist(w) \/ Broadcast(w) \/ MarkRefundBroadcast(w)
    \/ ReplaceExpiredRefund(w) \/ SignedRollsBack(w)

Next ==
    \/ \E w \in Worker : Send(w)
    \/ SettleRefund
    \/ LeaseExpires
    \/ \E p \in Proc : Crash(p)
    \/ \E a \in Attempt : Expire(a) \/ Include(a)

Spec == Init /\ [][Next]_vars

-----------------------------------------------------------------------------
(* Properties *)

\* The refund's deposit, attempts, leases and rail maps hold only what the refund
\* commands of credit_deposit.rs and the attempt table can store.
TypeOK ==
    /\ status \in {"refund_approved", "refund_sending", "refunded"}
    /\ count \in 0 .. MaxAttempt
    /\ landing \in [Attempt -> LandingState \cup {"none"}]
    /\ lease \in {"held", "expired"}
    /\ persisted \in [Proc -> Attempt \cup {0, Phantom}]
    /\ cont \in [Worker -> [step : {"idle", "persist", "broadcast", "mark"},
                            attempt : 0 .. MaxAttempt, mark : {"yes", "no"}]]
    /\ sent \subseteq Attempt \cup {Phantom}
    /\ expired \subseteq Attempt
    /\ fate \in [Attempt -> {"none", "landed", "reverted"}]
    /\ crossed \subseteq Attempt

Landed == {a \in Attempt : fate[a] = "landed"}

\* Over all attempts, crashes and rebroadcasts at most one refund transfer
\* executes on the chain (replace_expired_refund signs again only with the
\* endpoints' proof), attempts apart that were declared failed on observations
\* about another attempt: replace_expired_refund does not compare the signature.
RefundPaidOnce == \A a, b \in Landed \ crossed : a = b

\* A refunded deposit, whose suspense went back to the external account, has
\* one finalized attempt and that one did execute (settle_refund).
RefundedWasPaid ==
    status = "refunded" =>
        \E a \in Landed : \A b \in Attempt : (landing[b] = "finalized") <=> (b = a)

\* While a refund is being sent it has exactly one live attempt, the newest, so
\* begin_refund_send never ends in its "no live attempt" error.
SendingHasLiveAttempt == status = "refund_sending" => LiveAttempt(count)

\* An attempt that is past its window and never landed does not stop the refund:
\* a worker in a fresh process can go on ("the same three-outcome
\* reconciliation" as withdrawals).
ExpiredRefundResolvable ==
    \A a \in Attempt :
        /\ status = "refund_sending" /\ LiveAttempt(a)
        /\ a \in expired /\ fate[a] = "none" /\ a < MaxAttempt
        /\ lease = "expired"
        /\ \A p \in Proc : persisted[p] = 0
        => \A w \in Worker :
              IsIdle(w) => ENABLED RecoverPrepared(w) \/ ENABLED ReplaceExpiredRefund(w)
=============================================================================
