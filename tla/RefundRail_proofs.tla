-------------------------- MODULE RefundRail_proofs --------------------------
(***************************************************************************)
(* Proofs about the refund rail, for any number of workers, processes,     *)
(* attempts and endpoints, at most one endpoint faulty.  The invariant     *)
(* says where an attempt stands relative to the newest one: the earlier    *)
(* ones are dead (failed in the table, past their window and, if they were *)
(* judged on their own evidence, never executed), the later ones do not    *)
(* exist, and no bytes are in a rail map or on the network that are not an *)
(* existing attempt's.                                                     *)
(***************************************************************************)
EXTENDS RefundRail, FiniteSetTheorems, TLAPS

Earlier == \A a \in Attempt : a < count =>
              /\ landing[a] = "definitive_failed" /\ a \in expired
              /\ a \notin crossed => fate[a] = "none"

Later == \A a \in Attempt : a > count => landing[a] = "none" /\ fate[a] = "none"

Bytes ==
    /\ \A p \in Proc : persisted[p] <= count
    /\ \A m \in sent : m <= count
    /\ \A w \in Worker : cont[w].attempt <= count

Newest ==
    /\ status = "refund_approved" => count = 0
    /\ status = "refund_sending" => count > 0 /\ landing[count] \in LiveState
    /\ status = "refunded" => count > 0 /\ landing[count] = "finalized" /\ fate[count] = "landed"

RefundInv == TypeOK /\ Earlier /\ Later /\ Bytes /\ Newest

-----------------------------------------------------------------------------
LEMMA AttemptType == MaxAttempt \in Nat /\ MaxAttempt > 0 /\ Attempt \subseteq Nat \ {0} /\ 1 \in Attempt
  BY RefundAssumption DEF Attempt

\* With at most one faulty endpoint, a definitive verdict on an attempt from
\* observations about that attempt means that the chain has not included it.
LEMMA VerdictSound ==
  ASSUME NEW a, DefinitiveFrom(a, a)
  PROVE  fate[a] = "none"
  <1>1. PICK honest \in [Endpoint \ Faulty -> HonestObservation(a, a)],
             faulty \in [Faulty -> AnyObservation] :
          DefinitiveFailed([e \in Endpoint |-> IF e \in Faulty THEN faulty[e] ELSE honest[e]])
    BY DEF DefinitiveFrom
  <1> DEFINE obs == [e \in Endpoint |-> IF e \in Faulty THEN faulty[e] ELSE honest[e]]
             Votes == {e \in Endpoint : obs[e] = "absent"}
  <1>2. Cardinality(Votes) >= 2
    BY <1>1 DEF DefinitiveFailed
  <1>3. PICK e \in Endpoint \ Faulty : e \in Votes
    <2>1. SUFFICES ASSUME Votes \subseteq Faulty PROVE FALSE
      OBVIOUS
    <2>2. IsFiniteSet(Faulty)
      BY EndpointAssumption, FS_Subset
    <2>3. Cardinality(Votes) <= Cardinality(Faulty) /\ Cardinality(Votes) \in Nat
      BY <2>1, <2>2, FS_Subset, FS_CardinalityType
    <2> QED
      BY <1>2, <2>2, <2>3, EndpointAssumption, FS_CardinalityType, SMTT(90)
  <1>4. honest[e] = "absent" /\ honest[e] \in HonestObservation(a, a)
    BY <1>1, <1>3
  <1> QED
    BY <1>4 DEF HonestObservation

LEMMA LiveIsNewest ==
  ASSUME RefundInv, NEW a \in Attempt, landing[a] \in LiveState
  PROVE  a = count /\ status # "refunded"
  <1>1. a \in Nat /\ count \in Nat
    BY AttemptType DEF RefundInv, TypeOK
  <1> QED
    BY <1>1 DEF RefundInv, Earlier, Later, Newest, LiveState

\* Steps that leave the deposit and its attempts alone: the bytes may move.
LEMMA BytesMove ==
  ASSUME RefundInv, UNCHANGED <<status, count, landing, expired, fate, crossed>>,
         TypeOK', Bytes'
  PROVE  RefundInv'
  BY DEF RefundInv, Earlier, Later, Newest

\* Saving a live state keeps the newest attempt live.
LEMMA SaveInv ==
  ASSUME RefundInv, TypeOK', Bytes', NEW a \in Attempt, LiveAttempt(a),
         NEW state \in LiveState, SaveAttempt(a, state),
         UNCHANGED <<status, count, expired, fate, crossed>>
  PROVE  RefundInv'
  <1>1. a = count /\ status # "refunded"
    BY LiveIsNewest DEF LiveAttempt
  <1>2. landing' = [landing EXCEPT ![count] = state] /\ landing \in [Attempt -> LandingState \cup {"none"}]
    BY <1>1 DEF SaveAttempt, RefundInv, TypeOK
  <1>3. count \in Nat /\ Attempt \subseteq Nat
    BY AttemptType DEF RefundInv, TypeOK
  <1>4. Earlier' /\ Later'
    BY <1>2, <1>3 DEF RefundInv, Earlier, Later
  <1>5. Newest'
    BY <1>1, <1>2, <1>3 DEF RefundInv, Newest, LiveState
  <1> QED
    BY <1>4, <1>5 DEF RefundInv

-----------------------------------------------------------------------------
(* The steps *)

LEMMA BeginInv ==
  ASSUME RefundInv, NEW w \in Worker, BeginRefundSend(w)
  PROVE  RefundInv'
  <1>1. /\ count = 0 /\ count' = 1 /\ status' = "refund_sending" /\ lease' = "held"
        /\ landing' = [landing EXCEPT ![1] = "prepared"]
        /\ persisted' = [persisted EXCEPT ![Host[w]] = 1]
        /\ cont' = [cont EXCEPT ![w] = [step |-> "broadcast", attempt |-> 1, mark |-> "yes"]]
        /\ UNCHANGED <<sent, expired, fate, crossed>>
    BY DEF BeginRefundSend, InsertAttempt, PersistSigned, Then, chain
  <1>2. Host[w] \in Proc /\ 1 \in Attempt /\ Attempt \subseteq Nat \ {0} /\ 1 \in 0 .. MaxAttempt
    BY RefundAssumption, AttemptType
  <1>3. TypeOK'
    BY <1>1, <1>2 DEF RefundInv, TypeOK, LandingState
  <1>4. Earlier' /\ Later' /\ Newest'
    BY <1>1, <1>2 DEF RefundInv, TypeOK, Earlier, Later, Newest, LiveState
  <1>5. Bytes'
    <2>1. /\ persisted \in [Proc -> Attempt \cup {0, Phantom}] /\ sent \subseteq Attempt \cup {Phantom}
          /\ \A v \in Worker : cont[v].attempt <= 0 /\ cont[v].attempt \in Nat
      BY <1>1, AttemptType DEF RefundInv, TypeOK, Bytes
    <2>0. Attempt \cup {0, Phantom} \subseteq Int
      BY AttemptType DEF Phantom
    <2>2. \A p \in Proc : persisted[p] \in Int /\ persisted[p] <= 0
      BY <1>1, <2>0, <2>1 DEF RefundInv, Bytes
    <2>3. \A p \in Proc : persisted'[p] <= 1
      BY <1>1, <2>1, <2>2
    <2>4. \A m \in sent' : m <= 1
      BY <1>1, <1>2, <2>1 DEF RefundInv, Bytes, Phantom
    <2>5. \A v \in Worker : cont'[v].attempt <= 1
      BY <1>1, <2>1 DEF RefundInv, TypeOK
    <2> QED
      BY <1>1, <2>3, <2>4, <2>5 DEF Bytes
  <1> QED
    BY <1>3, <1>4, <1>5 DEF RefundInv

LEMMA RecoverInv ==
  ASSUME RefundInv, NEW w \in Worker, RecoverPrepared(w)
  PROVE  RefundInv'
  <1>1. PICK a \in Attempt :
          /\ LiveAttempt(a)
          /\ \/ \E state \in LiveState : SaveAttempt(a, state) /\ UNCHANGED cont
             \/ Then(w, "persist", a, "yes") /\ UNCHANGED landing
    BY DEF RecoverPrepared, GiveUp, LiveState
  <1>2. a = count /\ a \in 0 .. MaxAttempt /\ count \in Nat
    BY <1>1, LiveIsNewest, AttemptType DEF LiveAttempt, Attempt, RefundInv, TypeOK
  <1>3. UNCHANGED <<status, count, lease, persisted, sent, expired, fate, crossed>>
    BY DEF RecoverPrepared, chain
  <1>4. ASSUME NEW state \in LiveState, SaveAttempt(a, state), UNCHANGED cont PROVE RefundInv'
    <2>1. TypeOK' /\ Bytes'
      BY <1>3, <1>4 DEF SaveAttempt, RefundInv, TypeOK, Bytes, LiveState, LandingState
    <2> QED
      BY <1>1, <1>3, <1>4, <2>1, SaveInv
  <1>5. ASSUME Then(w, "persist", a, "yes"), UNCHANGED landing PROVE RefundInv'
    <2>1. TypeOK'
      BY <1>2, <1>3, <1>5 DEF Then, RefundInv, TypeOK
    <2>2. Bytes'
      BY <1>2, <1>3, <1>5 DEF Then, RefundInv, TypeOK, Bytes
    <2> QED
      BY <1>3, <1>5, <2>1, <2>2, BytesMove
  <1> QED
    BY <1>1, <1>4, <1>5

LEMMA RebroadcastInv ==
  ASSUME RefundInv, NEW w \in Worker, RebroadcastUnknown(w)
  PROVE  RefundInv'
  <1>1. PICK a \in Attempt : LiveAttempt(a) /\ Then(w, "persist", a, "no")
    BY DEF RebroadcastUnknown
  <1>2. a = count /\ a \in 0 .. MaxAttempt /\ count \in Nat
    BY <1>1, LiveIsNewest, AttemptType DEF LiveAttempt, Attempt, RefundInv, TypeOK
  <1>3. UNCHANGED <<status, count, landing, lease, persisted, sent, expired, fate, crossed>>
    BY DEF RebroadcastUnknown, row, chain
  <1>4. TypeOK'
    BY <1>1, <1>2, <1>3 DEF Then, RefundInv, TypeOK
  <1>5. Bytes'
    BY <1>1, <1>2, <1>3 DEF Then, RefundInv, TypeOK, Bytes
  <1> QED
    BY <1>3, <1>4, <1>5, BytesMove

LEMMA RepersistInv ==
  ASSUME RefundInv, NEW w \in Worker, Repersist(w)
  PROVE  RefundInv'
  <1> DEFINE a == cont[w].attempt
  <1>1. UNCHANGED <<status, count, landing, lease, sent, expired, fate, crossed>>
    BY DEF Repersist, row, chain
  <1>2. a \in 0 .. MaxAttempt /\ a <= count /\ count \in Nat /\ cont[w].mark \in {"yes", "no"}
    BY DEF RefundInv, TypeOK, Bytes
  <1>3. Host[w] \in Proc
    BY RefundAssumption
  <1>4. \/ /\ persisted' = [persisted EXCEPT ![Host[w]] = a]
           /\ cont' = [cont EXCEPT ![w] = [step |-> "broadcast", attempt |-> a, mark |-> cont[w].mark]]
        \/ persisted' = persisted /\ cont' = [cont EXCEPT ![w] = Idle]
    BY DEF Repersist, PersistSigned, Then, Return
  <1>5. a \in Attempt \cup {0}
    BY <1>2, AttemptType DEF Attempt
  <1> HIDE DEF a
  <1>6. TypeOK'
    <2>1. persisted' \in [Proc -> Attempt \cup {0, Phantom}]
      BY <1>3, <1>4, <1>5 DEF RefundInv, TypeOK
    <2>2. cont' \in [Worker -> [step : {"idle", "persist", "broadcast", "mark"},
                               attempt : 0 .. MaxAttempt, mark : {"yes", "no"}]]
      BY <1>2, <1>4, AttemptType DEF RefundInv, TypeOK, Idle
    <2> QED
      BY <1>1, <2>1, <2>2 DEF RefundInv, TypeOK
  <1>7. Bytes'
    BY <1>1, <1>2, <1>3, <1>4, SMTT(90) DEF RefundInv, TypeOK, Bytes, Idle
  <1> QED
    BY <1>1, <1>6, <1>7, BytesMove

LEMMA BroadcastInv ==
  ASSUME RefundInv, NEW w \in Worker, Broadcast(w)
  PROVE  RefundInv'
  <1>1. UNCHANGED <<status, count, landing, lease, persisted, expired, fate, crossed>>
    BY DEF Broadcast, row
  <1>2. Host[w] \in Proc
    BY RefundAssumption
  <1>3. /\ persisted[Host[w]] # 0 /\ sent' = sent \cup {persisted[Host[w]]}
        \/ sent' = sent
    BY DEF Broadcast
  <1>4. \/ cont' = [cont EXCEPT ![w] = [step |-> "mark", attempt |-> cont[w].attempt, mark |-> "yes"]]
        \/ cont' = [cont EXCEPT ![w] = Idle]
    BY DEF Broadcast, Then, Return
  <1>5. cont[w].attempt \in 0 .. MaxAttempt /\ cont[w].attempt <= count /\ count \in Nat
    BY DEF RefundInv, TypeOK, Bytes
  <1>6. TypeOK'
    <2>1. sent' \subseteq Attempt \cup {Phantom}
      BY <1>2, <1>3 DEF RefundInv, TypeOK
    <2> QED
      BY <1>1, <1>4, <1>5, <2>1, AttemptType DEF RefundInv, TypeOK, Idle
  <1>7. Bytes'
    <2>1. \A m \in sent' : m <= count
      BY <1>2, <1>3 DEF RefundInv, Bytes
    <2>2. \A v \in Worker : cont'[v].attempt <= count
      BY <1>4, <1>5 DEF RefundInv, TypeOK, Bytes, Idle
    <2> QED
      BY <1>1, <2>1, <2>2 DEF RefundInv, Bytes
  <1> QED
    BY <1>1, <1>6, <1>7, BytesMove

LEMMA MarkInv ==
  ASSUME RefundInv, NEW w \in Worker, MarkRefundBroadcast(w)
  PROVE  RefundInv'
  <1>1. /\ cont' = [cont EXCEPT ![w] = Idle]
        /\ UNCHANGED <<status, count, lease, persisted, sent, expired, fate, crossed>>
    BY DEF MarkRefundBroadcast, Return, chain
  <1>2. Bytes'
    BY <1>1 DEF RefundInv, TypeOK, Bytes, Idle
  <1>3. ASSUME NEW a \in Attempt, LiveAttempt(a), SaveAttempt(a, "broadcast") PROVE RefundInv'
    <2>1. TypeOK'
      BY <1>1, <1>3, AttemptType DEF SaveAttempt, RefundInv, TypeOK, LandingState, Idle
    <2>2. "broadcast" \in LiveState
      BY DEF LiveState
    <2> QED
      BY <1>1, <1>2, <1>3, <2>1, <2>2, SaveInv
  <1>4. ASSUME UNCHANGED landing PROVE RefundInv'
    <2>1. TypeOK'
      BY <1>1, <1>4, AttemptType DEF RefundInv, TypeOK, Idle
    <2> QED
      BY <1>1, <1>2, <1>4, <2>1, BytesMove
  <1> QED
    BY <1>3, <1>4 DEF MarkRefundBroadcast

\* The one step that signs again: the attempt it replaces is the newest, past
\* its window, and unknown to the chain unless other evidence was used.
LEMMA ReplaceInv ==
  ASSUME RefundInv, NEW w \in Worker, ReplaceExpiredRefund(w)
  PROVE  RefundInv'
  <1>1. PICK a \in Attempt, target \in 1 .. count :
          /\ Replaceable(a, target)
          /\ crossed' = IF target = a THEN crossed ELSE crossed \cup {a}
          /\ InsertAttempt([landing EXCEPT ![a] = "definitive_failed"], a + 1)
          /\ PersistSigned(Host[w], a + 1)
          /\ Then(w, "broadcast", a + 1, "yes")
    BY DEF ReplaceExpiredRefund
  <1>2. /\ a = count /\ count \in Nat /\ a + 1 \in Attempt /\ count' = a + 1
        /\ Host[w] \in Proc /\ Attempt \subseteq Nat \ {0} /\ a + 1 \in 0 .. MaxAttempt
    BY <1>1, LiveIsNewest, AttemptType, RefundAssumption
    DEF Replaceable, LiveAttempt, InsertAttempt, RefundInv, TypeOK, Attempt
  <1>3. a \in expired /\ status = "refund_sending"
    BY <1>1 DEF Replaceable, SeenExpired
  <1>0. a \notin crossed' => fate[a] = "none"
    BY <1>1, VerdictSound DEF Replaceable
  <1>4. /\ landing' = [[landing EXCEPT ![a] = "definitive_failed"] EXCEPT ![a + 1] = "prepared"]
        /\ lease' = "held"
        /\ persisted' = [persisted EXCEPT ![Host[w]] = a + 1]
        /\ cont' = [cont EXCEPT ![w] = [step |-> "broadcast", attempt |-> a + 1, mark |-> "yes"]]
        /\ UNCHANGED <<status, sent, expired, fate>>
    BY <1>1 DEF InsertAttempt, PersistSigned, Then, ReplaceExpiredRefund, chain
  <1>5. landing \in [Attempt -> LandingState \cup {"none"}]
    BY DEF RefundInv, TypeOK
  <1>6. /\ landing'[a] = "definitive_failed" /\ landing'[a + 1] = "prepared"
        /\ \A b \in Attempt \ {a, a + 1} : landing'[b] = landing[b]
    BY <1>2, <1>4, <1>5
  <1>7. TypeOK'
    <2>1. landing' \in [Attempt -> LandingState \cup {"none"}]
      BY <1>4, <1>5 DEF LandingState
    <2>2. persisted' \in [Proc -> Attempt \cup {0, Phantom}]
      BY <1>2, <1>4 DEF RefundInv, TypeOK
    <2>3. cont' \in [Worker -> [step : {"idle", "persist", "broadcast", "mark"},
                               attempt : 0 .. MaxAttempt, mark : {"yes", "no"}]]
      BY <1>2, <1>4 DEF RefundInv, TypeOK
    <2> QED
      BY <1>1, <1>2, <1>4, <2>1, <2>2, <2>3 DEF RefundInv, TypeOK
  <1>8. Earlier'
    <2> SUFFICES ASSUME NEW b \in Attempt, b < a + 1
                 PROVE  /\ landing'[b] = "definitive_failed" /\ b \in expired
                        /\ b \notin crossed' => fate[b] = "none"
      BY <1>2, <1>4 DEF Earlier
    <2>1. CASE b = a
      BY <2>1, <1>0, <1>3, <1>6
    <2>2. CASE b # a
      <3>1. b < count /\ b # a + 1
        BY <2>2, <1>2
      <3> QED
        BY <2>2, <3>1, <1>1, <1>6 DEF RefundInv, Earlier
    <2> QED
      BY <2>1, <2>2
  <1>9. Later'
    <2> SUFFICES ASSUME NEW b \in Attempt, b > a + 1
                 PROVE  landing'[b] = "none" /\ fate[b] = "none"
      BY <1>2, <1>4 DEF Later
    <2>1. b > count /\ b # a /\ b # a + 1
      BY <1>2
    <2> QED
      BY <2>1, <1>6 DEF RefundInv, Later
  <1>10. Newest'
    BY <1>2, <1>3, <1>4, <1>6 DEF Newest, LiveState
  <1>11. Bytes'
    <2>0. Attempt \cup {0, Phantom} \subseteq Int
      BY AttemptType DEF Phantom
    <2>1. \A p \in Proc : persisted[p] \in Int /\ persisted[p] <= count
      BY <2>0 DEF RefundInv, TypeOK, Bytes
    <2>2. \A p \in Proc : persisted'[p] <= count + 1
      BY <1>2, <1>4, <2>1 DEF RefundInv, TypeOK
    <2>3. \A m \in sent : m \in Int /\ m <= count
      BY <2>0 DEF RefundInv, TypeOK, Bytes
    <2>4. \A v \in Worker : cont[v].attempt \in Nat /\ cont[v].attempt <= count
      BY AttemptType DEF RefundInv, TypeOK, Bytes
    <2>5. \A v \in Worker : cont'[v].attempt <= count + 1
      BY <1>2, <1>4, <2>4 DEF RefundInv, TypeOK
    <2> QED
      BY <1>2, <1>4, <2>2, <2>3, <2>5 DEF Bytes
  <1> QED
    BY <1>7, <1>8, <1>9, <1>10, <1>11 DEF RefundInv

LEMMA RollbackInv ==
  ASSUME RefundInv, NEW w \in Worker, SignedRollsBack(w)
  PROVE  RefundInv'
  <1>1. /\ persisted' = [persisted EXCEPT ![Host[w]] = Phantom]
        /\ UNCHANGED <<status, count, landing, lease, cont, sent, expired, fate, crossed>>
    BY DEF SignedRollsBack, row, chain
  <1>2. Host[w] \in Proc /\ Phantom <= count
    BY RefundAssumption, AttemptType DEF Phantom, RefundInv, TypeOK
  <1>3. TypeOK'
    BY <1>1, <1>2 DEF RefundInv, TypeOK
  <1>4. Bytes'
    BY <1>1, <1>2 DEF RefundInv, TypeOK, Bytes
  <1> QED
    BY <1>1, <1>3, <1>4, BytesMove

\* Settlement ends the newest attempt and only on a receipt.
LEMMA SettleInv ==
  ASSUME RefundInv, SettleRefund
  PROVE  RefundInv'
  <1>0. count \in 0 .. MaxAttempt /\ count \in Nat
    BY AttemptType DEF RefundInv, TypeOK
  <1>1. PICK a \in 1 .. count : /\ VerifiedReceipt(a) /\ landing[a] \in LiveState
                               /\ SaveAttempt(a, "finalized")
    BY DEF SettleRefund
  <1>2. a \in Attempt /\ Attempt \subseteq Nat
    BY <1>0, AttemptType DEF Attempt
  <1>3. a = count
    BY <1>1, <1>2, LiveIsNewest
  <1>4. /\ landing' = [landing EXCEPT ![count] = "finalized"] /\ status' = "refunded"
        /\ UNCHANGED <<count, lease, persisted, cont, sent, expired, fate, crossed>>
    BY <1>1, <1>3 DEF SettleRefund, SaveAttempt, chain
  <1>5. TypeOK' /\ Bytes'
    BY <1>4 DEF RefundInv, TypeOK, Bytes, LandingState
  <1>6. Earlier' /\ Later'
    BY <1>0, <1>2, <1>4 DEF RefundInv, TypeOK, Earlier, Later
  <1>7. Newest'
    BY <1>0, <1>1, <1>2, <1>3, <1>4 DEF RefundInv, TypeOK, Newest, VerifiedReceipt
  <1> QED
    BY <1>5, <1>6, <1>7 DEF RefundInv

LEMMA EnvironmentInv ==
  ASSUME RefundInv,
         \/ LeaseExpires
         \/ \E p \in Proc : Crash(p)
         \/ \E a \in Attempt : Expire(a) \/ Include(a)
  PROVE  RefundInv'
  <1>1. CASE LeaseExpires
    BY <1>1 DEF LeaseExpires, chain, RefundInv, TypeOK, Earlier, Later, Bytes, Newest
  <1>2. ASSUME NEW p \in Proc, Crash(p) PROVE RefundInv'
    <2>1. /\ persisted' = [persisted EXCEPT ![p] = 0]
          /\ cont' = [w \in Worker |-> IF Host[w] = p THEN Idle ELSE cont[w]]
          /\ UNCHANGED <<status, count, landing, lease, sent, expired, fate, crossed>>
      BY <1>2 DEF Crash, row, chain
    <2>2. TypeOK'
      BY <2>1, AttemptType DEF RefundInv, TypeOK, Idle
    <2>3. Bytes'
      BY <2>1 DEF RefundInv, TypeOK, Bytes, Idle
    <2> QED
      BY <2>1, <2>2, <2>3, BytesMove
  <1>3. ASSUME NEW a \in Attempt, Expire(a) PROVE RefundInv'
    BY <1>3 DEF Expire, row, RefundInv, TypeOK, Earlier, Later, Bytes, Newest
  <1>4. ASSUME NEW a \in Attempt, Include(a) PROVE RefundInv'
    <2>1. PICK o \in {"landed", "reverted"} : fate' = [fate EXCEPT ![a] = o]
      BY <1>4 DEF Include
    <2>2. /\ a \in sent /\ a \notin expired /\ fate[a] = "none"
          /\ UNCHANGED <<status, count, landing, lease, persisted, cont, sent, expired, crossed>>
      BY <1>4 DEF Include, row
    <2>3. a \in Nat /\ count \in Nat /\ a <= count
      BY <2>2, AttemptType DEF RefundInv, TypeOK, Bytes
    <2>4. TypeOK' /\ Bytes'
      BY <2>1, <2>2 DEF RefundInv, TypeOK, Bytes
    <2>5. Earlier'
      BY <2>1, <2>2 DEF RefundInv, TypeOK, Earlier
    <2>6. Later'
      BY <2>1, <2>2, <2>3 DEF RefundInv, TypeOK, Later
    <2>7. Newest'
      BY <2>1, <2>2 DEF RefundInv, TypeOK, Newest
    <2> QED
      BY <2>4, <2>5, <2>6, <2>7 DEF RefundInv
  <1> QED
    BY <1>1, <1>2, <1>3, <1>4

-----------------------------------------------------------------------------
LEMMA RefundInit == Init => RefundInv
  BY AttemptType DEF Init, RefundInv, TypeOK, Earlier, Later, Bytes, Newest, Idle

LEMMA RefundStep ==
  ASSUME RefundInv, [Next]_vars
  PROVE  RefundInv'
  <1>1. CASE UNCHANGED vars
    BY <1>1 DEF vars, RefundInv, TypeOK, Earlier, Later, Bytes, Newest
  <1> QED
    BY <1>1, BeginInv, RecoverInv, RebroadcastInv, RepersistInv, BroadcastInv, MarkInv,
       ReplaceInv, RollbackInv, SettleInv, EnvironmentInv DEF Next, Send

\* The inductive invariant of the refund rail holds in every reachable state
\* (begin_refund_send, replace_expired_refund, settle_refund).
THEOREM RefundInvCorrect == Spec => []RefundInv
  BY RefundInit, RefundStep, PTL DEF Spec

\* Of the attempts judged on their own evidence only the newest can have executed,
\* so at most one of them ever does (replace_expired_refund signs again only with
\* the endpoints' proof).
THEOREM RefundPaidOnceCorrect == Spec => []RefundPaidOnce
  <1>1. RefundInv => RefundPaidOnce
    <2> SUFFICES ASSUME RefundInv, NEW a \in Attempt \ crossed, fate[a] = "landed"
                 PROVE  a = count
      BY DEF RefundPaidOnce, Landed
    <2>1. a \in Nat /\ count \in Nat
      BY AttemptType DEF RefundInv, TypeOK
    <2> QED
      BY <2>1 DEF RefundInv, Earlier, Later
  <1> QED
    BY <1>1, RefundInvCorrect, PTL

\* A refunded deposit has one finalized attempt, and that one executed
\* (settle_refund).
THEOREM RefundedWasPaidCorrect == Spec => []RefundedWasPaid
  <1>1. RefundInv => RefundedWasPaid
    <2> SUFFICES ASSUME RefundInv, status = "refunded"
                 PROVE  \E a \in Landed : \A b \in Attempt : (landing[b] = "finalized") <=> (b = a)
      BY DEF RefundedWasPaid
    <2>1. count \in Attempt /\ count \in Nat /\ Attempt \subseteq Nat
      BY AttemptType DEF RefundInv, TypeOK, Newest, Attempt
    <2>2. count \in Landed /\ landing[count] = "finalized"
      BY <2>1 DEF RefundInv, Newest, Landed
    <2>3. \A b \in Attempt : b # count => landing[b] # "finalized"
      BY <2>1 DEF RefundInv, Earlier, Later
    <2> QED
      BY <2>2, <2>3
  <1> QED
    BY <1>1, RefundInvCorrect, PTL

\* A refund being sent has exactly one live attempt, the newest, so
\* begin_refund_send never ends in its "no live attempt" error.
THEOREM SendingHasLiveAttemptCorrect == Spec => []SendingHasLiveAttempt
  <1>1. RefundInv => SendingHasLiveAttempt
    <2> SUFFICES ASSUME RefundInv, status = "refund_sending", NEW b \in Attempt
                 PROVE  (landing[b] \in LiveState) <=> (b = count)
      BY DEF SendingHasLiveAttempt, LiveAttempt
    <2> QED
      BY LiveIsNewest DEF RefundInv, Newest
  <1> QED
    BY <1>1, RefundInvCorrect, PTL
=============================================================================
