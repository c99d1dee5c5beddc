----------------------- MODULE WithdrawalRail_proofs ------------------------
(***************************************************************************)
(* Safety of the withdrawal rail for any number of workers, processes,     *)
(* endpoints (at most one of them faulty), attempts and blocks.            *)
(***************************************************************************)
EXTENDS WithdrawalRail, FiniteSetTheorems, TLAPS

-----------------------------------------------------------------------------
(* The inductive invariant *)

\* The attempt table follows the row's state: every attempt but the last is
\* definitively failed, and the last one is in the state the row implies.
Lineage ==
    /\ \A a \in Attempt : a > count => landing[a] = "none"
    /\ \A a \in Attempt : a < count => landing[a] = "definitive_failed"
    /\ combo \in {"W2", "W14"} <=> count = 0
    /\ combo \in {"W3", "W8"} => landing[count] = "prepared"
    /\ combo = "W6" => landing[count] = "broadcast"
    /\ combo = "W7" => landing[count] = "unknown"
    /\ combo \in {"W9", "W10"} => landing[count] = "finalized"
    /\ combo = "W15" => landing[count] = "definitive_failed"

\* Only committed attempts reach a node, only received ones the chain; a worker
\* about to broadcast has its own attempt in its process's rail map.
Durable ==
    /\ sent \subseteq 1 .. count
    /\ \A a \in Attempt : fate[a] # "none" => a \in sent
    /\ \A p \in Proc : persisted[p] \in {0, Phantom} \cup 1 .. count
    /\ \A w \in Worker :
         /\ cont[w].step \in {"persist", "broadcast"} => cont[w].attempt \in 1 .. count
         /\ cont[w].step = "broadcast" => persisted[Host[w]] = cont[w].attempt

\* An attempt declared failed on observations about itself is expired and did not
\* execute; a finalized one did.
Verdicts ==
    \A a \in Attempt :
        /\ landing[a] = "definitive_failed" /\ a \notin crossed =>
             fate[a] # "landed" /\ height > lastValid[a]
        /\ landing[a] = "finalized" => fate[a] = "landed"

IInv == TypeOK /\ Lineage /\ Durable /\ Verdicts /\ HoldMatchesRow

-----------------------------------------------------------------------------
(* Type correctness *)

Conts == [Worker -> Continuation]
Landings == [Attempt -> LandingState \cup {"none"}]

LEMMA IdleType == Idle \in Continuation
  BY NumberAssumption DEF Idle, Continuation

LEMMA ReturnType ==
  ASSUME NEW w \in Worker, cont \in Conts, Return(w)
  PROVE  cont' \in Conts
  BY IdleType DEF Conts, Return

LEMMA ThenType ==
  ASSUME NEW w \in Worker, NEW step \in {"persist", "broadcast", "cas"},
         NEW a \in 0 .. MaxAttempt, NEW expected \in {"none", "W3", "W8"},
         cont \in Conts, Then(w, step, a, expected)
  PROVE  cont' \in Conts
  <1>1. [step |-> step, attempt |-> a, expected |-> expected] \in Continuation
    BY DEF Continuation
  <1> QED
    BY <1>1 DEF Conts, Then

LEMMA ContFields ==
  ASSUME NEW w \in Worker, cont \in Conts
  PROVE  /\ cont[w].attempt \in 0 .. MaxAttempt
         /\ cont[w].expected \in {"none", "W3", "W8"}
  BY DEF Conts, Continuation

LEMMA SaveType ==
  ASSUME NEW a \in Attempt, NEW state \in LandingState,
         landing \in Landings, SaveAttempt(a, state)
  PROVE  landing' \in Landings
  BY DEF Landings, SaveAttempt

LEMMA InsertType ==
  ASSUME NEW table \in Landings, NEW a \in Attempt, lastValid \in [Attempt -> Nat],
         height \in Nat, InsertAttempt(table, a)
  PROVE  /\ landing' \in Landings
         /\ count' \in 0 .. MaxAttempt
         /\ lastValid' \in [Attempt -> Nat]
         /\ lease' \in {"held", "expired"}
  <1>1. landing' \in Landings
    BY DEF Landings, InsertAttempt, LandingState
  <1>2. count' \in 0 .. MaxAttempt /\ lease' \in {"held", "expired"}
    BY NumberAssumption DEF InsertAttempt, Attempt
  <1>3. lastValid' \in [Attempt -> Nat]
    BY NumberAssumption DEF InsertAttempt, SignedValidity
  <1> QED
    BY <1>1, <1>2, <1>3

LEMMA TypeInit == Init => TypeOK
  <1> SUFFICES ASSUME Init PROVE TypeOK
    OBVIOUS
  <1>1. cont \in [Worker -> Continuation]
    BY IdleType DEF Init
  <1>2. book \in [Account -> Int]
    BY NumberAssumption DEF Init
  <1> QED
    BY <1>1, <1>2, NumberAssumption DEF Init, TypeOK, Combo, Attempt

LEMMA TypeStep == TypeOK /\ [Next]_vars => TypeOK'
  <1> SUFFICES ASSUME TypeOK, [Next]_vars PROVE TypeOK'
    OBVIOUS
  <1> USE NumberAssumption, HostAssumption
  <1>a. cont \in Conts /\ landing \in Landings
    BY DEF TypeOK, Conts, Landings
  <1>1. ASSUME NEW w \in Worker, ClaimW2(w) PROVE TypeOK'
    <2>1. cont' \in Conts
      BY <1>1, <1>a, ThenType DEF ClaimW2
    <2>2. 1 \in Attempt
      BY DEF Attempt
    <2>3. persisted' \in [Proc -> Attempt \cup {0, Phantom}]
      BY <1>1, <2>2 DEF ClaimW2, PersistSigned, TypeOK
    <2>4. /\ landing' \in Landings
          /\ count' \in 0 .. MaxAttempt
          /\ lastValid' \in [Attempt -> Nat]
          /\ lease' \in {"held", "expired"}
      BY <1>1, <1>a, <2>2, InsertType DEF ClaimW2, TypeOK
    <2> QED
      BY <1>1, <2>1, <2>3, <2>4 DEF ClaimW2, TypeOK, Conts, Landings, ledger, chain, Combo
  <1>2. ASSUME NEW w \in Worker, Broadcast(w) PROVE TypeOK'
    <2>1. cont' \in Conts
      BY <1>2, <1>a, ThenType, ReturnType, ContFields DEF Broadcast
    <2>2. sent' \subseteq Attempt \cup {Phantom}
      BY <1>2 DEF Broadcast, TypeOK
    <2> QED
      BY <1>2, <2>1, <2>2 DEF Broadcast, TypeOK, Conts, row, ledger
  <1>3. ASSUME NEW w \in Worker, CasBroadcast(w) PROVE TypeOK'
    <2>1. cont' \in Conts
      BY <1>3, <1>a, ReturnType DEF CasBroadcast
    <2>2. landing' \in Landings
      BY <1>3, <1>a, SaveType DEF CasBroadcast, LandingState, row
    <2> QED
      BY <1>3, <2>1, <2>2 DEF CasBroadcast, TypeOK, Conts, Landings, row, ledger, chain, Combo
  <1>4. ASSUME NEW w \in Worker, RecoverSending(w) PROVE TypeOK'
    <2>1. cont' \in Conts
      BY <1>4, <1>a, ThenType DEF RecoverSending, Attempt
    <2>2. landing' \in Landings
      BY <1>4, <1>a, SaveType DEF RecoverSending, LandingState
    <2> QED
      BY <1>4, <2>1, <2>2 DEF RecoverSending, TypeOK, Conts, Landings, ledger, chain, Combo
  <1>5. ASSUME NEW w \in Worker, RebroadcastUnknown(w) PROVE TypeOK'
    <2>1. cont' \in Conts
      BY <1>5, <1>a, ThenType DEF RebroadcastUnknown, Attempt
    <2> QED
      BY <1>5, <2>1 DEF RebroadcastUnknown, TypeOK, Conts, row, ledger, chain
  <1>6. ASSUME NEW w \in Worker, Repersist(w) PROVE TypeOK'
    <2>1. cont' \in Conts
      BY <1>6, <1>a, ThenType, ReturnType, ContFields DEF Repersist
    <2>2. persisted' \in [Proc -> Attempt \cup {0, Phantom}]
      <3>1. cont[w].attempt \in Attempt \cup {0, Phantom}
        BY <1>a, ContFields DEF Attempt
      <3>2. persisted' \in {persisted, [persisted EXCEPT ![Host[w]] = cont[w].attempt]}
        BY <1>6 DEF Repersist, PersistSigned
      <3> QED
        BY <3>1, <3>2 DEF TypeOK
    <2> QED
      BY <1>6, <2>1, <2>2 DEF Repersist, TypeOK, Conts, row, ledger, chain
  <1>7. ASSUME NEW w \in Worker, ReplaceExpired(w) PROVE TypeOK'
    <2>1. PICK a \in Attempt, target \in 1 .. count :
            /\ NoteEvidence(a, target)
            /\ InsertAttempt([landing EXCEPT ![a] = "definitive_failed"], a + 1)
            /\ PersistSigned(Host[w], a + 1)
            /\ Then(w, "broadcast", a + 1, "W8")
      BY <1>7 DEF ReplaceExpired
    <2>2. [landing EXCEPT ![a] = "definitive_failed"] \in Landings
      BY <1>a DEF Landings, LandingState
    <2>3. a + 1 \in Attempt
      BY <2>1 DEF InsertAttempt
    <2>4. cont' \in Conts
      BY <1>a, <2>1, <2>3, ThenType DEF Attempt
    <2>5. crossed' \subseteq Attempt
      BY <2>1 DEF NoteEvidence, TypeOK
    <2> QED
      BY <1>7, <2>1, <2>2, <2>3, <2>4, <2>5, InsertType
      DEF ReplaceExpired, TypeOK, Conts, Landings, PersistSigned, ledger, chain, Combo
  <1>8. ASSUME NEW w \in Worker, ReplaceRollsBack(w) PROVE TypeOK'
    BY <1>8 DEF ReplaceRollsBack, TypeOK, row, ledger, chain
  <1>9. ASSUME MarkUnknown \/ RecoverW3 \/ ObserveFinalized \/ NonLandingUnknown
        PROVE  TypeOK'
    <2>1. landing' \in Landings
      BY <1>9, <1>a, SaveType, SMTT(90)
      DEF MarkUnknown, RecoverW3, ObserveFinalized, NonLandingUnknown, LandingState, TypeOK, Attempt
    <2> QED
      BY <1>9, <2>1
      DEF MarkUnknown, RecoverW3, ObserveFinalized, NonLandingUnknown, TypeOK, Landings,
          ledger, chain, Combo
  <1>10. ASSUME ProveNonLanding PROVE TypeOK'
    <2>1. landing' \in Landings
      BY <1>10, <1>a, SaveType DEF ProveNonLanding, LandingState
    <2>2. crossed' \subseteq Attempt
      BY <1>10 DEF ProveNonLanding, NoteEvidence, TypeOK
    <2> QED
      BY <1>10, <2>1, <2>2
      DEF ProveNonLanding, ApplyRelease, TwoLeg, TypeOK, Landings, chain, Combo, Account
  <1>11. ASSUME Settle PROVE TypeOK'
    BY <1>11 DEF Settle, ApplySettle, TwoLeg, TypeOK, chain, Combo, Account
  <1>12. ASSUME Deny PROVE TypeOK'
    BY <1>12 DEF Deny, ApplyRelease, TwoLeg, TypeOK, chain, Combo, Account
  <1>16. ASSUME LeaseExpires PROVE TypeOK'
    BY <1>16 DEF LeaseExpires, TypeOK, ledger, chain
  <1>17. ASSUME AdvanceHeight PROVE TypeOK'
    BY <1>17 DEF AdvanceHeight, TypeOK, row, ledger
  <1>13. ASSUME NEW p \in Proc, Crash(p) PROVE TypeOK'
    BY <1>13, IdleType DEF Crash, TypeOK, row, ledger, chain
  <1>14. ASSUME NEW a \in Attempt, Include(a) PROVE TypeOK'
    BY <1>14 DEF Include, TypeOK, row, ledger
  <1>15. ASSUME UNCHANGED vars PROVE TypeOK'
    BY <1>15 DEF vars, TypeOK
  <1> QED
    BY <1>1, <1>2, <1>3, <1>4, <1>5, <1>6, <1>7, <1>8, <1>9, <1>10, <1>11, <1>12, <1>13,
       <1>14, <1>15, <1>16, <1>17
    DEF Next, Send, Reconcile, Environment

\* Every reachable state is well typed.
THEOREM TypeCorrect == Spec => []TypeOK
  BY TypeInit, TypeStep, PTL DEF Spec

-----------------------------------------------------------------------------
(* The books *)

Finished == {"W10", "W14", "W15"}

LEMMA HoldInit == Init => HoldMatchesRow
  BY NumberAssumption DEF Init, HoldMatchesRow, Account

\* Steps that post nothing move the row between unfinished states.
LEMMA HoldFrame ==
  ASSUME HoldMatchesRow, UNCHANGED ledger,
         combo' = combo \/ (combo \notin Finished /\ combo' \notin Finished)
  PROVE  HoldMatchesRow'
  BY DEF HoldMatchesRow, Finished, ledger

LEMMA HoldStep == TypeOK /\ HoldMatchesRow /\ [Next]_vars => HoldMatchesRow'
  <1> SUFFICES ASSUME TypeOK, HoldMatchesRow, [Next]_vars PROVE HoldMatchesRow'
    OBVIOUS
  <1> USE NumberAssumption
  <1>1. ASSUME NEW w \in Worker, Send(w) PROVE HoldMatchesRow'
    <2>1. ASSUME ClaimW2(w) \/ RecoverSending(w) \/ ReplaceExpired(w) PROVE HoldMatchesRow'
      BY <2>1, HoldFrame DEF ClaimW2, RecoverSending, ReplaceExpired, Replaceable, Finished
    <2>2. ASSUME CasBroadcast(w) PROVE HoldMatchesRow'
      BY <2>2, HoldFrame, ContFields DEF CasBroadcast, Finished, row, TypeOK, Conts
    <2>3. ASSUME Broadcast(w) \/ RebroadcastUnknown(w) \/ Repersist(w) \/ ReplaceRollsBack(w)
          PROVE  HoldMatchesRow'
      BY <2>3, HoldFrame DEF Broadcast, RebroadcastUnknown, Repersist, ReplaceRollsBack, row
    <2> QED
      BY <1>1, <2>1, <2>2, <2>3 DEF Send
  <1>2. ASSUME MarkUnknown \/ RecoverW3 \/ ObserveFinalized \/ NonLandingUnknown
        PROVE  HoldMatchesRow'
    BY <1>2, HoldFrame
    DEF MarkUnknown, RecoverW3, ObserveFinalized, NonLandingUnknown, Finished
  <1>3. ASSUME ProveNonLanding \/ Deny PROVE HoldMatchesRow'
    BY <1>3 DEF ProveNonLanding, Deny, ApplyRelease, TwoLeg, HoldMatchesRow, TypeOK, Account
  <1>4. ASSUME Settle PROVE HoldMatchesRow'
    BY <1>4 DEF Settle, ApplySettle, TwoLeg, HoldMatchesRow, TypeOK, Account
  <1>5. ASSUME Environment PROVE HoldMatchesRow'
    BY <1>5, HoldFrame DEF Environment, LeaseExpires, Crash, AdvanceHeight, Include, row
  <1>6. ASSUME UNCHANGED vars PROVE HoldMatchesRow'
    BY <1>6, HoldFrame DEF vars, ledger
  <1> QED
    BY <1>1, <1>2, <1>3, <1>4, <1>5, <1>6 DEF Next, Reconcile

\* At every moment the withheld balance is exactly the active hold, and the row
\* is finished exactly when one of release and settle is posted.
THEOREM HoldCorrect == Spec => []HoldMatchesRow
  BY TypeInit, TypeStep, HoldInit, HoldStep, PTL DEF Spec

-----------------------------------------------------------------------------
(* The attempt table *)

LEMMA LineageInit == Init => Lineage
  BY NumberAssumption DEF Init, Lineage, Attempt

\* The live attempt is the newest one.
LEMMA LiveIsLast ==
  ASSUME TypeOK, Lineage, NEW a \in Attempt, LiveAttempt(a)
  PROVE  a = count
  BY DEF TypeOK, Lineage, LiveAttempt, LiveState, Attempt

\* A save of the newest attempt and a matching move of the row.
LEMMA LineageSave ==
  ASSUME TypeOK, Lineage, count > 0, count' = count, NEW state \in LandingState,
         landing' = [landing EXCEPT ![count] = state],
         \/ combo' = "W6" /\ state = "broadcast"
         \/ combo' = "W7" /\ state = "unknown"
         \/ combo' = "W9" /\ state = "finalized"
         \/ combo' = "W15" /\ state = "definitive_failed"
  PROVE  Lineage'
  BY NumberAssumption, SMTT(90) DEF TypeOK, Lineage, Attempt

LEMMA LineageStep == TypeOK /\ Lineage /\ [Next]_vars => Lineage'
  <1> SUFFICES ASSUME TypeOK, Lineage, [Next]_vars PROVE Lineage'
    OBVIOUS
  <1> USE NumberAssumption
  <1>1. ASSUME NEW w \in Worker, ClaimW2(w) PROVE Lineage'
    BY <1>1, SMTT(90) DEF ClaimW2, InsertAttempt, TypeOK, Lineage, Attempt
  <1>2. ASSUME NEW w \in Worker, ReplaceExpired(w) PROVE Lineage'
    <2>1. PICK a \in Attempt, target \in 1 .. count :
            /\ Replaceable(a, target)
            /\ InsertAttempt([landing EXCEPT ![a] = "definitive_failed"], a + 1)
      BY <1>2 DEF ReplaceExpired
    <2>2. a = count
      BY <2>1, LiveIsLast DEF Replaceable
    <2>3. combo' = "W8"
      BY <1>2 DEF ReplaceExpired
    <2>4. /\ count' = count + 1
          /\ count + 1 \in Attempt
          /\ landing' = [[landing EXCEPT ![count] = "definitive_failed"]
                            EXCEPT ![count + 1] = "prepared"]
      BY <2>1, <2>2 DEF InsertAttempt
    <2>5. /\ landing'[count + 1] = "prepared"
          /\ landing'[count] = "definitive_failed"
          /\ \A b \in Attempt : b # count /\ b # count + 1 => landing'[b] = landing[b]
      BY <2>2, <2>4 DEF TypeOK, Attempt
    <2> QED
      BY <2>3, <2>4, <2>5, SMTT(90) DEF TypeOK, Lineage, Attempt
  <1>3. ASSUME NEW a \in Attempt, NEW state \in LandingState,
               LiveAttempt(a), SaveAttempt(a, state), UNCHANGED count,
               \/ combo' = "W6" /\ state = "broadcast"
               \/ combo' = "W7" /\ state = "unknown"
               \/ combo' = "W15" /\ state = "definitive_failed"
        PROVE  Lineage'
    <2>1. a = count
      BY <1>3, LiveIsLast
    <2>2. count > 0 /\ count' = count /\ landing' = [landing EXCEPT ![count] = state]
      BY <1>3, <2>1 DEF SaveAttempt, Attempt
    <2> QED
      BY <1>3, <2>2, LineageSave
  <1>4. ASSUME NEW w \in Worker, CasBroadcast(w) PROVE Lineage'
    BY <1>3, <1>4 DEF CasBroadcast, LandingState, row, Lineage
  <1>5. ASSUME NEW w \in Worker, RecoverSending(w) PROVE Lineage'
    BY <1>3, <1>5 DEF RecoverSending, LandingState, Lineage
  <1>6. ASSUME MarkUnknown \/ RecoverW3 \/ NonLandingUnknown PROVE Lineage'
    BY <1>3, <1>6 DEF MarkUnknown, RecoverW3, NonLandingUnknown, LandingState
  <1>7. ASSUME ProveNonLanding PROVE Lineage'
    BY <1>3, <1>7 DEF ProveNonLanding, LandingState
  <1>8. ASSUME ObserveFinalized PROVE Lineage'
    <2>1. PICK a \in 1 .. count : SaveAttempt(a, "finalized")
      BY <1>8 DEF ObserveFinalized
    <2>2. a = count
      BY <2>1, SMTT(90) DEF SaveAttempt, LegalAttemptEdge, TypeOK, Lineage, Attempt
    <2>3. count > 0 /\ count' = count /\ landing' = [landing EXCEPT ![count] = "finalized"]
      <3>1. count > 0
        BY <2>1 DEF TypeOK
      <3>2. count' = count
        BY <1>8 DEF ObserveFinalized
      <3> QED
        BY <2>1, <2>2, <3>1, <3>2 DEF SaveAttempt
    <2> QED
      BY <1>8, <2>3, LineageSave DEF ObserveFinalized, LandingState
  <1>9. ASSUME Settle \/ Deny PROVE Lineage'
    BY <1>9 DEF Settle, Deny, Lineage
  <1>10. ASSUME UNCHANGED <<combo, count, landing>> PROVE Lineage'
    BY <1>10 DEF Lineage
  <1>11. ASSUME NEW w \in Worker,
                Broadcast(w) \/ RebroadcastUnknown(w) \/ Repersist(w) \/ ReplaceRollsBack(w)
         PROVE  Lineage'
    BY <1>10, <1>11 DEF Broadcast, RebroadcastUnknown, Repersist, ReplaceRollsBack, row
  <1>12. ASSUME Environment \/ UNCHANGED vars PROVE Lineage'
    BY <1>10, <1>12 DEF Environment, LeaseExpires, Crash, AdvanceHeight, Include, row, vars
  <1> QED
    BY <1>1, <1>2, <1>4, <1>5, <1>6, <1>7, <1>8, <1>9, <1>11, <1>12 DEF Next, Send, Reconcile

-----------------------------------------------------------------------------
(* What reaches the network *)

LEMMA DurableInit == Init => Durable
  BY DEF Init, Durable, Idle

LEMMA DurableStep == TypeOK /\ Lineage /\ Durable /\ [Next]_vars => Durable'
  <1> SUFFICES ASSUME TypeOK, Lineage, Durable, [Next]_vars PROVE Durable'
    OBVIOUS
  <1> USE NumberAssumption, HostAssumption
  <1>1. ASSUME NEW w \in Worker, NEW a \in Attempt, a = count + 1, count' = a,
               PersistSigned(Host[w], a), NEW expected \in {"W3", "W8"},
               Then(w, "broadcast", a, expected), UNCHANGED chain
        PROVE  Durable'
    <2>1. \A v \in Worker : cont[v].step = "broadcast" /\ Host[v] = Host[w] =>
            persisted[Host[w]] \in 1 .. count
      BY DEF Durable
    <2>2. persisted[Host[w]] \in {0, a}
      BY <1>1 DEF PersistSigned
    <2>3. \A v \in Worker : cont[v].step = "broadcast" => Host[v] # Host[w]
      BY <1>1, <2>1, <2>2, SMTT(90) DEF TypeOK, Attempt
    <2> QED
      BY <1>1, <2>3, SMTT(90) DEF PersistSigned, Then, chain, Durable, TypeOK, Attempt, Conts
  <1>2. ASSUME NEW w \in Worker, ClaimW2(w) PROVE Durable'
    BY <1>1, <1>2 DEF ClaimW2, InsertAttempt
  <1>3. ASSUME NEW w \in Worker, ReplaceExpired(w) PROVE Durable'
    BY <1>1, <1>3 DEF ReplaceExpired, InsertAttempt
  <1>4. ASSUME NEW w \in Worker, Broadcast(w) PROVE Durable'
    <2>1. persisted[Host[w]] \in 1 .. count
      BY <1>4 DEF Broadcast, Durable
    <2>2. sent' \subseteq 1 .. count' /\ sent \subseteq sent'
      BY <1>4, <2>1 DEF Broadcast, Durable, row
    <2>3. \A v \in Worker : cont'[v].step \notin {"persist", "broadcast"} \/ cont'[v] = cont[v]
      BY <1>4, SMTT(90) DEF Broadcast, Then, Return, Idle, TypeOK
    <2> QED
      BY <1>4, <2>2, <2>3 DEF Broadcast, Durable, row
  <1>5. ASSUME NEW w \in Worker, Repersist(w) PROVE Durable'
    <2>1. cont[w].attempt \in 1 .. count
      BY <1>5 DEF Repersist, Durable
    <2>2. CASE persisted[Host[w]] \in {0, cont[w].attempt}
      <3>1. \A v \in Worker : cont[v].step = "broadcast" /\ Host[v] = Host[w] =>
              persisted'[Host[w]] = cont[v].attempt
        BY <1>5, <2>1, <2>2, SMTT(90) DEF Repersist, PersistSigned, Durable, TypeOK
      <3> QED
        BY <1>5, <2>1, <2>2, <3>1, SMTT(90)
        DEF Repersist, PersistSigned, Then, row, chain, Durable, TypeOK
    <2>3. CASE persisted[Host[w]] \notin {0, cont[w].attempt}
      BY <1>5, <2>3, SMTT(90) DEF Repersist, Return, Idle, row, chain, Durable, TypeOK
    <2> QED
      BY <2>2, <2>3
  <1>6. ASSUME NEW w \in Worker, NEW a \in Attempt, LiveAttempt(a),
               NEW expected \in {"none", "W3", "W8"},
               Then(w, "persist", a, expected), UNCHANGED <<count, persisted, chain>>
        PROVE  Durable'
    <2>1. a \in 1 .. count
      BY <1>6, LiveIsLast, SMTT(90) DEF Attempt, TypeOK
    <2> QED
      BY <1>6, <2>1 DEF Then, chain, Durable, TypeOK
  <1>7. ASSUME UNCHANGED <<count, persisted, cont, sent, fate>> PROVE Durable'
    BY <1>7 DEF Durable
  <1>8. ASSUME NEW w \in Worker, RecoverSending(w) PROVE Durable'
    BY <1>6, <1>7, <1>8 DEF RecoverSending, chain
  <1>9. ASSUME NEW w \in Worker, RebroadcastUnknown(w) PROVE Durable'
    BY <1>6, <1>9 DEF RebroadcastUnknown, row
  <1>10. ASSUME NEW w \in Worker, CasBroadcast(w) PROVE Durable'
    BY <1>10 DEF CasBroadcast, Return, Idle, row, chain, Durable, TypeOK
  <1>11. ASSUME NEW w \in Worker, ReplaceRollsBack(w) PROVE Durable'
    <2>1. \A v \in Worker : cont[v].step = "broadcast" => Host[v] # Host[w]
      <3> SUFFICES ASSUME NEW v \in Worker, cont[v].step = "broadcast", Host[v] = Host[w]
                   PROVE  FALSE
        OBVIOUS
      <3>1. persisted[Host[w]] = 0
        BY <1>11 DEF ReplaceRollsBack
      <3>2. persisted[Host[v]] = cont[v].attempt /\ cont[v].attempt \in 1 .. count
        BY DEF Durable
      <3>3. 0 \notin 1 .. count
        BY DEF TypeOK
      <3> QED
        BY <3>1, <3>2, <3>3
    <2> QED
      BY <1>11, <2>1 DEF ReplaceRollsBack, row, chain, Durable, TypeOK
  <1>12. ASSUME Reconcile PROVE Durable'
    BY <1>7, <1>12
    DEF Reconcile, MarkUnknown, RecoverW3, ObserveFinalized, NonLandingUnknown,
        ProveNonLanding, Settle, Deny, chain
  <1>13. ASSUME NEW p \in Proc, Crash(p) PROVE Durable'
    BY <1>13 DEF Crash, Idle, row, chain, Durable, TypeOK
  <1>14. ASSUME NEW a \in Attempt, Include(a) PROVE Durable'
    BY <1>14 DEF Include, row, Durable, TypeOK
  <1>15. ASSUME LeaseExpires \/ AdvanceHeight \/ UNCHANGED vars PROVE Durable'
    BY <1>7, <1>15 DEF LeaseExpires, AdvanceHeight, row, chain, vars
  <1> QED
    BY <1>2, <1>3, <1>4, <1>5, <1>8, <1>9, <1>10, <1>11, <1>12, <1>13, <1>14, <1>15
    DEF Next, Send, Environment

\* No bytes reach the network before their attempt row is committed, whichever
\* process crashes and whichever transaction rolls back.
THEOREM SentIsDurableCorrect == Spec => []SentIsDurable
  <1>1. Durable => SentIsDurable
    BY DEF Durable, SentIsDurable
  <1> QED
    BY <1>1, TypeInit, TypeStep, LineageInit, LineageStep, DurableInit, DurableStep, PTL DEF Spec

-----------------------------------------------------------------------------
(* The archival proof *)

\* The two-of-three verdict is sound: with at most one faulty endpoint a
\* definitive verdict on an attempt, from observations about that attempt, means
\* that it is expired and not included.
LEMMA VerdictSound ==
  ASSUME TypeOK, NEW a \in Attempt, DefinitiveFrom(a, a)
  PROVE  fate[a] = "none" /\ height > lastValid[a]
  <1>1. PICK honest \in [Endpoint \ Faulty -> HonestObservation(a)],
             faulty \in [Faulty -> AnyObservation] :
          DefinitiveFailed(lastValid[a],
            [e \in Endpoint |-> IF e \in Faulty THEN faulty[e] ELSE honest[e]])
    BY DEF DefinitiveFrom
  <1> DEFINE obs == [e \in Endpoint |-> IF e \in Faulty THEN faulty[e] ELSE honest[e]]
             Votes == {e \in Endpoint : obs[e].height > lastValid[a]}
  <1>2. Cardinality(Votes) >= 2 /\ \A e \in Endpoint : obs[e].usable /\ ~obs[e].present
    BY <1>1 DEF DefinitiveFailed
  <1>3. PICK e \in Endpoint \ Faulty : e \in Votes
    <2>1. SUFFICES ASSUME Votes \subseteq Faulty PROVE FALSE
      OBVIOUS
    <2>2. IsFiniteSet(Faulty)
      BY EndpointAssumption, FS_Subset
    <2>3. Cardinality(Votes) <= Cardinality(Faulty) /\ Cardinality(Votes) \in Nat
      BY <2>1, <2>2, FS_Subset, FS_CardinalityType
    <2> QED
      BY <1>2, <2>2, <2>3, EndpointAssumption, FS_CardinalityType, SMTT(90)
  <1>4. obs[e] = honest[e] /\ honest[e] \in HonestObservation(a)
    BY <1>1, <1>3
  <1>5. honest[e].usable /\ ~honest[e].present /\ honest[e].height > lastValid[a]
    BY <1>2, <1>3, <1>4
  <1>6. PICK h \in ReportedHeight :
          /\ honest[e] = AbsentAt(h)
          /\ fate[a] # "none" => h <= lastValid[a]
    BY <1>4, <1>5, SMTT(90) DEF HonestObservation, Unusable, Present
  <1>7. h > lastValid[a]
    BY <1>5, <1>6, SMTT(90) DEF AbsentAt
  <1> QED
    BY <1>6, <1>7 DEF ReportedHeight, TypeOK

LEMMA VerdictsInit == Init => Verdicts
  BY DEF Init, Verdicts

LEMMA VerdictsStep ==
  ASSUME TypeOK, Lineage, Durable, Verdicts, [Next]_vars
  PROVE  Verdicts'
  <1> USE NumberAssumption
  <1>1. ASSUME NEW w \in Worker, ClaimW2(w) PROVE Verdicts'
    BY <1>1 DEF ClaimW2, InsertAttempt, chain, Verdicts, TypeOK
  <1>2. ASSUME NEW w \in Worker, ReplaceExpired(w) PROVE Verdicts'
    <2>1. PICK a \in Attempt, target \in 1 .. count :
            /\ Replaceable(a, target)
            /\ NoteEvidence(a, target)
            /\ InsertAttempt([landing EXCEPT ![a] = "definitive_failed"], a + 1)
      BY <1>2 DEF ReplaceExpired
    <2>2. crossed \subseteq crossed'
      BY <2>1 DEF NoteEvidence
    <2>3. a \notin crossed' => fate[a] = "none" /\ height > lastValid[a]
      BY <2>1, VerdictSound DEF Replaceable, NoteEvidence
    <2>4. UNCHANGED <<height, fate>>
      BY <1>2 DEF ReplaceExpired, chain
    <2> QED
      BY <2>1, <2>2, <2>3, <2>4, SMTT(90) DEF InsertAttempt, Verdicts, TypeOK, Attempt
  <1>3. ASSUME NEW a \in Attempt, NEW state \in {"broadcast", "unknown"},
               SaveAttempt(a, state), UNCHANGED <<lastValid, height, fate, crossed>>
        PROVE  Verdicts'
    BY <1>3 DEF SaveAttempt, Verdicts, TypeOK
  <1>4. ASSUME UNCHANGED <<landing, lastValid, height, fate, crossed>> PROVE Verdicts'
    BY <1>4 DEF Verdicts
  <1>5. ASSUME NEW w \in Worker, CasBroadcast(w) \/ RecoverSending(w) PROVE Verdicts'
    BY <1>3, <1>4, <1>5 DEF CasBroadcast, RecoverSending, row, chain
  <1>6. ASSUME MarkUnknown \/ RecoverW3 \/ NonLandingUnknown PROVE Verdicts'
    BY <1>3, <1>6 DEF MarkUnknown, RecoverW3, NonLandingUnknown, chain
  <1>7. ASSUME ProveNonLanding PROVE Verdicts'
    <2>1. PICK a \in Attempt, target \in 1 .. count :
            /\ DefinitiveFrom(a, target)
            /\ NoteEvidence(a, target)
            /\ SaveAttempt(a, "definitive_failed")
      BY <1>7 DEF ProveNonLanding
    <2>2. crossed \subseteq crossed'
      BY <2>1 DEF NoteEvidence
    <2>3. a \notin crossed' => fate[a] = "none" /\ height > lastValid[a]
      BY <2>1, VerdictSound DEF NoteEvidence
    <2> QED
      BY <1>7, <2>1, <2>2, <2>3 DEF ProveNonLanding, SaveAttempt, chain, Verdicts, TypeOK
  <1>8. ASSUME ObserveFinalized PROVE Verdicts'
    BY <1>8 DEF ObserveFinalized, VerifiedReceipt, SaveAttempt, chain, Verdicts, TypeOK, Attempt
  <1>9. ASSUME Settle \/ Deny \/ LeaseExpires \/ UNCHANGED vars PROVE Verdicts'
    BY <1>4, <1>9 DEF Settle, Deny, LeaseExpires, chain, vars
  <1>10. ASSUME NEW w \in Worker,
                Broadcast(w) \/ RebroadcastUnknown(w) \/ Repersist(w) \/ ReplaceRollsBack(w)
         PROVE  Verdicts'
    BY <1>4, <1>10 DEF Broadcast, RebroadcastUnknown, Repersist, ReplaceRollsBack, row, chain
  <1>11. ASSUME NEW p \in Proc, Crash(p) PROVE Verdicts'
    BY <1>4, <1>11 DEF Crash, row, chain
  <1>12. ASSUME AdvanceHeight PROVE Verdicts'
    BY <1>12, SMTT(90) DEF AdvanceHeight, row, Verdicts, TypeOK
  <1>13. ASSUME NEW a \in Attempt, Include(a) PROVE Verdicts'
    BY <1>13, SMTT(90) DEF Include, row, Verdicts, TypeOK
  <1> QED
    BY <1>1, <1>2, <1>5, <1>6, <1>7, <1>8, <1>9, <1>10, <1>11, <1>12, <1>13
    DEF Next, Send, Reconcile, Environment

\* The inductive invariant.
THEOREM InductiveInvariant == Spec => []IInv
  <1>1. Init => IInv
    BY TypeInit, LineageInit, DurableInit, VerdictsInit, HoldInit DEF IInv
  <1>2. IInv /\ [Next]_vars => IInv'
    BY TypeStep, LineageStep, DurableStep, VerdictsStep, HoldStep DEF IInv
  <1> QED
    BY <1>1, <1>2, PTL DEF Spec

-----------------------------------------------------------------------------
(* The properties *)

\* Of the attempts judged on their own evidence only the newest can have executed.
LEMMA LandedIsLast ==
  ASSUME IInv, NEW a \in Landed \ crossed
  PROVE  a = count
  BY SMTT(90) DEF IInv, TypeOK, Lineage, Durable, Verdicts, Landed, Attempt

LEMMA OnceLemma == IInv => PayAtMostOnce
  BY LandedIsLast DEF PayAtMostOnce

\* At most one transfer executes per withdrawal, attempts apart that
\* replace_expired or prove_non_landing declared failed on observations about
\* another attempt.
THEOREM PayAtMostOnceCorrect == Spec => []PayAtMostOnce
  BY OnceLemma, InductiveInvariant, PTL

LEMMA ReleasedLemma == IInv => ReleasedNeverPaid
  <1> SUFFICES ASSUME IInv, "release" \in posted, NEW a \in Landed \ crossed PROVE FALSE
    BY DEF ReleasedNeverPaid
  <1>1. a = count /\ a \in Attempt /\ fate[a] = "landed"
    BY LandedIsLast DEF Landed
  <1>2. combo \in {"W14", "W15"}
    BY DEF IInv, HoldMatchesRow
  <1> QED
    BY <1>1, <1>2, SMTT(90) DEF IInv, Lineage, Verdicts, Attempt

\* A hold that was released is never paid on the chain, except by an attempt that
\* was declared failed on observations about another one.
THEOREM ReleasedNeverPaidCorrect == Spec => []ReleasedNeverPaid
  BY ReleasedLemma, InductiveInvariant, PTL

LEMMA SettledLemma == IInv => SettledWasPaid
  <1> SUFFICES ASSUME IInv, "settle" \in posted PROVE SettledWasPaid
    BY DEF SettledWasPaid
  <1>1. combo = "W10" /\ landing[count] = "finalized"
    BY DEF IInv, HoldMatchesRow, Lineage
  <1>2. count \in Attempt
    BY <1>1, SMTT(90) DEF IInv, TypeOK, Lineage, Attempt
  <1>3. count \in Landed
    BY <1>1, <1>2 DEF IInv, Verdicts, Landed
  <1>4. \A b \in Attempt : (landing[b] = "finalized") <=> (b = count)
    BY <1>1, <1>2, SMTT(90) DEF IInv, TypeOK, Lineage, Attempt
  <1> QED
    BY <1>3, <1>4 DEF SettledWasPaid

\* A settled withdrawal was paid, by its one finalized attempt, whatever evidence
\* the commands were given.
THEOREM SettledWasPaidCorrect == Spec => []SettledWasPaid
  BY SettledLemma, InductiveInvariant, PTL

\* A replacement is inserted only after every earlier attempt is dead, attempts
\* apart that were declared failed on observations about another one.
THEOREM ReplaceOnlyTheDeadCorrect == Spec => ReplaceOnlyTheDead
  <1> DEFINE Dead == count' > count =>
                 \A a \in (1 .. count) \ crossed' : a \notin Landed /\ height > lastValid[a]
  <1>1. IInv /\ [Next]_vars => [Dead]_vars
    <2> SUFFICES ASSUME IInv, Next PROVE Dead
      BY DEF vars
    <2>1. ASSUME NEW w \in Worker, ClaimW2(w) PROVE Dead
      BY <2>1 DEF ClaimW2
    <2>2. ASSUME NEW w \in Worker, ReplaceExpired(w) PROVE Dead
      <3>1. PICK a \in Attempt, target \in 1 .. count :
              Replaceable(a, target) /\ NoteEvidence(a, target)
        BY <2>2 DEF ReplaceExpired
      <3>2. a = count
        BY <3>1, LiveIsLast DEF Replaceable, IInv
      <3>3. count \notin crossed' => fate[count] = "none" /\ height > lastValid[count]
        BY <3>1, <3>2, VerdictSound DEF Replaceable, NoteEvidence, IInv
      <3>4. \A b \in (1 .. count) \ crossed : b < count => b \notin Landed /\ height > lastValid[b]
        <4>1. 1 .. count \subseteq Attempt
          BY NumberAssumption, SMTT(90) DEF IInv, TypeOK, Attempt
        <4> QED
          BY <4>1 DEF IInv, Lineage, Verdicts, Landed
      <3>5. crossed \subseteq crossed'
        BY <3>1 DEF NoteEvidence
      <3> QED
        BY <3>3, <3>4, <3>5, SMTT(90) DEF Landed, IInv, TypeOK
    <2>3. ASSUME UNCHANGED count PROVE Dead
      BY <2>3 DEF IInv, TypeOK
    <2>4. ASSUME NEW w \in Worker, Send(w), ~ClaimW2(w), ~ReplaceExpired(w) PROVE Dead
      BY <2>3, <2>4
      DEF Send, Broadcast, CasBroadcast, RecoverSending, RebroadcastUnknown, Repersist,
          ReplaceRollsBack, row
    <2>5. ASSUME Reconcile \/ Environment PROVE Dead
      BY <2>3, <2>5
      DEF Reconcile, MarkUnknown, RecoverW3, ObserveFinalized, NonLandingUnknown,
          ProveNonLanding, Settle, Deny, Environment, LeaseExpires, Crash, AdvanceHeight,
          Include, row
    <2> QED
      BY <2>1, <2>2, <2>4, <2>5 DEF Next
  <1> QED
    BY <1>1, InductiveInvariant, PTL DEF Spec, ReplaceOnlyTheDead

-----------------------------------------------------------------------------
(* The abstract promise *)

LEMMA PayoutInit == Init => Payout!Init
  BY DEF Init, Payout!Init, Landed

\* Steps that post nothing, let nothing execute and judge nothing are invisible.
LEMMA PayoutStutter ==
  ASSUME UNCHANGED <<posted, fate, crossed>>
  PROVE  UNCHANGED Payout!vars
  BY DEF Payout!vars, Landed

LEMMA PayoutStep ==
  ASSUME IInv, IInv', [Next]_vars
  PROVE  [Payout!Next]_(Payout!vars)
  <1>a. ReleasedNeverPaid'
    BY ReleasedLemma, PTL
  <1>1. ASSUME NEW w \in Worker, Send(w), ~ReplaceExpired(w) PROVE UNCHANGED Payout!vars
    BY <1>1, PayoutStutter
    DEF Send, ClaimW2, Broadcast, CasBroadcast, RecoverSending, RebroadcastUnknown, Repersist,
        ReplaceRollsBack, ledger, chain
  <1>2. ASSUME MarkUnknown \/ RecoverW3 \/ ObserveFinalized \/ NonLandingUnknown
        PROVE  UNCHANGED Payout!vars
    BY <1>2, PayoutStutter
    DEF MarkUnknown, RecoverW3, ObserveFinalized, NonLandingUnknown, ledger, chain
  <1>7. ASSUME NEW w \in Worker, ReplaceExpired(w) PROVE [Payout!Next]_(Payout!vars)
    <2>1. UNCHANGED <<posted, fate>> /\ combo = "W7"
      BY <1>7 DEF ReplaceExpired, Replaceable, ledger, chain
    <2>2. "release" \notin posted /\ "settle" \notin posted
      BY <2>1 DEF IInv, HoldMatchesRow
    <2>3. CASE crossed' = crossed
      BY <2>1, <2>3, PayoutStutter
    <2>4. CASE crossed' # crossed
      <3>1. crossed' # {}
        BY <1>7, <2>4 DEF ReplaceExpired, NoteEvidence
      <3>2. Landed' = Landed
        BY <2>1 DEF Landed
      <3> QED
        BY <2>1, <2>2, <3>1, <3>2 DEF Payout!Next, Payout!Misjudge
    <2> QED
      BY <2>3, <2>4
  <1>3. ASSUME ProveNonLanding \/ Deny PROVE Payout!Release
    <2>1. "release" \notin posted /\ posted' = posted \cup {"release"} /\ fate' = fate
      BY <1>3 DEF ProveNonLanding, Deny, ApplyRelease, TwoLeg, chain
    <2>2. "settle" \notin posted
      BY <1>3 DEF ProveNonLanding, Deny, IInv, HoldMatchesRow
    <2>3. Landed' \subseteq crossed' /\ Landed' = Landed
      BY <1>a, <2>1 DEF ReleasedNeverPaid, Landed
    <2>4. crossed \subseteq crossed'
      BY <1>3 DEF ProveNonLanding, Deny, NoteEvidence
    <2>5. (crossed' # {}) \in {crossed # {}, TRUE}
      BY <2>4
    <2>6. ~(Landed # {}) \/ crossed' # {}
      BY <2>3
    <2> QED
      BY <2>1, <2>2, <2>3, <2>5, <2>6 DEF Payout!Release
  <1>4. ASSUME Settle PROVE Payout!Settle
    <2>1. /\ "settle" \notin posted /\ posted' = posted \cup {"settle"}
          /\ fate' = fate /\ crossed' = crossed
      BY <1>4 DEF Settle, ApplySettle, TwoLeg, chain
    <2>2. "release" \notin posted
      BY <1>4 DEF Settle, IInv, HoldMatchesRow
    <2>3. Landed # {} /\ Landed' = Landed
      <3>1. PICK a \in 1 .. count : fate[a] = "landed"
        BY <1>4 DEF Settle, VerifiedReceipt
      <3>2. a \in Attempt
        BY <3>1, NumberAssumption, SMTT(90) DEF IInv, TypeOK, Attempt
      <3> QED
        BY <2>1, <3>1, <3>2 DEF Landed
    <2> QED
      BY <2>1, <2>2, <2>3 DEF Payout!Settle
  <1>5. ASSUME NEW a \in Attempt, Include(a) PROVE [Payout!Next]_(Payout!vars)
    <2>1. UNCHANGED <<posted, crossed>> /\ Landed \subseteq Landed'
      BY <1>5 DEF Include, ledger, Landed, IInv, TypeOK
    <2>2. CASE (Landed' # {}) = (Landed # {})
      BY <2>1, <2>2 DEF Payout!vars
    <2>3. CASE Landed = {} /\ Landed' # {}
      <3>1. "release" \in posted => crossed # {}
        BY <1>a, <2>1, <2>3 DEF ReleasedNeverPaid
      <3>2. "settle" \notin posted
        BY <2>3, SettledLemma DEF SettledWasPaid
      <3> QED
        BY <2>1, <2>3, <3>1, <3>2 DEF Payout!Next, Payout!Pay
    <2> QED
      BY <2>1, <2>2, <2>3
  <1>6. ASSUME LeaseExpires \/ AdvanceHeight \/ (\E p \in Proc : Crash(p)) \/ UNCHANGED vars
        PROVE  UNCHANGED Payout!vars
    BY <1>6, PayoutStutter DEF LeaseExpires, AdvanceHeight, Crash, ledger, chain, vars
  <1> QED
    BY <1>1, <1>2, <1>3, <1>4, <1>5, <1>6, <1>7 DEF Next, Reconcile, Environment, Payout!Next

\* The rail implements PayoutOnce: held money is paid and settled, or released and
\* not paid unless an attempt was declared failed on observations about another.
THEOREM RailPaysOnce == Spec => PaysOnce
  BY PayoutInit, PayoutStep, InductiveInvariant, PTL DEF Spec, PaysOnce, Payout!Spec

=============================================================================
