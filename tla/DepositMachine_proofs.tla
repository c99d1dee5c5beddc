------------------------ MODULE DepositMachine_proofs ------------------------
(***************************************************************************)
(* Proofs about the deposit machine, for any number of deposits, callers,  *)
(* watchers and users.  What is proved is about the row, the proposals and *)
(* the posted ledger keys; the sums of the books are only model-checked.   *)
(***************************************************************************)
EXTENDS DepositMachine, TLAPS

CallerRow == [pc : {"idle", "observe", "admit", "admitting", "confirming"}, deposit : 0 .. N,
              seen : Status, reevaluate : {"yes", "no"}, kind : Kind \cup {"none"}, limit : 0 .. N]

Shape ==
    /\ finalized \in 0 .. N
    /\ status \in [Deposit -> Status]
    /\ posted \in [Deposit -> SUBSET {"observe", "admit", "refund"}]
    /\ caller \in [Caller -> CallerRow]
    /\ DOMAIN proposal = Deposit \X Kind
    /\ \A p \in Deposit \X Kind : DOMAIN proposal[p] = {"state", "until"}

\* A caller at work is at a deposit, and a confirmation knows its kind.
CallersAt ==
    \A c \in Caller :
        /\ caller[c].pc # "idle" => caller[c].deposit \in Deposit
        /\ caller[c].pc = "confirming" => caller[c].kind \in Kind

DepositInv == Shape /\ CallersAt /\ PostedMatches /\ ConfirmedDecides

-----------------------------------------------------------------------------
LEMMA Sizes == N \in Nat /\ Deposit \subseteq 0 .. N /\ Deposit \subseteq Nat \ {0}
  BY DepositAssumption DEF Deposit

LEMMA IdleRow == Idle \in CallerRow /\ Idle.pc = "idle"
  BY Sizes DEF Idle, CallerRow, Status

\* Where a caller goes next is a place a caller can be.
LEMMA NextStopRow ==
  ASSUME DepositInv, NEW c \in Caller, caller[c].pc # "idle"
  PROVE  /\ NextStop(c) \in CallerRow
         /\ NextStop(c).pc \in {"idle", "observe"}
         /\ NextStop(c).pc = "observe" => NextStop(c).deposit \in Deposit
  <1>1. caller[c] \in CallerRow
    BY DEF DepositInv, Shape
  <1>2. CASE c \in Watcher /\ caller[c].deposit < caller[c].limit
    <2>1. caller[c].deposit \in Nat /\ caller[c].limit \in 0 .. N /\ caller[c].deposit + 1 \in 1 .. N
      BY <1>1, <1>2, Sizes DEF CallerRow
    <2>2. NextStop(c) = [caller[c] EXCEPT !.pc = "observe", !.deposit = caller[c].deposit + 1]
      BY <1>2 DEF NextStop
    <2> QED
      BY <1>1, <2>1, <2>2, Sizes DEF CallerRow, Deposit
  <1>3. CASE ~(c \in Watcher /\ caller[c].deposit < caller[c].limit)
    <2>1. NextStop(c) = [Idle EXCEPT !.limit = caller[c].limit] /\ caller[c].limit \in 0 .. N
      BY <1>1, <1>3 DEF NextStop, CallerRow
    <2> QED
      BY <2>1, IdleRow DEF CallerRow, Idle
  <1> QED
    BY <1>2, <1>3

\* A caller moves and nothing else of the machine does.
LEMMA CallerMoves ==
  ASSUME DepositInv, NEW c \in Caller, NEW x \in CallerRow, caller' = [caller EXCEPT ![c] = x],
         x.pc # "idle" => x.deposit \in Deposit, x.pc = "confirming" => x.kind \in Kind
  PROVE  CallersAt' /\ caller' \in [Caller -> CallerRow]
  BY DEF DepositInv, Shape, CallersAt

\* The row, the keys and the proposals stay.
LEMMA RowsStay ==
  ASSUME DepositInv, UNCHANGED <<status, posted, proposal>>, finalized' \in 0 .. N,
         CallersAt', caller' \in [Caller -> CallerRow]
  PROVE  DepositInv'
  BY DEF DepositInv, Shape, PostedMatches, ConfirmedDecides

\* One row takes a step of the machine, its key is posted with it.
LEMMA RowMoves ==
  ASSUME DepositInv, NEW d \in Deposit, NEW to \in Status, status' = [status EXCEPT ![d] = to],
         NEW K \in SUBSET {"observe", "admit", "refund"}, posted' = [posted EXCEPT ![d] = posted[d] \cup K],
         status[d] \notin {"admitted", "refunded"}, to # "none",
         status[d] = "none" <=> "observe" \in K,
         to = "admitted" <=> "admit" \in K, to = "refunded" <=> "refund" \in K
  PROVE  PostedMatches' /\ status' \in [Deposit -> Status]
         /\ posted' \in [Deposit -> SUBSET {"observe", "admit", "refund"}]
  <1>1. /\ status'[d] = to /\ posted'[d] = posted[d] \cup K
        /\ \A e \in Deposit \ {d} : status'[e] = status[e] /\ posted'[e] = posted[e]
    BY DEF DepositInv, Shape
  <1>2. ("observe" \in posted[d]) <=> (status[d] # "none")
    BY DEF DepositInv, PostedMatches
  <1>3. "admit" \notin posted[d] /\ "refund" \notin posted[d]
    BY DEF DepositInv, PostedMatches
  <1>4. PostedMatches'
    BY <1>1, <1>2, <1>3 DEF DepositInv, PostedMatches
  <1> QED
    BY <1>4 DEF DepositInv, Shape

\* Proposals stay while a row that no confirmation decided moves, or one moves on
\* its way to the refund.
LEMMA DecidedStays ==
  ASSUME DepositInv, NEW d \in Deposit, NEW to \in Status, status' = [status EXCEPT ![d] = to],
         UNCHANGED proposal,
         \/ status[d] \in {"none", "observed_finalized", "compliance_hold"}
         \/ /\ status[d] \in {"refund_approved", "refund_sending"}
            /\ to \in {"refund_sending", "refunded"}
  PROVE  ConfirmedDecides'
  <1>1. status'[d] = to /\ \A e \in Deposit \ {d} : status'[e] = status[e]
    BY DEF DepositInv, Shape
  <1> QED
    BY <1>1 DEF DepositInv, ConfirmedDecides

-----------------------------------------------------------------------------
LEMMA InitHolds == Init => DepositInv
  <1> SUFFICES ASSUME Init PROVE DepositInv
    OBVIOUS
  <1>1. Shape
    BY Sizes, IdleRow DEF Init, Shape, Status, NoProposal
  <1>2. CallersAt
    BY IdleRow DEF Init, CallersAt
  <1>3. PostedMatches
    BY DEF Init, PostedMatches
  <1>4. ConfirmedDecides
    BY DEF Init, ConfirmedDecides, NoProposal, Kind
  <1> QED
    BY <1>1, <1>2, <1>3, <1>4 DEF DepositInv

LEMMA TickHolds ==
  ASSUME DepositInv, NEW c \in Caller, Tick(c) PROVE DepositInv'
  <1>1. finalized \in 0 .. N /\ 1 \in Deposit /\ 1 \in 0 .. N
    BY Sizes DEF DepositInv, Shape, Tick, Deposit
  <1>2. PICK x : x = [Idle EXCEPT !.pc = "observe", !.deposit = 1, !.limit = finalized]
    OBVIOUS
  <1>3. x \in CallerRow /\ x.pc = "observe" /\ x.deposit = 1
    BY <1>1, <1>2, IdleRow DEF CallerRow, Idle
  <1>4. caller' = [caller EXCEPT ![c] = x]
    BY <1>2 DEF Tick, FirstTransfer
  <1>5. CallersAt' /\ caller' \in [Caller -> CallerRow]
    BY <1>1, <1>3, <1>4, CallerMoves
  <1> QED
    BY <1>1, <1>5, RowsStay DEF Tick, money, DepositInv, Shape

LEMMA ObserveStepHolds ==
  ASSUME DepositInv, NEW c \in Caller, ObserveStep(c) PROVE DepositInv'
  <1>1. PICK d \in Deposit : d = caller[c].deposit
    BY DEF DepositInv, CallersAt, ObserveStep
  <1>2. PICK x : x = [caller[c] EXCEPT !.pc = "admit"]
    OBVIOUS
  <1>3. caller[c] \in CallerRow
    BY DEF DepositInv, Shape
  <1>4. x \in CallerRow /\ x.pc = "admit" /\ x.deposit = d
    BY <1>1, <1>2, <1>3 DEF CallerRow
  <1>5. caller' = [caller EXCEPT ![c] = x]
    BY <1>2 DEF ObserveStep
  <1>6. CallersAt' /\ caller' \in [Caller -> CallerRow]
    BY <1>4, <1>5, CallerMoves
  <1>7. UNCHANGED <<proposal, finalized>> /\ finalized \in 0 .. N
    BY DEF ObserveStep, DepositInv, Shape
  <1>8. CASE status[d] # "none"
    BY <1>1, <1>6, <1>7, <1>8, RowsStay DEF ObserveStep, Observe, money
  <1>9. CASE status[d] = "none"
    <2>1. /\ status' = [status EXCEPT ![d] = "observed_finalized"]
          /\ posted' = [posted EXCEPT ![d] = posted[d] \cup {"observe"}]
      BY <1>1, <1>9 DEF ObserveStep, Observe, MoveSuspense
    <2>2. /\ PostedMatches' /\ status' \in [Deposit -> Status]
          /\ posted' \in [Deposit -> SUBSET {"observe", "admit", "refund"}]
      <3>1. PICK K \in SUBSET {"observe", "admit", "refund"} : K = {"observe"}
        OBVIOUS
      <3> QED
        BY <1>9, <2>1, <3>1, RowMoves DEF Status
    <2>3. ConfirmedDecides'
      BY <1>7, <1>9, <2>1, DecidedStays DEF Status
    <2> QED
      BY <1>6, <1>7, <2>2, <2>3 DEF DepositInv, Shape
  <1> QED
    BY <1>8, <1>9

LEMMA ReevaluateHolds ==
  ASSUME DepositInv, NEW c \in Caller, NEW d \in Deposit, Reevaluate(c, d) PROVE DepositInv'
  <1>1. PICK x : x = [Idle EXCEPT !.pc = "admit", !.deposit = d, !.reevaluate = "yes"]
    OBVIOUS
  <1>2. x \in CallerRow /\ x.pc = "admit" /\ x.deposit = d
    BY <1>1, IdleRow, Sizes DEF CallerRow, Idle
  <1>3. caller' = [caller EXCEPT ![c] = x]
    BY <1>1 DEF Reevaluate
  <1>4. CallersAt' /\ caller' \in [Caller -> CallerRow]
    BY <1>2, <1>3, CallerMoves
  <1> QED
    BY <1>4, RowsStay DEF Reevaluate, money, DepositInv, Shape

LEMMA AdmitReadHolds ==
  ASSUME DepositInv, NEW c \in Caller, AdmitRead(c) PROVE DepositInv'
  <1>1. caller[c].pc = "admit" /\ caller[c] \in CallerRow /\ caller[c].deposit \in Deposit
    BY DEF AdmitRead, DepositInv, Shape, CallersAt
  <1>2. PICK seen \in Status : seen = status[caller[c].deposit]
    BY <1>1 DEF DepositInv, Shape
  <1>3. PICK x : x = [caller[c] EXCEPT !.pc = "admitting", !.seen = seen]
    OBVIOUS
  <1>4. x \in CallerRow /\ x.pc = "admitting" /\ x.deposit \in Deposit
    BY <1>1, <1>2, <1>3 DEF CallerRow
  <1>5. \/ caller' = [caller EXCEPT ![c] = x]
        \/ caller' = [caller EXCEPT ![c] = NextStop(c)]
        \/ caller' = [caller EXCEPT ![c] = Idle]
    BY <1>2, <1>3 DEF AdmitRead
  <1>6. CallersAt' /\ caller' \in [Caller -> CallerRow]
    <2>1. CASE caller' = [caller EXCEPT ![c] = x]
      BY <1>4, <2>1, CallerMoves
    <2>2. CASE caller' = [caller EXCEPT ![c] = NextStop(c)]
      <3>1. /\ NextStop(c) \in CallerRow /\ NextStop(c).pc # "confirming"
            /\ NextStop(c).pc # "idle" => NextStop(c).deposit \in Deposit
        BY <1>1, NextStopRow
      <3> QED
        BY <2>2, <3>1, CallerMoves
    <2>3. CASE caller' = [caller EXCEPT ![c] = Idle]
      BY <2>3, IdleRow, CallerMoves
    <2> QED
      BY <1>5, <2>1, <2>2, <2>3
  <1> QED
    BY <1>6, RowsStay DEF AdmitRead, money, DepositInv, Shape

LEMMA AdmitCommitHolds ==
  ASSUME DepositInv, NEW c \in Caller, NEW rules \in BOOLEAN, AdmitCommit(c, rules) PROVE DepositInv'
  <1>1. caller[c].pc = "admitting" /\ caller[c] \in CallerRow
    BY DEF AdmitCommit, DepositInv, Shape
  <1>2. PICK d \in Deposit : d = caller[c].deposit
    BY <1>1 DEF DepositInv, CallersAt
  <1>3. UNCHANGED <<proposal, finalized>> /\ finalized \in 0 .. N
    BY DEF AdmitCommit, DepositInv, Shape
  <1>4. CallersAt' /\ caller' \in [Caller -> CallerRow]
    <2>1. CASE caller' = [caller EXCEPT ![c] = NextStop(c)]
      <3>1. /\ NextStop(c) \in CallerRow /\ NextStop(c).pc # "confirming"
            /\ NextStop(c).pc # "idle" => NextStop(c).deposit \in Deposit
        BY <1>1, NextStopRow
      <3> QED
        BY <2>1, <3>1, CallerMoves
    <2>2. CASE caller' = [caller EXCEPT ![c] = Idle]
      BY <2>2, IdleRow, CallerMoves
    <2> QED
      BY <2>1, <2>2 DEF AdmitCommit
  <1>5. CASE UNCHANGED <<status, posted>>
    BY <1>3, <1>4, <1>5, RowsStay
  <1>6. CASE CasDepositStatus(d, caller[c].seen, "compliance_hold") /\ UNCHANGED posted
    <2>1. /\ status[d] \in {"observed_finalized", "compliance_hold"}
          /\ status' = [status EXCEPT ![d] = "compliance_hold"]
      BY <1>6 DEF CasDepositStatus, CasMatches, LegalDepositTransition
    <2>2. PICK K \in SUBSET {"observe", "admit", "refund"} : K = {}
      OBVIOUS
    <2>3. /\ PostedMatches' /\ status' \in [Deposit -> Status]
          /\ posted' \in [Deposit -> SUBSET {"observe", "admit", "refund"}]
      <3>1. posted' = [posted EXCEPT ![d] = posted[d] \cup K]
        BY <1>6, <2>2 DEF DepositInv, Shape
      <3> QED
        BY <2>1, <2>2, <3>1, RowMoves DEF Status
    <2>4. ConfirmedDecides'
      BY <1>3, <2>1, DecidedStays DEF Status
    <2> QED
      BY <1>3, <1>4, <2>3, <2>4 DEF DepositInv, Shape
  <1>7. CASE CasDepositStatus(d, caller[c].seen, "admitted") /\ Credit(d, UserOf[d])
    <2>1. /\ status[d] \in {"observed_finalized", "compliance_hold"}
          /\ status' = [status EXCEPT ![d] = "admitted"]
          /\ posted' = [posted EXCEPT ![d] = posted[d] \cup {"admit"}]
      BY <1>7 DEF CasDepositStatus, CasMatches, LegalDepositTransition, Credit
    <2>2. /\ PostedMatches' /\ status' \in [Deposit -> Status]
          /\ posted' \in [Deposit -> SUBSET {"observe", "admit", "refund"}]
      <3>1. PICK K \in SUBSET {"observe", "admit", "refund"} : K = {"admit"}
        OBVIOUS
      <3> QED
        BY <2>1, <3>1, RowMoves, ZenonT(90) DEF Status
    <2>3. ConfirmedDecides'
      BY <1>3, <2>1, DecidedStays DEF Status
    <2> QED
      BY <1>3, <1>4, <2>2, <2>3 DEF DepositInv, Shape
  <1> QED
    BY <1>2, <1>5, <1>6, <1>7 DEF AdmitCommit, HoldAdmission, CollectOnly, money

LEMMA ProposeHolds ==
  ASSUME DepositInv, NEW d \in Deposit, NEW k \in Kind, Propose(d, k) PROVE DepositInv'
  <1>1. PICK row : row = [state |-> "pending", until |-> time + Window]
    OBVIOUS
  <1>2. proposal' = [proposal EXCEPT ![<<d, k>>] = row] /\ DOMAIN row = {"state", "until"}
        /\ row.state = "pending"
    BY <1>1 DEF Propose
  <1>3. UNCHANGED <<finalized, status, posted, caller>>
    BY DEF Propose, money
  <1>4. Shape'
    BY <1>2, <1>3 DEF DepositInv, Shape
  <1>5. ConfirmedDecides'
    <2> SUFFICES ASSUME NEW e \in Deposit, NEW j \in Kind, proposal'[<<e, j>>].state = "confirmed"
                 PROVE  proposal[<<e, j>>].state = "confirmed"
      BY <1>3 DEF DepositInv, ConfirmedDecides, Kind
    <2> QED
      BY <1>2 DEF DepositInv, Shape
  <1> QED
    BY <1>3, <1>4, <1>5 DEF DepositInv, CallersAt, PostedMatches

LEMMA ConfirmReadHolds ==
  ASSUME DepositInv, NEW c \in Caller, NEW d \in Deposit, NEW k \in Kind, ConfirmRead(c, d, k)
  PROVE  DepositInv'
  <1>1. PICK x : x = [Idle EXCEPT !.pc = "confirming", !.deposit = d, !.kind = k]
    OBVIOUS
  <1>2. x \in CallerRow /\ x.pc = "confirming" /\ x.deposit = d /\ x.kind = k
    BY <1>1, IdleRow, Sizes DEF CallerRow, Idle
  <1>3. caller' = [caller EXCEPT ![c] = x]
    BY <1>1 DEF ConfirmRead
  <1>4. CallersAt' /\ caller' \in [Caller -> CallerRow]
    BY <1>2, <1>3, CallerMoves
  <1> QED
    BY <1>4, RowsStay DEF ConfirmRead, money, DepositInv, Shape

\* The confirmation of one proposal and the step it stands for.
LEMMA ConfirmedTogether ==
  ASSUME DepositInv, NEW d \in Deposit, NEW k \in Kind, NEW to \in Status,
         status[d] = "compliance_hold", status' = [status EXCEPT ![d] = to],
         proposal' = [proposal EXCEPT ![<<d, k>>].state = "confirmed"],
         k = "admit" => to = "admitted", k = "refund" => to = "refund_approved"
  PROVE  /\ ConfirmedDecides'
         /\ DOMAIN proposal' = Deposit \X Kind
         /\ \A p \in Deposit \X Kind : DOMAIN proposal'[p] = {"state", "until"}
  <1>1. /\ status'[d] = to
        /\ \A e \in Deposit \ {d} : status'[e] = status[e]
    BY DEF DepositInv, Shape
  <1>2. \A p \in Deposit \X Kind : p # <<d, k>> => proposal'[p] = proposal[p]
    BY DEF DepositInv, Shape
  <1>3. \A j \in Kind : proposal[<<d, j>>].state # "confirmed"
    BY DEF DepositInv, ConfirmedDecides, Kind
  <1>4. ConfirmedDecides'
    <2> SUFFICES ASSUME NEW e \in Deposit
                 PROVE  /\ proposal'[<<e, "admit">>].state = "confirmed" => status'[e] = "admitted"
                        /\ proposal'[<<e, "refund">>].state = "confirmed" =>
                               status'[e] \in {"refund_approved", "refund_sending", "refunded"}
      BY DEF ConfirmedDecides
    <2>1. CASE e = d
      BY <1>1, <1>2, <1>3, <2>1 DEF Kind
    <2>2. CASE e # d
      BY <1>1, <1>2, <2>2 DEF Kind, DepositInv, ConfirmedDecides
    <2> QED
      BY <2>1, <2>2
  <1> QED
    BY <1>4 DEF DepositInv, Shape

LEMMA ConfirmCommitHolds ==
  ASSUME DepositInv, NEW c \in Caller, ConfirmCommit(c) PROVE DepositInv'
  <1>1. caller[c].pc = "confirming"
    BY DEF ConfirmCommit
  <1>2. PICK d \in Deposit, k \in Kind : d = caller[c].deposit /\ k = caller[c].kind
    BY <1>1 DEF DepositInv, CallersAt
  <1>3. CallersAt' /\ caller' \in [Caller -> CallerRow]
    <2>1. caller' = [caller EXCEPT ![c] = Idle]
      BY DEF ConfirmCommit
    <2> QED
      BY <2>1, IdleRow, CallerMoves
  <1>4. UNCHANGED finalized /\ finalized \in 0 .. N
    BY DEF ConfirmCommit, DepositInv, Shape
  <1>5. CASE RollBack(d, k)
    BY <1>3, <1>4, <1>5, RowsStay DEF RollBack, money
  <1>6. CASE /\ k = "admit"
             /\ CasDepositStatus(d, "compliance_hold", "admitted")
             /\ Credit(d, UserOf[d])
             /\ proposal' = [proposal EXCEPT ![<<d, k>>].state = "confirmed"]
    <2>1. /\ status[d] = "compliance_hold" /\ status' = [status EXCEPT ![d] = "admitted"]
          /\ posted' = [posted EXCEPT ![d] = posted[d] \cup {"admit"}]
      BY <1>6 DEF CasDepositStatus, CasMatches, Credit
    <2>2. /\ PostedMatches' /\ status' \in [Deposit -> Status]
          /\ posted' \in [Deposit -> SUBSET {"observe", "admit", "refund"}]
      <3>1. PICK K \in SUBSET {"observe", "admit", "refund"} : K = {"admit"}
        OBVIOUS
      <3> QED
        BY <2>1, <3>1, RowMoves, ZenonT(90) DEF Status
    <2>3. /\ ConfirmedDecides' /\ DOMAIN proposal' = Deposit \X Kind
          /\ \A p \in Deposit \X Kind : DOMAIN proposal'[p] = {"state", "until"}
      BY <1>6, <2>1, ConfirmedTogether DEF Status
    <2> QED
      BY <1>3, <1>4, <2>2, <2>3 DEF DepositInv, Shape
  <1>7. CASE /\ k = "refund"
             /\ CasDepositStatus(d, "compliance_hold", "refund_approved")
             /\ UNCHANGED posted
             /\ proposal' = [proposal EXCEPT ![<<d, k>>].state = "confirmed"]
    <2>1. status[d] = "compliance_hold" /\ status' = [status EXCEPT ![d] = "refund_approved"]
      BY <1>7 DEF CasDepositStatus, CasMatches
    <2>2. /\ PostedMatches' /\ status' \in [Deposit -> Status]
          /\ posted' \in [Deposit -> SUBSET {"observe", "admit", "refund"}]
      <3>1. PICK K \in SUBSET {"observe", "admit", "refund"} : K = {}
        OBVIOUS
      <3>2. posted' = [posted EXCEPT ![d] = posted[d] \cup K]
        BY <1>7, <3>1 DEF DepositInv, Shape
      <3> QED
        BY <2>1, <3>1, <3>2, RowMoves DEF Status
    <2>3. /\ ConfirmedDecides' /\ DOMAIN proposal' = Deposit \X Kind
          /\ \A p \in Deposit \X Kind : DOMAIN proposal'[p] = {"state", "until"}
      BY <1>7, <2>1, ConfirmedTogether DEF Status
    <2> QED
      BY <1>3, <1>4, <2>2, <2>3 DEF DepositInv, Shape
  <1> QED
    BY <1>2, <1>5, <1>6, <1>7 DEF ConfirmCommit, CollectOnly, money

LEMMA RefundSendsHolds ==
  ASSUME DepositInv, NEW d \in Deposit, RefundSends(d) PROVE DepositInv'
  <1>1. /\ status[d] = "refund_approved" /\ status' = [status EXCEPT ![d] = "refund_sending"]
        /\ UNCHANGED <<finalized, posted, proposal, caller>>
    BY DEF RefundSends, CasDepositStatus, CasMatches, money
  <1>2. ConfirmedDecides'
    BY <1>1, DecidedStays DEF Status
  <1>3. status'[d] = "refund_sending" /\ \A e \in Deposit \ {d} : status'[e] = status[e]
    BY <1>1 DEF DepositInv, Shape
  <1>4. PostedMatches'
    BY <1>1, <1>3, SMTT(90) DEF DepositInv, PostedMatches
  <1> QED
    BY <1>1, <1>2, <1>4 DEF DepositInv, Shape, CallersAt, Status

LEMMA RefundSettlesHolds ==
  ASSUME DepositInv, NEW d \in Deposit, RefundSettles(d) PROVE DepositInv'
  <1>1. /\ status[d] = "refund_sending" /\ status' = [status EXCEPT ![d] = "refunded"]
        /\ posted' = [posted EXCEPT ![d] = posted[d] \cup {"refund"}]
        /\ UNCHANGED <<finalized, proposal, caller>>
    BY DEF RefundSettles, CasDepositStatus, CasMatches, MoveSuspense
  <1>2. ConfirmedDecides'
    BY <1>1, DecidedStays DEF Status
  <1>3. PICK K \in SUBSET {"observe", "admit", "refund"} : K = {"refund"}
    OBVIOUS
  <1>4. /\ PostedMatches' /\ status' \in [Deposit -> Status]
        /\ posted' \in [Deposit -> SUBSET {"observe", "admit", "refund"}]
    BY <1>1, <1>3, RowMoves DEF Status
  <1> QED
    BY <1>1, <1>2, <1>4 DEF DepositInv, Shape, CallersAt

LEMMA FailsHolds ==
  ASSUME DepositInv, NEW c \in Caller, Fails(c) PROVE DepositInv'
  <1>1. CallersAt' /\ caller' \in [Caller -> CallerRow]
    <2>1. caller' = [caller EXCEPT ![c] = Idle]
      BY DEF Fails
    <2> QED
      BY <2>1, IdleRow, CallerMoves
  <1> QED
    BY <1>1, RowsStay DEF Fails, money, DepositInv, Shape

\* Steps that touch neither a row nor a caller.
LEMMA AroundHolds ==
  ASSUME DepositInv, UNCHANGED <<status, posted, proposal, caller>>, finalized' \in 0 .. N
  PROVE  DepositInv'
  BY RowsStay DEF DepositInv, Shape, CallersAt

LEMMA NextHolds == DepositInv /\ [Next]_vars => DepositInv'
  <1> SUFFICES ASSUME DepositInv, [Next]_vars PROVE DepositInv'
    OBVIOUS
  <1>1. ASSUME NEW c \in Caller, Tick(c) PROVE DepositInv'
    BY <1>1, TickHolds
  <1>2. ASSUME NEW c \in Caller, Proceed(c) PROVE DepositInv'
    BY <1>2, ObserveStepHolds, AdmitReadHolds, AdmitCommitHolds, ConfirmCommitHolds DEF Proceed
  <1>3. ASSUME NEW c \in Caller, Fails(c) PROVE DepositInv'
    BY <1>3, FailsHolds
  <1>4. ASSUME NEW c \in Caller, NEW d \in Deposit, Reevaluate(c, d) PROVE DepositInv'
    BY <1>4, ReevaluateHolds
  <1>5. ASSUME NEW d \in Deposit, NEW k \in Kind, Propose(d, k) PROVE DepositInv'
    BY <1>5, ProposeHolds
  <1>6. ASSUME NEW c \in Caller, NEW d \in Deposit, NEW k \in Kind, ConfirmRead(c, d, k)
        PROVE  DepositInv'
    BY <1>6, ConfirmReadHolds
  <1>7. ASSUME NEW d \in Deposit, RefundSends(d) \/ RefundSettles(d) PROVE DepositInv'
    BY <1>7, RefundSendsHolds, RefundSettlesHolds
  <1>8. finalized \in 0 .. N
    BY DEF DepositInv, Shape
  <1>9. CASE Finalize
    <2>1. finalized' \in 0 .. N
      BY <1>8, <1>9, Sizes DEF Finalize
    <2>2. UNCHANGED <<status, posted, proposal, caller>>
      BY <1>9 DEF Finalize, money
    <2> QED
      BY <2>1, <2>2, AroundHolds
  <1>10. ASSUME NEW u \in User, ChangeFact(u) PROVE DepositInv'
    <2>1. UNCHANGED <<finalized, status, posted, proposal, caller>>
      BY <1>10 DEF ChangeFact, money
    <2> QED
      BY <1>8, <2>1, AroundHolds
  <1>11. CASE Clock \/ UNCHANGED vars
    <2>1. UNCHANGED <<finalized, status, posted, proposal, caller>>
      BY <1>11 DEF Clock, vars, money
    <2> QED
      BY <1>8, <2>1, AroundHolds
  <1> QED
    BY <1>1, <1>2, <1>3, <1>4, <1>5, <1>6, <1>7, <1>9, <1>10, <1>11 DEF Next

-----------------------------------------------------------------------------
(* The sweep *)

Decided(d) == status[d] \notin {"none", "observed_finalized"}

\* Nothing the commands do makes a decided deposit undecided.
LEMMA DecidedStaysDecided ==
  ASSUME DepositInv, [Next]_vars, NEW d \in Deposit, Decided(d)
  PROVE  Decided(d)'
  <1>1. ASSUME NEW e \in Deposit, NEW from, NEW to, CasDepositStatus(e, from, to) PROVE Decided(d)'
    BY <1>1 DEF CasDepositStatus, LegalDepositTransition, Decided, DepositInv, Shape
  <1>2. ASSUME UNCHANGED status PROVE Decided(d)'
    BY <1>2 DEF Decided
  <1>3. ASSUME NEW c \in Caller, ObserveStep(c) PROVE Decided(d)'
    BY <1>3 DEF ObserveStep, Observe, Decided, DepositInv, Shape
  <1>4. ASSUME NEW c \in Caller, NEW rules \in BOOLEAN, AdmitCommit(c, rules) PROVE Decided(d)'
    <2>1. caller[c].deposit \in Deposit
      BY <1>4 DEF AdmitCommit, DepositInv, CallersAt
    <2> QED
      BY <1>1, <1>2, <1>4, <2>1 DEF AdmitCommit, HoldAdmission
  <1>5. ASSUME NEW c \in Caller, ConfirmCommit(c) PROVE Decided(d)'
    <2>1. caller[c].deposit \in Deposit
      BY <1>5 DEF ConfirmCommit, DepositInv, CallersAt
    <2> QED
      BY <1>1, <1>2, <1>5, <2>1 DEF ConfirmCommit, RollBack
  <1>6. ASSUME NEW c \in Caller, Proceed(c) PROVE Decided(d)'
    BY <1>2, <1>3, <1>4, <1>5, <1>6 DEF Proceed, AdmitRead
  <1>7. ASSUME NEW e \in Deposit, RefundSends(e) \/ RefundSettles(e) PROVE Decided(d)'
    BY <1>1, <1>7 DEF RefundSends, RefundSettles
  <1> QED
    BY <1>2, <1>6, <1>7 DEF Next, Tick, Fails, Reevaluate, Propose, ConfirmRead, ChangeFact,
       Finalize, Clock, vars

\* One caller moves to a place with nothing undecided behind it.
LEMMA SweepMoves ==
  ASSUME DepositInv, SweptIsDecided, [Next]_vars, NEW c \in Caller, NEW x,
         caller' = [caller EXCEPT ![c] = x],
         c \in Watcher => \A d \in Deposit : d <= Swept(x) => Decided(d)'
  PROVE  SweptIsDecided'
  <1> SUFFICES ASSUME NEW v \in Watcher, NEW d \in Deposit, d <= Swept(caller'[v])
               PROVE  Decided(d)'
    BY DEF SweptIsDecided, Decided, Swept
  <1>1. v \in Caller
    BY DepositAssumption
  <1>2. CASE v = c
    BY <1>1, <1>2 DEF DepositInv, Shape
  <1>3. CASE v # c
    <2>1. caller'[v] = caller[v]
      BY <1>1, <1>3 DEF DepositInv, Shape
    <2>2. Decided(d)
      BY <2>1 DEF SweptIsDecided, Decided
    <2> QED
      BY <2>2, DecidedStaysDecided
  <1> QED
    BY <1>2, <1>3

\* A watcher that goes on to its next stop has decided the deposit it leaves.
LEMMA SweepNext ==
  ASSUME DepositInv, SweptIsDecided, [Next]_vars, NEW c \in Caller, caller[c].pc # "idle",
         caller' = [caller EXCEPT ![c] = NextStop(c)],
         NEW e \in Deposit, e = caller[c].deposit, Decided(e)'
  PROVE  SweptIsDecided'
  <1>1. caller[c] \in CallerRow /\ caller[c].deposit \in Nat /\ caller[c].limit \in Nat
    BY Sizes DEF DepositInv, Shape, CallerRow
  <1> SUFFICES ASSUME c \in Watcher, NEW d \in Deposit, d <= Swept(NextStop(c))
               PROVE  Decided(d)'
    <2>1. PICK x : x = NextStop(c)
      OBVIOUS
    <2>2. caller' = [caller EXCEPT ![c] = x]
      BY <2>1
    <2> QED
      BY <2>1, <2>2, SweepMoves
  <1>2. d <= caller[c].deposit
    <2>1. CASE caller[c].deposit < caller[c].limit
      <3>1. NextStop(c).pc = "observe" /\ NextStop(c).deposit = caller[c].deposit + 1
        BY <1>1, <2>1 DEF NextStop, CallerRow
      <3> QED
        BY <1>1, <3>1, Sizes DEF Swept
    <2>2. CASE ~(caller[c].deposit < caller[c].limit)
      <3>1. NextStop(c).pc = "idle" /\ NextStop(c).limit = caller[c].limit
        BY <2>2 DEF NextStop, Idle
      <3> QED
        BY <1>1, <2>2, <3>1, Sizes DEF Swept
    <2> QED
      BY <2>1, <2>2
  <1>3. CASE d = caller[c].deposit
    BY <1>3
  <1>4. CASE d # caller[c].deposit
    <2>1. d <= Swept(caller[c])
      BY <1>1, <1>2, <1>4, Sizes DEF Swept
    <2>2. Decided(d)
      BY <2>1 DEF SweptIsDecided, Decided
    <2> QED
      BY <2>2, DecidedStaysDecided
  <1> QED
    BY <1>3, <1>4

\* A caller that ends in an error, or never swept, has nothing behind it.
LEMMA SweepEnds ==
  ASSUME DepositInv, SweptIsDecided, [Next]_vars, NEW c \in Caller,
         caller' = [caller EXCEPT ![c] = Idle]
  PROVE  SweptIsDecided'
  <1>1. \A d \in Deposit : ~(d <= Swept(Idle))
    BY Sizes DEF Swept, Idle
  <1> QED
    BY <1>1, SweepMoves

LEMMA SweepStep == DepositInv /\ SweptIsDecided /\ [Next]_vars => SweptIsDecided'
  <1> SUFFICES ASSUME DepositInv, SweptIsDecided, [Next]_vars PROVE SweptIsDecided'
    OBVIOUS
  <1>1. ASSUME UNCHANGED caller PROVE SweptIsDecided'
    <2> SUFFICES ASSUME NEW v \in Watcher, NEW d \in Deposit, d <= Swept(caller[v])
                 PROVE  Decided(d)'
      BY <1>1 DEF SweptIsDecided, Decided, Swept
    <2>1. Decided(d)
      BY DEF SweptIsDecided, Decided
    <2> QED
      BY <2>1, DecidedStaysDecided
  <1>2. ASSUME NEW c \in Caller, Tick(c) PROVE SweptIsDecided'
    <2>1. PICK x : x = [Idle EXCEPT !.pc = "observe", !.deposit = 1, !.limit = finalized]
      OBVIOUS
    <2>2. caller' = [caller EXCEPT ![c] = x]
      BY <1>2, <2>1 DEF Tick, FirstTransfer
    <2>3. \A d \in Deposit : ~(d <= Swept(x))
      BY <2>1, Sizes DEF Swept, Idle
    <2> QED
      BY <2>2, <2>3, SweepMoves
  <1>3. ASSUME NEW c \in Caller, NEW x, caller' = [caller EXCEPT ![c] = x],
               Swept(x) = Swept(caller[c])
        PROVE  SweptIsDecided'
    <2>1. \A d \in Deposit : c \in Watcher /\ d <= Swept(x) => Decided(d)
      BY <1>3 DEF SweptIsDecided, Decided
    <2>2. \A d \in Deposit : c \in Watcher /\ d <= Swept(x) => Decided(d)'
      BY <2>1, DecidedStaysDecided
    <2> QED
      BY <1>3, <2>2, SweepMoves
  <1>4. ASSUME NEW c \in Caller, ObserveStep(c) PROVE SweptIsDecided'
    <2>1. PICK x : x = [caller[c] EXCEPT !.pc = "admit"]
      OBVIOUS
    <2>2. caller' = [caller EXCEPT ![c] = x] /\ caller[c].pc = "observe"
      BY <1>4, <2>1 DEF ObserveStep
    <2>3. Swept(x) = Swept(caller[c])
      BY <2>1, <2>2 DEF Swept, DepositInv, Shape, CallerRow
    <2> QED
      BY <1>3, <2>2, <2>3
  <1>5. ASSUME NEW c \in Caller, AdmitRead(c) PROVE SweptIsDecided'
    <2>0. caller[c].pc = "admit" /\ UNCHANGED status
      BY <1>5 DEF AdmitRead
    <2>1. CASE caller' = [caller EXCEPT ![c].pc = "admitting", ![c].seen = status[caller[c].deposit]]
      <3>1. PICK x : x = [caller[c] EXCEPT !.pc = "admitting", !.seen = status[caller[c].deposit]]
        OBVIOUS
      <3>2. caller' = [caller EXCEPT ![c] = x]
        BY <2>1, <3>1 DEF DepositInv, Shape
      <3>3. Swept(x) = Swept(caller[c])
        BY <2>0, <3>1 DEF Swept, DepositInv, Shape, CallerRow
      <3> QED
        BY <1>3, <3>2, <3>3
    <2>2. CASE /\ caller' = [caller EXCEPT ![c] = NextStop(c)]
               /\ status[caller[c].deposit] \in {"admitted", "compliance_hold"}
      <3>1. PICK e \in Deposit : e = caller[c].deposit
        BY <2>0 DEF DepositInv, CallersAt
      <3>2. Decided(e)'
        BY <2>0, <2>2, <3>1 DEF Decided
      <3> QED
        BY <2>0, <2>2, <3>1, <3>2, SweepNext
    <2>3. CASE caller' = [caller EXCEPT ![c] = Idle]
      BY <2>3, SweepEnds
    <2> QED
      BY <1>5, <2>1, <2>2, <2>3 DEF AdmitRead
  <1>6. ASSUME NEW c \in Caller, NEW rules \in BOOLEAN, AdmitCommit(c, rules) PROVE SweptIsDecided'
    <2>0. caller[c].pc = "admitting" /\ caller[c].deposit \in Deposit
      BY <1>6 DEF AdmitCommit, DepositInv, CallersAt
    <2>1. CASE caller' = [caller EXCEPT ![c] = NextStop(c)] /\ CasMatches(caller[c].deposit, caller[c].seen)
      <3>1. PICK e \in Deposit : e = caller[c].deposit
        BY <2>0
      <3>2. Decided(e)'
        <4>1. \E to \in {"compliance_hold", "admitted"} : status' = [status EXCEPT ![e] = to]
          BY <1>6, <2>1, <3>1 DEF AdmitCommit, HoldAdmission, CasDepositStatus
        <4> QED
          BY <4>1 DEF Decided, DepositInv, Shape
      <3> QED
        BY <2>0, <2>1, <3>1, <3>2, SweepNext
    <2>2. CASE caller' = [caller EXCEPT ![c] = Idle]
      BY <2>2, SweepEnds
    <2> QED
      BY <1>6, <2>1, <2>2 DEF AdmitCommit
  <1>7. ASSUME NEW c \in Caller, ConfirmCommit(c) \/ Fails(c) PROVE SweptIsDecided'
    BY <1>7, SweepEnds DEF ConfirmCommit, Fails
  <1>8. ASSUME NEW c \in Caller, NEW d \in Deposit, Reevaluate(c, d) PROVE SweptIsDecided'
    BY <1>8, SweepMoves DEF Reevaluate
  <1>9. ASSUME NEW c \in Caller, NEW d \in Deposit, NEW k \in Kind, ConfirmRead(c, d, k)
        PROVE  SweptIsDecided'
    BY <1>9, SweepMoves DEF ConfirmRead
  <1>10. ASSUME NEW c \in Caller, Proceed(c) PROVE SweptIsDecided'
    BY <1>4, <1>5, <1>6, <1>7, <1>10 DEF Proceed
  <1> QED
    BY <1>1, <1>2, <1>7, <1>8, <1>9, <1>10
    DEF Next, Propose, RefundSends, RefundSettles, Finalize, ChangeFact, Clock, vars

-----------------------------------------------------------------------------
\* Every reachable state of the deposit machine satisfies the inductive
\* invariant.
THEOREM DepositInvCorrect == Spec => []DepositInv
  BY InitHolds, NextHolds, PTL DEF Spec

\* Confirmed signatures decide the deposit: the row's compare-and-set and the
\* proposal's commit together, so no deposit has both commands confirmed
\* (confirm_manual_deposit_admission, confirm_deposit_refund).
THEOREM ConfirmedDecidesCorrect == Spec => []ConfirmedDecides
  <1>1. DepositInv => ConfirmedDecides
    BY DEF DepositInv
  <1> QED
    BY <1>1, DepositInvCorrect, PTL

\* The ledger has a credit for exactly the admitted deposits and a refund for
\* exactly the refunded ones, whichever caller wins a race for a row
\* (admit_observed, the confirmations, settle_refund).
THEOREM PostedMatchesCorrect == Spec => []PostedMatches
  <1>1. DepositInv => PostedMatches
    BY DEF DepositInv
  <1> QED
    BY <1>1, DepositInvCorrect, PTL

\* A tick of the watcher leaves no transfer behind it unrecorded or undecided,
\* whatever failed before it and whoever raced it for a row (InboundWatcher::tick,
\* admit_observed).
THEOREM SweptIsDecidedCorrect == Spec => []SweptIsDecided
  <1>1. Init => SweptIsDecided
    <2> SUFFICES ASSUME Init, NEW c \in Watcher, NEW d \in Deposit, d <= Swept(caller[c])
                 PROVE  FALSE
      BY DEF SweptIsDecided
    <2>1. caller[c] = Idle
      BY DepositAssumption DEF Init
    <2> QED
      BY <2>1, Sizes DEF Swept, Idle
  <1> QED
    BY <1>1, InitHolds, NextHolds, SweepStep, PTL DEF Spec
=============================================================================
