--------------------------- MODULE WithdrawalRail ---------------------------
(***************************************************************************)
(* The outbound half of one approved withdrawal: the send, reconcile and   *)
(* settle use cases of crates/application/src/money, the attempt table of  *)
(* adapters/src/pg/outbound_tx.rs, and the per-process signed-bytes map of *)
(* adapters/src/rails/solana.rs, run by several workers in several server  *)
(* processes against a chain they can only observe.                        *)
(*                                                                         *)
(* Every database transaction takes the user lock and the row lock, so one *)
(* transaction is one action.  What a worker still has to do after its     *)
(* transaction committed (persist the bytes on the rail, broadcast them,   *)
(* record the broadcast) is its continuation; other workers, a crash and   *)
(* the chain interleave there.  An early return that changes nothing is a  *)
(* stuttering step and has no action.                                      *)
(***************************************************************************)
EXTENDS Integers, FiniteSets, OutboundAttempt

CONSTANTS
    Worker,        \* tasks that run send / reconcile / settle commands
    Proc,          \* server processes, each with its own SolanaRails
    Host,          \* the process a worker runs in
    Endpoint,      \* the archival RPC endpoints of the rail identity
    Faulty,        \* endpoints that may answer anything
    Amount,        \* amount_micro of the withdrawal
    MaxAttempt,    \* bound: signed attempts
    MaxHeight,     \* bound: finalized block height
    Validity       \* blocks a freshly signed transaction stays valid, at most

ASSUME HostAssumption == Host \in [Worker -> Proc]

ASSUME EndpointAssumption ==
    /\ IsFiniteSet(Endpoint)
    /\ Faulty \subseteq Endpoint
    /\ Cardinality(Faulty) <= 1

ASSUME NumberAssumption ==
    /\ Amount \in Nat \ {0}
    /\ MaxAttempt \in Nat \ {0}
    /\ MaxHeight \in Nat \ {0}
    /\ Validity \in Nat

VARIABLES
    combo,      \* the withdrawal row's (status, review_state, send_state)
    count,      \* number of rows in outbound_send_attempts for the payment
    landing,    \* landing_state of each attempt
    lastValid,  \* last_valid_block_height of each attempt
    lease,      \* "held" until the prepared attempt's lease_expires_at, then "expired"
    posted,     \* which of the row's ledger transactions exist
    book,       \* balances of the three accounts the row moves money between
    persisted,  \* per process: the attempt whose bytes its rail map holds
    cont,       \* per worker: what it does after its last committed transaction
    height,     \* the chain's finalized block height
    sent,       \* attempts whose bytes some node has received
    fate,       \* what the chain did with each attempt
    crossed     \* history: attempts declared failed on observations that were
                \* about another attempt's signature

row == <<combo, count, landing, lastValid, lease>>
ledger == <<posted, book>>
chain == <<height, sent, fate>>
vars == <<combo, count, landing, lastValid, lease, posted, book, persisted,
          cont, height, sent, fate, crossed>>

Attempt == 1 .. MaxAttempt

\* W2 .. W15 as far as an approved withdrawal can get.
Combo == {"W2", "W3", "W6", "W7", "W8", "W9", "W10", "W14", "W15"}

\* The user's cash account and the two system accounts of the withdrawal legs.
Account == {"user", "withheld", "external"}

\* A rail map entry whose bytes belong to no committed attempt.
Phantom == -1

Idle == [step |-> "idle", attempt |-> 0, expected |-> "none"]

Continuation ==
    [step : {"idle", "persist", "broadcast", "cas"},
     attempt : 0 .. MaxAttempt,
     expected : {"none", "W3", "W8"}]

-----------------------------------------------------------------------------
(* The attempt table. *)

\* live_attempt: the one row in a live landing state; two are an error.
LiveAttempt(a) == \A b \in Attempt : (landing[b] \in LiveState) <=> (b = a)

\* save_attempt: legal edge, no other live row beside a live one, no second
\* finalized row.
SaveAttempt(a, state) ==
    /\ LegalAttemptEdge(landing[a], state)
    /\ state \in LiveState => \A b \in Attempt \ {a} : landing[b] \notin LiveState
    /\ state = "finalized" => \A b \in Attempt \ {a} : landing[b] # "finalized"
    /\ landing' = [landing EXCEPT ![a] = state]

-----------------------------------------------------------------------------
(* The ledger legs of this row; two_leg refuses a key that was posted. *)

TwoLeg(key, from, to) ==
    /\ key \notin posted
    /\ posted' = posted \cup {key}
    /\ book' = [book EXCEPT ![from] = @ - Amount, ![to] = @ + Amount]

ApplyRelease == TwoLeg("release", "withheld", "user")

ApplySettle == TwoLeg("settle", "withheld", "external")

-----------------------------------------------------------------------------
(* What the program can learn about the chain. *)

\* getBlockHeight at finalized commitment: a node may lag, never lead.
ReportedHeight == 0 .. height

\* What signing yields as last_valid_block_height.
SignedValidity == height .. height + Validity

\* getSignatureStatuses: a status of any kind is Present; a lagging node
\* says Absent, a failing call is Unknown.
Presence(a) == {"absent", "unknown"} \cup (IF a \in sent THEN {"present"} ELSE {})

\* One QuorumObservation.  A pruned endpoint or a failed read is unusable; the
\* height beside a present signature decides nothing.
Unusable == [usable |-> FALSE, height |-> 0, present |-> FALSE]
Present  == [usable |-> TRUE, height |-> 0, present |-> TRUE]
AbsentAt(h) == [usable |-> TRUE, height |-> h, present |-> FALSE]

\* quorum_observations at an honest endpoint: it reads its finalized height,
\* then looks the signature up, so once past the expiry of an attempt that is
\* on the chain it does not report the attempt absent.
HonestObservation(target) ==
    {Unusable}
    \cup (IF target \in sent THEN {Present} ELSE {})
    \cup {AbsentAt(h) : h \in {g \in ReportedHeight :
                                 fate[target] # "none" => g <= lastValid[target]}}

\* ... and at a faulty one.
AnyObservation == {Unusable, Present, AbsentAt(0), AbsentAt(MaxHeight + Validity + 1)}

\* Mutant: one endpoint past the expiry is enough.
DefinitiveFailed_OneVote(validity, obs) ==
    /\ \A e \in Endpoint : obs[e].usable /\ ~obs[e].present
    /\ Cardinality({e \in Endpoint : obs[e].height > validity}) >= 1

\* Mutant: absence counts whatever height the endpoint has reached.
DefinitiveFailed_NoExpiry(validity, obs) ==
    \A e \in Endpoint : obs[e].usable /\ ~obs[e].present

\* safe_non_landing_verdict and non_landing_verdict
DefinitiveFailed(validity, obs) ==
    /\ \A e \in Endpoint : obs[e].usable /\ ~obs[e].present
    /\ Cardinality({e \in Endpoint : obs[e].height > validity}) >= 2

\* The commands get observations and the live attempt a: nothing ties the two
\* together.  Endpoints that were asked about the signature of `target` can give
\* a definitive verdict on a.
DefinitiveFrom(a, target) ==
    \E honest \in [Endpoint \ Faulty -> HonestObservation(target)],
       faulty \in [Faulty -> AnyObservation] :
      DefinitiveFailed(lastValid[a],
          [e \in Endpoint |-> IF e \in Faulty THEN faulty[e] ELSE honest[e]])

\* History only: whether the verdict on a was about a.
NoteEvidence(a, target) ==
    crossed' = IF target = a THEN crossed ELSE crossed \cup {a}

-----------------------------------------------------------------------------
(* Worker continuations. *)

Then(w, step, a, expected) ==
    cont' = [cont EXCEPT ![w] = [step |-> step, attempt |-> a, expected |-> expected]]

Return(w) == cont' = [cont EXCEPT ![w] = Idle]

IsIdle(w) == cont[w].step = "idle"

\* insert_attempt: the next number, replacing a definitively failed row, in
\* state prepared and under a fresh lease.  The caller has put the table into
\* `table` within the same transaction.
InsertAttempt(table, a) ==
    /\ a \in Attempt
    /\ a = count + 1
    /\ a > 1 => table[a - 1] = "definitive_failed"
    /\ count' = a
    /\ landing' = [table EXCEPT ![a] = "prepared"]
    /\ \E valid \in SignedValidity : lastValid' = [lastValid EXCEPT ![a] = valid]
    /\ lease' = "held"

\* Mutant: other bytes for the payment are ignored instead of refused.
PersistSigned_KeepsOld(p, a) ==
    persisted' = [persisted EXCEPT ![p] = IF @ = 0 THEN a ELSE @]

\* persist_signed: first writer wins; other bytes for the payment are refused.
PersistSigned(p, a) ==
    /\ persisted[p] \in {0, a}
    /\ persisted' = [persisted EXCEPT ![p] = a]

-----------------------------------------------------------------------------
(* SendWithdraw *)

\* claim_w2: the payment id is new, so no rail map holds bytes for it yet.
ClaimW2(w) ==
    /\ IsIdle(w)
    /\ combo = "W2"
    /\ count = 0
    /\ InsertAttempt(landing, 1)
    /\ PersistSigned(Host[w], 1)
    /\ combo' = "W3"
    /\ Then(w, "broadcast", 1, "W3")
    /\ UNCHANGED <<ledger, chain, crossed>>

\* OutboundRails::broadcast: sends whatever the process map holds.  A failed
\* call may still have delivered the bytes.
Broadcast(w) ==
    /\ cont[w].step = "broadcast"
    /\ \/ /\ persisted[Host[w]] # 0
          /\ sent' = sent \cup {persisted[Host[w]]}
          /\ \/ cont[w].expected # "none" /\ Then(w, "cas", cont[w].attempt, cont[w].expected)
             \/ Return(w)
       \/ sent' = sent /\ Return(w)
    /\ UNCHANGED <<row, ledger, persisted, height, fate, crossed>>

\* cas_broadcast: compares the state, not the attempt, with what was expected.
CasBroadcast(w) ==
    /\ cont[w].step = "cas"
    /\ Return(w)
    /\ \/ /\ combo = cont[w].expected
          /\ \E a \in Attempt :
               LiveAttempt(a) /\ landing[a] = "prepared" /\ SaveAttempt(a, "broadcast")
          /\ combo' = "W6"
          /\ UNCHANGED <<count, lastValid, lease>>
       \/ /\ \/ combo # cont[w].expected
             \/ ~\E a \in Attempt : LiveAttempt(a) /\ landing[a] = "prepared"
          /\ UNCHANGED row
    /\ UNCHANGED <<ledger, persisted, chain, crossed>>

\* recover_sending (W3, W8) once the lease has expired: signature lookup first,
\* then rebroadcast the same bytes while they can still land, else unknown.
RecoverSending(w) ==
    /\ IsIdle(w)
    /\ combo \in {"W3", "W8"}
    /\ lease = "expired"
    /\ \E a \in Attempt :
         /\ LiveAttempt(a)
         /\ landing[a] = "prepared"
         /\ \/ /\ "present" \in Presence(a)
               /\ SaveAttempt(a, "broadcast")
               /\ combo' = "W6"
               /\ UNCHANGED cont
            \/ /\ "absent" \in Presence(a)
               /\ \E h \in ReportedHeight : h <= lastValid[a]
               /\ Then(w, "persist", a, combo)
               /\ UNCHANGED <<combo, landing>>
            \/ /\ \/ "unknown" \in Presence(a)
                  \/ "absent" \in Presence(a) /\ \E h \in ReportedHeight : h > lastValid[a]
               /\ SaveAttempt(a, "unknown")
               /\ combo' = "W7"
               /\ UNCHANGED cont
    /\ UNCHANGED <<count, lastValid, lease, ledger, persisted, chain, crossed>>

\* rebroadcast_unknown (W7)
RebroadcastUnknown(w) ==
    /\ IsIdle(w)
    /\ combo = "W7"
    /\ \E a \in Attempt :
         /\ LiveAttempt(a)
         /\ landing[a] = "unknown"
         /\ \E h \in ReportedHeight : h <= lastValid[a]
         /\ Then(w, "persist", a, "none")
    /\ UNCHANGED <<row, ledger, persisted, chain, crossed>>

\* same_bytes_rebroadcast: the rail may refuse the bytes.
Repersist(w) ==
    /\ cont[w].step = "persist"
    /\ IF persisted[Host[w]] \in {0, cont[w].attempt}
         THEN /\ PersistSigned(Host[w], cont[w].attempt)
              /\ Then(w, "broadcast", cont[w].attempt, cont[w].expected)
         ELSE Return(w) /\ UNCHANGED persisted
    /\ UNCHANGED <<row, ledger, chain, crossed>>

\* replace_expired up to its commit: W7 with an expired, provably absent attempt.
Replaceable(a, target) ==
    /\ combo = "W7"
    /\ LiveAttempt(a)
    /\ landing[a] = "unknown"
    /\ \E h \in ReportedHeight : h > lastValid[a]
    /\ DefinitiveFrom(a, target)

ReplaceExpired(w) ==
    /\ IsIdle(w)
    /\ \E a \in Attempt, target \in 1 .. count :
         /\ Replaceable(a, target)
         /\ NoteEvidence(a, target)
         /\ LegalAttemptEdge(landing[a], "definitive_failed")
         /\ InsertAttempt([landing EXCEPT ![a] = "definitive_failed"], a + 1)
         /\ PersistSigned(Host[w], a + 1)
         /\ Then(w, "broadcast", a + 1, "W8")
    /\ combo' = "W8"
    /\ UNCHANGED <<ledger, chain>>

\* The same, when the transaction fails after the rail took the new bytes.
ReplaceRollsBack(w) ==
    /\ IsIdle(w)
    /\ \E a \in Attempt, target \in 1 .. count : Replaceable(a, target) /\ a < MaxAttempt
    /\ persisted[Host[w]] = 0
    /\ persisted' = [persisted EXCEPT ![Host[w]] = Phantom]
    /\ UNCHANGED <<row, ledger, cont, chain, crossed>>

-----------------------------------------------------------------------------
(* ReconcileWithdraw and SettleWithdraw; each is one transaction. *)

\* Mutant: a timed-out send goes back to the risk hold.
MarkUnknown_RiskHold ==
    /\ combo = "W6"
    /\ \E a \in Attempt : LiveAttempt(a) /\ SaveAttempt(a, "unknown")
    /\ combo' = "W4"
    /\ UNCHANGED <<count, lastValid, lease, ledger, persisted, cont, chain, crossed>>

\* mark_unknown
MarkUnknown ==
    /\ combo = "W6"
    /\ \E a \in Attempt : LiveAttempt(a) /\ SaveAttempt(a, "unknown")
    /\ combo' = "W7"
    /\ UNCHANGED <<count, lastValid, lease, ledger, persisted, cont, chain, crossed>>

\* recover_w3
RecoverW3 ==
    /\ combo = "W3"
    /\ lease = "expired"
    /\ \E a \in Attempt :
         /\ LiveAttempt(a)
         /\ landing[a] = "prepared"
         /\ \/ "present" \in Presence(a) /\ SaveAttempt(a, "broadcast") /\ combo' = "W6"
            \/ /\ \/ "unknown" \in Presence(a)
                  \/ "absent" \in Presence(a) /\ \E h \in ReportedHeight : h > lastValid[a]
               /\ SaveAttempt(a, "unknown")
               /\ combo' = "W7"
    /\ UNCHANGED <<count, lastValid, lease, ledger, persisted, cont, chain, crossed>>

\* Mutant: the receipt's delta is not compared with the amount.
VerifiedReceipt_AnyDelta(a) == fate[a] # "none"

\* verify_chain_receipt: a finalized transfer of the exact amount.
VerifiedReceipt(a) == fate[a] = "landed"

\* observe_finalized: the attempt is found by the receipt's signature.
ObserveFinalized ==
    /\ combo \in {"W6", "W7", "W8"}
    /\ \E a \in 1 .. count : VerifiedReceipt(a) /\ SaveAttempt(a, "finalized")
    /\ combo' = "W9"
    /\ UNCHANGED <<count, lastValid, lease, ledger, persisted, cont, chain, crossed>>

\* prove_non_landing without a definitive verdict: W8 falls back to W7.
NonLandingUnknown ==
    /\ combo = "W8"
    /\ \E a \in Attempt : LiveAttempt(a) /\ SaveAttempt(a, "unknown")
    /\ combo' = "W7"
    /\ UNCHANGED <<count, lastValid, lease, ledger, persisted, cont, chain, crossed>>

\* Mutant: expiry alone releases the hold.
ProveNonLanding_ExpiryIsProof ==
    /\ combo \in {"W7", "W8"}
    /\ \E a \in Attempt :
         /\ LiveAttempt(a)
         /\ \E h \in ReportedHeight : h > lastValid[a]
         /\ SaveAttempt(a, "definitive_failed")
    /\ ApplyRelease
    /\ combo' = "W15"
    /\ UNCHANGED <<count, lastValid, lease, persisted, cont, chain, crossed>>

\* prove_non_landing with one: the hold is released.
ProveNonLanding ==
    /\ combo \in {"W7", "W8"}
    /\ \E a \in Attempt, target \in 1 .. count :
         /\ LiveAttempt(a)
         /\ DefinitiveFrom(a, target)
         /\ NoteEvidence(a, target)
         /\ SaveAttempt(a, "definitive_failed")
    /\ ApplyRelease
    /\ combo' = "W15"
    /\ UNCHANGED <<count, lastValid, lease, persisted, cont, chain>>

\* SettleWithdraw::execute
Settle ==
    /\ combo = "W9"
    /\ \E a \in 1 .. count : landing[a] = "finalized" /\ VerifiedReceipt(a)
    /\ ApplySettle
    /\ combo' = "W10"
    /\ UNCHANGED <<count, landing, lastValid, lease, persisted, cont, chain, crossed>>

\* Mutant: the denial forgets the ledger leg.
Deny_NoRelease ==
    /\ combo = "W2"
    /\ combo' = "W14"
    /\ UNCHANGED <<count, landing, lastValid, lease, ledger, persisted, cont, chain, crossed>>

\* DecideWithdraw::deny of an approved withdrawal that nobody claimed yet
Deny ==
    /\ combo = "W2"
    /\ ApplyRelease
    /\ combo' = "W14"
    /\ UNCHANGED <<count, landing, lastValid, lease, persisted, cont, chain, crossed>>

-----------------------------------------------------------------------------
(* Time, crashes and the chain. *)

\* LEASE elapses.
LeaseExpires ==
    /\ lease = "held"
    /\ lease' = "expired"
    /\ UNCHANGED <<combo, count, landing, lastValid, ledger, persisted, cont, chain, crossed>>

\* A process restarts: its rail map and its workers' continuations are lost.
Crash(p) ==
    /\ persisted' = [persisted EXCEPT ![p] = 0]
    /\ cont' = [w \in Worker |-> IF Host[w] = p THEN Idle ELSE cont[w]]
    /\ UNCHANGED <<row, ledger, chain, crossed>>

AdvanceHeight ==
    /\ height < MaxHeight
    /\ height' = height + 1
    /\ UNCHANGED <<row, ledger, persisted, cont, sent, fate, crossed>>

\* A received transaction executes, or is included and fails, while valid.
Include(a) ==
    /\ a \in sent
    /\ fate[a] = "none"
    /\ height <= lastValid[a]
    /\ \E outcome \in {"landed", "reverted"} : fate' = [fate EXCEPT ![a] = outcome]
    /\ UNCHANGED <<row, ledger, persisted, cont, height, sent, crossed>>

-----------------------------------------------------------------------------
Init ==
    /\ combo = "W2"
    /\ count = 0
    /\ landing = [a \in Attempt |-> "none"]
    /\ lastValid = [a \in Attempt |-> 0]
    /\ lease = "expired"
    /\ posted = {"hold"}
    /\ book = [x \in Account |-> IF x = "withheld" THEN Amount ELSE 0]
    /\ persisted = [p \in Proc |-> 0]
    /\ cont = [w \in Worker |-> Idle]
    /\ height = 1
    /\ sent = {}
    /\ fate = [a \in Attempt |-> "none"]
    /\ crossed = {}

Send(w) ==
    \/ ClaimW2(w) \/ Broadcast(w) \/ CasBroadcast(w) \/ RecoverSending(w)
    \/ RebroadcastUnknown(w) \/ Repersist(w)
    \/ ReplaceExpired(w) \/ ReplaceRollsBack(w)

Reconcile ==
    \/ MarkUnknown \/ RecoverW3 \/ ObserveFinalized
    \/ NonLandingUnknown \/ ProveNonLanding \/ Settle \/ Deny

Environment ==
    \/ LeaseExpires
    \/ \E p \in Proc : Crash(p)
    \/ AdvanceHeight
    \/ \E a \in Attempt : Include(a)

Next == (\E w \in Worker : Send(w)) \/ Reconcile \/ Environment

Spec == Init /\ [][Next]_vars

-----------------------------------------------------------------------------
(* Properties *)

\* The row, the attempt table, the books, the rail maps and the chain hold only
\* values the code can store: of the fifteen combos those an approved row reaches,
\* attempts in one of the landing states (the check constraint of withdrawals).
TypeOK ==
    /\ combo \in Combo
    /\ count \in 0 .. MaxAttempt
    /\ landing \in [Attempt -> LandingState \cup {"none"}]
    /\ lastValid \in [Attempt -> Nat]
    /\ lease \in {"held", "expired"}
    /\ posted \subseteq {"hold", "release", "settle"}
    /\ book \in [Account -> Int]
    /\ persisted \in [Proc -> Attempt \cup {0, Phantom}]
    /\ cont \in [Worker -> Continuation]
    /\ height \in Nat
    /\ sent \subseteq Attempt \cup {Phantom}
    /\ fate \in [Attempt -> {"none", "landed", "reverted"}]
    /\ crossed \subseteq Attempt

Landed == {a \in Attempt : fate[a] = "landed"}

\* Over all signed attempts, crashes and rebroadcasts, at most one transfer of
\* the withdrawal executes on the chain (withdraw_send.rs signs no second attempt
\* while the first could still land), attempts apart that were declared failed on
\* observations about another attempt: replace_expired and prove_non_landing do
\* not compare the signature.
PayAtMostOnce == \A a, b \in Landed \ crossed : a = b

\* A hold that went back to the user (prove_non_landing, deny) was not also paid
\* out on the chain, neither before the release nor later, by any attempt but one
\* declared failed on observations about another.
ReleasedNeverPaid == "release" \in posted => Landed \subseteq crossed

\* A settled withdrawal has exactly one finalized attempt, and that attempt did
\* execute on the chain (identity_d_holds; SettleWithdraw::execute).
SettledWasPaid ==
    "settle" \in posted =>
        \E a \in Landed :
            \A b \in Attempt : (landing[b] = "finalized") <=> (b = a)

\* No node ever receives bytes that are not the bytes of a committed attempt:
\* the attempt row is durable before the first broadcast (claim_w2 and
\* replace_expired commit before OutboundRails::broadcast).
SentIsDurable == sent \subseteq 1 .. count

\* The withheld balance is the amount exactly while the row has an active hold,
\* and a finished row has exactly one of release and settle
\* (identity_a_holds, identity_c_holds).
HoldMatchesRow ==
    /\ book["withheld"] = IF combo \in {"W10", "W14", "W15"} THEN 0 ELSE Amount
    /\ "release" \in posted <=> combo \in {"W14", "W15"}
    /\ "settle" \in posted <=> combo = "W10"

\* A new attempt is inserted only when none of the earlier ones has executed or
\* still can, attempts apart that were declared failed on observations about
\* another one (replace_expired's archival proof).
ReplaceOnlyTheDead ==
    [][count' > count =>
         \A a \in (1 .. count) \ crossed' : a \notin Landed /\ height > lastValid[a]]_vars

\* Once the live attempt of a W7 row has expired, the row can be finished: by
\* observe_finalized if the attempt executed, by prove_non_landing if it was
\* never included.  No sequence of crashes, rebroadcasts and replacements
\* leaves the two commands both refusing.
ExpiredIsResolvable ==
    \A a \in Attempt :
        combo = "W7" /\ LiveAttempt(a) /\ height > lastValid[a] =>
            /\ fate[a] = "landed" => ENABLED ObserveFinalized
            /\ fate[a] = "none" => ENABLED ProveNonLanding

\* The rail keeps the abstract promise of PayoutOnce: a released hold is never
\* paid and a paid one never released, unless an attempt was declared failed on
\* observations about another (replace_expired, prove_non_landing).
Payout ==
    INSTANCE PayoutOnce WITH
        hold <- IF "release" \in posted THEN "released"
                ELSE IF "settle" \in posted THEN "settled" ELSE "held",
        paid <- Landed # {},
        void <- crossed # {}

PaysOnce == Payout!Spec

-----------------------------------------------------------------------------
(* Statements of the documentation that the code does not keep. *)

\* An attempt declared failed never executes (withdrawal-states.md, W7 --> W8
\* "only with proof it did not land"; prove_non_landing releases on the same proof).
FailedNeverLands ==
    \A a \in Attempt : landing[a] = "definitive_failed" => a \notin Landed

\* With the archival proof in hand any idle worker can replace the attempt
\* (withdrawal-states.md, W7 --> W8; replace_expired).
ProofSufficesToReplace ==
    (\E a \in Attempt : a < MaxAttempt /\ Replaceable(a, a)) =>
        \A w \in Worker : IsIdle(w) => ENABLED ReplaceExpired(w)

\* An expired attempt is either finalized or definitively failed
\* (withdrawal-states.md, three outcomes), also when the chain included it and
\* its execution failed.
EveryFateDecides ==
    \A a \in Attempt :
        combo = "W7" /\ LiveAttempt(a) /\ height > lastValid[a] =>
            ENABLED ObserveFinalized \/ ENABLED ProveNonLanding

\* W6 says that the bytes of its live attempt are on the network (cas_broadcast).
BroadcastWasSent ==
    combo = "W6" => \E a \in sent : a # Phantom /\ LiveAttempt(a)

=============================================================================
