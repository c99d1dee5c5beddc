--------------------------- MODULE WithdrawalDesk ---------------------------
(***************************************************************************)
(* The front half of withdrawals: the request protocol                     *)
(* (money/withdraw_request.rs), the decisions on a held row                *)
(* (money/withdraw_decide.rs) and the gate a sender passes when it claims  *)
(* an approved row (ensure_send_allowed of money/withdraw_send.rs), for    *)
(* several users, destinations and concurrent clients.                     *)
(*                                                                         *)
(* A request is not one step: it looks its fingerprint up without a lock,  *)
(* calls the geo and sanctions providers, opens a transaction under the    *)
(* fingerprint and idempotency-key locks, reads the clock, and only then   *)
(* takes the user lock and the daily-cap lock.  Each of these points is a  *)
(* phase of a client.  A decision takes all its locks before it reads      *)
(* anything, so it is one action.  From the claim on, the row belongs to   *)
(* module WithdrawalRail; here its send either settles or fails.           *)
(***************************************************************************)
EXTENDS Integers, FiniteSets, FiniteSetsExt

CONSTANTS
    Client,           \* concurrent callers of RequestWithdraw
    User, Dest,
    Intent,           \* request fingerprints: (user, amount, destination)
    UserOf, DestOf, AmountOf,
    Key, NoKey,       \* idempotency keys a client may send; NoKey: it sends none
    Bound,            \* the intent each user's keys are bound to at the start
    Finance, Super,   \* admin tokens by role
    Funds, Debts,     \* cash and open receivable of each user at the start
    MinMicro, MaxMicro, AutoMicro, DualMicros, DailyMicro, DestDailyMicro,
    HotDailyMicro, ApproveCapMicro, WarmFloor, WarmAge,
    SourceOf,         \* pairs (user, address): the user has a deposit from there
    RefundedTo,       \* addresses of deposit refunds and of deposits without a user
    PastIntent,       \* intents settled before the model starts,
    RecentIntent,     \* among them those whose window ends as it starts
    Answer,           \* what the two screening providers may answer
    Fact,             \* the account and config facts that may change
    Day, Ttl,         \* the rolling window; how long a Clear stays fresh
    DualDelay, ConfirmWindow,
    MaxTime,          \* bound on the clock
    MaxChanges        \* bound on how often account and config facts change

None == "none"

\* WithdrawLimits as validate_limits accepts them.
ASSUME LimitAssumption ==
    /\ MinMicro > 0
    /\ AutoMicro = 0 \/ (MinMicro <= AutoMicro /\ AutoMicro < WarmFloor)
    /\ \A d \in DualMicros : (AutoMicro = 0 \/ AutoMicro <= d) /\ d <= MaxMicro
    /\ MaxMicro <= DestDailyMicro /\ DestDailyMicro <= DailyMicro
    /\ DailyMicro <= HotDailyMicro
    /\ WarmAge > 0 /\ ApproveCapMicro > 0

ASSUME IntentAssumption ==
    /\ UserOf \in [Intent -> User] /\ DestOf \in [Intent -> Dest]
    /\ AmountOf \in [Intent -> Nat \ {0}]
    /\ Bound \in [User \X (Key \ {NoKey}) -> {None} \cup PastIntent]
    /\ RecentIntent \subseteq PastIntent /\ PastIntent \subseteq Intent

VARIABLES
    time,
    cash,       \* ledger balance of each user account
    withheld,   \* ledger balance of the Withheld account
    row,        \* the withdrawals table, one row per intent
    receipt,    \* request_fingerprints: the receipt stored for an intent
    slot,       \* request_fingerprints: the intent an idempotency key is bound to
    client,     \* each client's progress through the request protocol
    geo,        \* latest persisted geo screening of an intent
    sanctions,  \* latest persisted "withdraw" screening of a user
    aml,        \* open AML flags of a user
    proposal,   \* the pending approve_withdrawal proposal of a row
    approved,   \* 'finance-approve' events: <<intent, time>>
    account,    \* users.status, kyc tier, self-exclusion, open receivable
    paused,     \* config pause_withdrawals
    dual,       \* config withdraw_dual_control_micro
    changes,    \* how often facts have changed
    hits        \* history: users with a committed Hit that nobody has cleared

books == <<cash, withheld>>
config == <<paused, dual>>
vars == <<time, books, row, receipt, slot, client, geo, sanctions, aml,
          proposal, approved, account, config, changes, hits>>

-----------------------------------------------------------------------------
\* Rows.

Held == {"W1", "W2", "W3", "W4", "W5"}
Denied == {"W11", "W12", "W13", "W14"}

NoRow == [combo |-> None, reasons |-> {}, at |-> 0, settledAt |-> 0, by |-> {}]

SumOf(S) == MapThenSumSet(LAMBDA i : AmountOf[i], S)

\* status not in ('denied', 'failed')
CountsInDailyWindow(i) == row[i].combo \notin {None, "W15"} \cup Denied

WindowSum(S, since) ==
    SumOf({i \in S : CountsInDailyWindow(i) /\ row[i].at >= since})

WithinLimits(i, since) ==
    /\ WindowSum({j \in Intent : UserOf[j] = UserOf[i]}, since) + AmountOf[i] <= DailyMicro
    /\ WindowSum({j \in Intent : DestOf[j] = DestOf[i]}, since) + AmountOf[i] <= DestDailyMicro
    /\ WindowSum(Intent, since) + AmountOf[i] <= HotDailyMicro

-----------------------------------------------------------------------------
\* Risk facts.

\* A screening verdict with the stamp `order by checked_at` sorts on: a Clear
\* carries the provider's time, any other verdict the transaction's start.
NoScreen == [verdict |-> None, at |-> 0]

\* Two rows with one stamp: either may be the first of the descending order.
Latest(old, new) ==
    IF old = NoScreen \/ new.at > old.at THEN {new}
    ELSE IF new.at = old.at THEN {old, new} ELSE {old}

IsFreshClear(s, now) == s.verdict = "clear" /\ s.at <= now /\ s.at + Ttl > now

\* is_refund_dest: a refund payment to the address, or any deposit from it.
RefundDest == RefundedTo \cup {p[2] : p \in SourceOf}

\* Settled rows to a destination above the dust floor.
SettledTo(d) == {i \in Intent : row[i].combo = "W10" /\ DestOf[i] = d /\ AmountOf[i] >= MinMicro}
DestShared(d) == Cardinality({UserOf[i] : i \in SettledTo(d)}) >= 2
FirstSettled(d) == Min({row[i].settledAt : i \in SettledTo(d)})

IsWarm(d, now) ==
    /\ d \notin RefundDest
    /\ ~DestShared(d)
    /\ SettledTo(d) # {}
    /\ SumOf(SettledTo(d)) >= WarmFloor
    /\ now - FirstSettled(d) >= WarmAge

SelfExclusionEgress(i) ==
    \/ \E j \in Intent : /\ row[j].combo = "W10"
                         /\ DestOf[j] = DestOf[i] /\ UserOf[j] = UserOf[i]
    \/ <<UserOf[i], DestOf[i]>> \in SourceOf

Named(S) == {r[1] : r \in {s \in S : s[2]}}

\* The reasons the request path stamps; a is the account row and d the dual
\* threshold read under the user lock, g and s the screenings it persisted.
CurrentReasons(i, now, a, d, g, s, flags) ==
    Named({<<"amount_ge_auto", AmountOf[i] >= AutoMicro>>,
           <<"amount_ge_dual", AmountOf[i] >= d>>,
           <<"shadow_limited", a.status = "shadow">>,
           <<"aml_open", flags # {}>>,
           <<"sanctions_not_clear", ~IsFreshClear(s, now)>>,
           <<"geo_not_clear", ~IsFreshClear(g, now)>>,
           <<"dest_not_warm", ~IsWarm(DestOf[i], now)>>,
           <<"dest_shared", DestShared(DestOf[i])>>,
           <<"dest_is_refund", DestOf[i] \in RefundDest>>,
           <<"self_exclusion_new_dest",
                a.excluded = "yes" /\ ~SelfExclusionEgress(i)>>})

\* open_aml_flag_count first turns a latest Hit into an open flag.
FlagsWith(u, s) == aml[u] \cup (IF s.verdict = "hit" THEN {"sanctions_hit"} ELSE {})
OpenAmlFlags(u) == FlagsWith(u, sanctions[u])

\* The reasons every decision recomputes under the lock.
LiveReasons(i) ==
    LET a == account[UserOf[i]] IN
    CurrentReasons(i, time, a, dual, geo[i], sanctions[UserOf[i]], OpenAmlFlags(UserOf[i]))
        \cup Named({<<"withdrawals_paused", paused = "yes">>,
                    <<"banned", a.status = "banned">>,
                    <<"kyc_not_eligible", a.kyc = "low">>})

HardGate == {"withdrawals_paused", "banned", "kyc_not_eligible", "aml_open",
             "sanctions_not_clear", "geo_not_clear", "self_exclusion_new_dest"}

-----------------------------------------------------------------------------
\* Locks.  A client in phase "stamped" or "checked" has an open transaction
\* that holds its fingerprint and key locks; in "checked" also the user lock
\* and the withdraw-daily lock.

Clean == [status |-> "active", kyc |-> "ok", excluded |-> "no", debt |-> 0]
Idle == [pc |-> "idle", intent |-> None, key |-> NoKey, geo |-> NoScreen,
         sanctions |-> NoScreen, at |-> 0, account |-> Clean, dual |-> 0, paid |-> 0]

InTx(c) == client[c].pc \in {"stamped", "checked"}
\* Mutant: nobody waits for the user lock.
UserLocked_Never(u) == FALSE

\* Mutant: the daily caps are not serialised.
CapLocked_Never == FALSE

UserLocked(u) == \E c \in Client : client[c].pc = "checked" /\ UserOf[client[c].intent] = u
CapLocked == \E c \in Client : client[c].pc = "checked"
SerializedBy(i, k) ==
    \E c \in Client : /\ InTx(c)
                      /\ \/ client[c].intent = i
                         \/ /\ k # NoKey /\ client[c].key = k
                            /\ UserOf[client[c].intent] = UserOf[i]

\* persist_idempotency: a key keeps the intent it was first bound to.
BindKey(i, k) ==
    /\ k # NoKey => slot[UserOf[i], k] \in {None, i}
    /\ slot' = IF k = NoKey THEN slot ELSE [slot EXCEPT ![UserOf[i], k] = i]

NoteHit(u, s) == hits' = IF s.verdict = "hit" THEN hits \cup {u} ELSE hits

\* The two screenings become visible with the transaction that wrote them.
PersistScreens(i, g, s) ==
    /\ \E l \in Latest(geo[i], g) : geo' = [geo EXCEPT ![i] = l]
    /\ \E l \in Latest(sanctions[UserOf[i]], s) :
          sanctions' = [sanctions EXCEPT ![UserOf[i]] = l]
    /\ NoteHit(UserOf[i], s)

-----------------------------------------------------------------------------
\* The request protocol.

\* execute: the lock-free lookup; a hit replays the stored receipt.
LookupFingerprint(c, i, k) ==
    /\ client[c].pc = "idle"
    /\ \/ /\ receipt[i] = None
          /\ client' = [client EXCEPT ![c] =
                [Idle EXCEPT !.pc = "screening", !.intent = i, !.key = k]]
       \/ /\ receipt[i] # None
          /\ UNCHANGED client
    /\ UNCHANGED <<time, books, row, receipt, slot, geo, sanctions, aml,
                   proposal, approved, account, config, hits>>

\* The provider calls, with no lock held.  "no_ip" is a request without a
\* client address, for which the geo provider is not asked.
Screen(c, g, s) ==
    /\ client[c].pc = "screening"
    /\ s # "no_ip"
    /\ client' = [client EXCEPT
          ![c].pc = "screened",
          ![c].geo = [verdict |-> g, at |-> time],
          ![c].sanctions = [verdict |-> s, at |-> time]]
    /\ UNCHANGED <<time, books, row, receipt, slot, geo, sanctions, aml,
                   proposal, approved, account, config, hits>>

\* persist_screening: a failed or skipped call is stored as Indeterminate, and
\* everything but a Clear is stamped by the database.
Stamped(v) == IF v.verdict = "clear" THEN v ELSE [v EXCEPT !.at = time]
Stored(v) ==
    [v EXCEPT !.verdict = IF @ \in {"clear", "hit"} THEN @ ELSE "indeterminate"]

\* Mutant: the lookup under the lock is left out.
SecondLookup_Skipped(i) == None

\* intent_lookup under the fingerprint lock.
SecondLookup(i) == receipt[i]

\* The transaction up to the clock read: fingerprint lock, second lookup, key
\* lock and conflict check, screenings, remote-error refusal.
Serialize(c) ==
    LET i == client[c].intent
        k == client[c].key
        replay == SecondLookup(i)
        bound == IF k = NoKey THEN None ELSE slot[UserOf[i], k]
        g == Stamped(client[c].geo)
        s == Stamped(client[c].sanctions)
        fresh == replay = None /\ bound \in {None, i}
        failed == "error" \in {g.verdict, s.verdict}
    IN
    /\ client[c].pc = "screened"
    /\ ~SerializedBy(i, k)
    /\ \/ /\ replay # None
          /\ client' = [client EXCEPT ![c] = Idle]
          /\ UNCHANGED <<receipt, slot, geo, sanctions, hits>>
       \/ /\ replay = None /\ ~fresh
          /\ client' = [client EXCEPT ![c] = Idle]
          /\ UNCHANGED <<receipt, slot, geo, sanctions, hits>>
       \/ /\ fresh /\ failed
          /\ receipt' = [receipt EXCEPT ![i] = "remote_error"]
          /\ BindKey(i, k)
          /\ PersistScreens(i, Stored(g), Stored(s))
          /\ client' = [client EXCEPT ![c] = Idle]
       \/ /\ fresh /\ ~failed
          /\ client' = [client EXCEPT ![c] =
                [@ EXCEPT !.pc = "stamped", !.at = time, !.geo = g, !.sanctions = Stored(s)]]
          /\ UNCHANGED <<receipt, slot, geo, sanctions, hits>>
    /\ UNCHANGED <<time, books, row, aml, proposal, approved, account, config>>

\* convert_then_collect: an open receivable takes the cash first.
Collected(u) == Min({cash[u], account[u].debt})

\* admission_refusal, in the code's order of precedence.
AdmissionRefusal(i, g) ==
    LET a == account[UserOf[i]] IN
    CASE paused = "yes" -> "paused"
      [] a.status = "banned" -> "banned"
      [] a.kyc = "low" -> "kyc"
      [] AmountOf[i] < MinMicro \/ AmountOf[i] > MaxMicro -> "amount"
      [] g.verdict = "no_ip" -> "geo_missing_ip"
      [] OTHER -> None

\* Mutant: the balance is not checked.
Refusal_NoFundsCheck(i, g, at, funds) ==
    LET early == AdmissionRefusal(i, g) IN
    CASE early # None -> early
      [] early = None /\ ~WithinLimits(i, at - Day) -> "limit"
      [] OTHER -> None

Refusal(i, g, at, funds) ==
    LET early == AdmissionRefusal(i, g) IN
    CASE early # None -> early
      [] early = None /\ funds < AmountOf[i] -> "insufficient_funds"
      [] early = None /\ funds >= AmountOf[i] /\ ~WithinLimits(i, at - Day) -> "limit"
      [] OTHER -> None

\* revalidate_and_hold up to the limits: the user lock, the collection, the
\* refusals, the cap lock and the three windows.  A refusal commits here.
Revalidate(c) ==
    LET i == client[c].intent
        u == UserOf[i]
        funds == cash[u] - Collected(u)
        refusal == Refusal(i, client[c].geo, client[c].at, funds)
    IN
    /\ client[c].pc = "stamped"
    /\ ~UserLocked(u)
    /\ refusal \in {None, "limit"} => ~CapLocked
    /\ \/ /\ refusal # None
          /\ cash' = [cash EXCEPT ![u] = funds]
          /\ account' = [account EXCEPT ![u].debt = @ - Collected(u)]
          /\ receipt' = [receipt EXCEPT ![i] = refusal]
          /\ BindKey(i, client[c].key)
          /\ PersistScreens(i, Stored(client[c].geo), client[c].sanctions)
          /\ client' = [client EXCEPT ![c] = Idle]
       \/ /\ refusal = None
          /\ client' = [client EXCEPT ![c] =
                [@ EXCEPT !.pc = "checked", !.account = account[u], !.dual = dual,
                          !.paid = Collected(u)]]
          /\ UNCHANGED <<cash, account, receipt, slot, geo, sanctions, hits>>
    /\ UNCHANGED <<time, withheld, row, aml, proposal, approved, config>>

\* The rest of revalidate_and_hold and the commit: AML evaluation of the
\* candidate (rules: the flags it may raise), reasons, hold, row, receipt.
HoldAndInsert(c, rules) ==
    LET i == client[c].intent
        u == UserOf[i]
        known == Latest(sanctions[u], client[c].sanctions)
    IN
    /\ client[c].pc = "checked"
    /\ \E s \in known :
          LET flags == FlagsWith(u, s) \cup rules IN
          /\ sanctions' = [sanctions EXCEPT ![u] = s]
          /\ aml' = [aml EXCEPT ![u] = flags]
          /\ row' = [row EXCEPT ![i] =
                [NoRow EXCEPT !.combo = "W1", !.at = client[c].at,
                   !.reasons = CurrentReasons(i, client[c].at, client[c].account,
                                  client[c].dual, client[c].geo, s, flags)]]
    /\ geo' = [geo EXCEPT ![i] = client[c].geo]
    /\ NoteHit(u, client[c].sanctions)
    /\ cash' = [cash EXCEPT ![u] = @ - client[c].paid - AmountOf[i]]
    /\ account' = [account EXCEPT ![u].debt = @ - client[c].paid]
    /\ withheld' = withheld + AmountOf[i]
    /\ receipt' = [receipt EXCEPT ![i] = "accepted"]
    /\ BindKey(i, client[c].key)
    /\ client' = [client EXCEPT ![c] = Idle]
    /\ UNCHANGED <<time, proposal, approved, config>>

\* The caller goes away before the commit: the transaction rolls back.
Abandon(c) ==
    /\ client[c].pc # "idle"
    /\ client' = [client EXCEPT ![c] = Idle]
    /\ UNCHANGED <<time, books, row, receipt, slot, geo, sanctions, aml,
                   proposal, approved, account, config, hits>>
-----------------------------------------------------------------------------
\* Decisions on a held row.

Restamp(i, combo, reasons, by) ==
    row' = [row EXCEPT ![i] = [@ EXCEPT !.combo = combo, !.reasons = reasons, !.by = by]]

\* The machine pass: stamped and live reasons together decide.
Machine(i) ==
    LET tightened == row[i].reasons \cup LiveReasons(i) IN
    /\ ~UserLocked(UserOf[i])
    /\ row[i].combo = "W1"
    /\ Restamp(i, IF tightened = {} THEN "W2" ELSE "W4", tightened, {})
    /\ aml' = [aml EXCEPT ![UserOf[i]] = OpenAmlFlags(UserOf[i])]
    /\ UNCHANGED <<time, books, receipt, slot, client, geo, sanctions,
                   proposal, approved, account, config, hits>>

\* Mutant: earlier approvals of the day are not added up.
ConsumeApprovalCap_PerRow(i) ==
    /\ AmountOf[i] <= ApproveCapMicro
    /\ approved' = approved \cup {<<i, time>>}

\* consume_approval_cap
ConsumeApprovalCap(i) ==
    /\ SumOf({e[1] : e \in {f \in approved : f[2] >= time - Day}}) + AmountOf[i] <= ApproveCapMicro
    /\ approved' = approved \cup {<<i, time>>}

\* Mutant: only the threshold in force now counts, not the stamped reason.
FinanceApprove_CurrentDualOnly(i, t) ==
    /\ ~UserLocked(UserOf[i])
    /\ row[i].combo = "W4"
    /\ AmountOf[i] < dual
    /\ (LiveReasons(i) \cup row[i].reasons) \cap HardGate = {}
    /\ ConsumeApprovalCap(i)
    /\ Restamp(i, "W2", row[i].reasons \cup LiveReasons(i), {t})
    /\ UNCHANGED <<time, books, receipt, slot, client, geo, sanctions, aml,
                   proposal, account, config, hits>>

FinanceApprove(i, t) ==
    /\ ~UserLocked(UserOf[i])
    /\ row[i].combo = "W4"
    /\ AmountOf[i] < dual /\ "amount_ge_dual" \notin row[i].reasons
    /\ (LiveReasons(i) \cup row[i].reasons) \cap HardGate = {}
    /\ ConsumeApprovalCap(i)
    /\ Restamp(i, "W2", row[i].reasons \cup LiveReasons(i), {t})
    /\ UNCHANGED <<time, books, receipt, slot, client, geo, sanctions, aml,
                   proposal, account, config, hits>>

NoProposal == [by |-> None, notBefore |-> 0]

ProposeDual(i, t) ==
    /\ ~UserLocked(UserOf[i])
    /\ row[i].combo = "W4"
    /\ proposal' = [proposal EXCEPT ![i] = [by |-> t, notBefore |-> time + DualDelay]]
    /\ Restamp(i, "W5", row[i].reasons, row[i].by)
    /\ UNCHANGED <<time, books, receipt, slot, client, geo, sanctions, aml,
                   approved, account, config, hits>>

Expired(i) == time >= proposal[i].notBefore + ConfirmWindow

ConfirmDual(i, t) ==
    /\ ~UserLocked(UserOf[i])
    /\ row[i].combo = "W5"
    /\ t # proposal[i].by
    /\ time >= proposal[i].notBefore /\ ~Expired(i)
    /\ LiveReasons(i) \cap HardGate = {}
    /\ ConsumeApprovalCap(i)
    /\ proposal' = [proposal EXCEPT ![i] = NoProposal]
    /\ Restamp(i, "W2", row[i].reasons \cup LiveReasons(i), {proposal[i].by, t})
    /\ UNCHANGED <<time, books, receipt, slot, client, geo, sanctions, aml,
                   account, config, hits>>

\* Mutant: the row goes back to W4, the proposal stays pending.
ExpireProposal_KeepsProposal(i) ==
    /\ ~UserLocked(UserOf[i])
    /\ row[i].combo = "W5" /\ Expired(i)
    /\ Restamp(i, "W4", row[i].reasons, row[i].by)
    /\ UNCHANGED <<time, books, receipt, slot, client, geo, sanctions, aml,
                   proposal, approved, account, config, hits>>

ExpireProposal(i) ==
    /\ ~UserLocked(UserOf[i])
    /\ row[i].combo = "W5" /\ Expired(i)
    /\ proposal' = [proposal EXCEPT ![i] = NoProposal]
    /\ Restamp(i, "W4", row[i].reasons, row[i].by)
    /\ UNCHANGED <<time, books, receipt, slot, client, geo, sanctions, aml,
                   approved, account, config, hits>>

DenyTarget == [W1 |-> "W11", W2 |-> "W14", W4 |-> "W12", W5 |-> "W13"]

Release(i) ==
    /\ withheld' = withheld - AmountOf[i]
    /\ cash' = [cash EXCEPT ![UserOf[i]] = @ + AmountOf[i]]

\* Mutant: the hold is not released.
Deny_NoRelease(i) ==
    /\ ~UserLocked(UserOf[i])
    /\ row[i].combo \in DOMAIN DenyTarget
    /\ proposal' = [proposal EXCEPT ![i] = NoProposal]
    /\ Restamp(i, DenyTarget[row[i].combo], row[i].reasons, row[i].by)
    /\ UNCHANGED <<time, books, receipt, slot, client, geo, sanctions, aml, approved,
                   account, config, hits>>

Deny(i) ==
    /\ ~UserLocked(UserOf[i])
    /\ row[i].combo \in DOMAIN DenyTarget
    /\ Release(i)
    /\ proposal' = [proposal EXCEPT ![i] = NoProposal]
    /\ Restamp(i, DenyTarget[row[i].combo], row[i].reasons, row[i].by)
    /\ UNCHANGED <<time, receipt, slot, client, geo, sanctions, aml, approved,
                   account, config, hits>>

-----------------------------------------------------------------------------
\* The sender's claim and what becomes of the payment.

\* Reasons that may be live at the claim only if the approval knew of them.
Tightenable == {"shadow_limited", "amount_ge_auto", "amount_ge_dual",
                "dest_not_warm", "dest_shared", "dest_is_refund"}

\* Mutant: reasons that appeared after the approval are not looked at.
EnsureSendAllowed_HardOnly(i) ==
    /\ LiveReasons(i) \cap HardGate = {}
    /\ account[UserOf[i]].debt = 0

EnsureSendAllowed(i) ==
    /\ LiveReasons(i) \cap HardGate = {}
    /\ LiveReasons(i) \cap Tightenable \subseteq row[i].reasons
    /\ account[UserOf[i]].debt = 0

Claim(i) ==
    /\ ~UserLocked(UserOf[i])
    /\ row[i].combo = "W2"
    /\ EnsureSendAllowed(i)
    /\ Restamp(i, "W3", row[i].reasons, row[i].by)
    /\ UNCHANGED <<time, books, receipt, slot, client, geo, sanctions, aml,
                   proposal, approved, account, config, hits>>

\* The rail's two endings of a claimed row (module WithdrawalRail).
RailSettles(i) ==
    /\ ~UserLocked(UserOf[i])
    /\ row[i].combo = "W3"
    /\ row' = [row EXCEPT ![i].combo = "W10", ![i].settledAt = time]
    /\ withheld' = withheld - AmountOf[i]
    /\ UNCHANGED <<time, cash, receipt, slot, client, geo, sanctions, aml,
                   proposal, approved, account, config, hits>>

RailFails(i) ==
    /\ ~UserLocked(UserOf[i])
    /\ row[i].combo = "W3"
    /\ Restamp(i, "W15", row[i].reasons, row[i].by)
    /\ Release(i)
    /\ UNCHANGED <<time, receipt, slot, client, geo, sanctions, aml, proposal,
                   approved, account, config, hits>>
-----------------------------------------------------------------------------
\* What happens around the desk.  Account facts are changed by compliance
\* commands that lock the users row, not the advisory user lock.

SetAccount(u, field, value) ==
    /\ account' = [account EXCEPT ![u][field] = value]
    /\ UNCHANGED <<time, books, row, receipt, slot, client, geo, sanctions, aml,
                   proposal, approved, config, hits>>

SetStatus(u, s) == "status" \in Fact /\ SetAccount(u, "status", s)
SetKyc(u, k) == "kyc" \in Fact /\ SetAccount(u, "kyc", k)
SetExcluded(u, e) == "excluded" \in Fact /\ SetAccount(u, "excluded", e)

SetConfig(p, d) ==
    /\ "config" \in Fact
    /\ paused' = p /\ dual' = d
    /\ UNCHANGED <<time, books, row, receipt, slot, client, geo, sanctions, aml,
                   proposal, approved, account, hits>>

\* Another flow's AML evaluation raises a flag; a dual-control command clears.
RaiseFlag(u) ==
    /\ "aml" \in Fact
    /\ aml' = [aml EXCEPT ![u] = @ \cup {"velocity"}]
    /\ UNCHANGED <<time, books, row, receipt, slot, client, geo, sanctions,
                   proposal, approved, account, config, hits>>

ClearFlags(u) ==
    /\ "aml" \in Fact
    /\ aml[u] # {}
    /\ aml' = [aml EXCEPT ![u] = {}]
    /\ hits' = hits \ {u}
    /\ UNCHANGED <<time, books, row, receipt, slot, client, geo, sanctions,
                   proposal, approved, account, config>>

\* A trade or another debit under the user lock, which checks the balance.
Spend(u) ==
    /\ "spend" \in Fact
    /\ ~UserLocked(u)
    /\ cash[u] > 0
    /\ cash' = [cash EXCEPT ![u] = @ - 1]
    /\ UNCHANGED <<time, withheld, row, receipt, slot, client, geo, sanctions, aml,
                   proposal, approved, account, config, hits>>

\* Other flows lock the ledger account rows and not the user, so they only
\* wait for a request whose collection has locked the account row already.
AccountRowLocked(u) ==
    \E c \in Client : client[c].pc = "checked" /\ UserOf[client[c].intent] = u /\ client[c].paid > 0

\* A payout or an admitted deposit; the balance is bounded by what it was.
Earn(u) ==
    /\ "spend" \in Fact
    /\ ~AccountRowLocked(u)
    /\ cash[u] < Funds[u]
    /\ cash' = [cash EXCEPT ![u] = @ + 1]
    /\ UNCHANGED <<time, withheld, row, receipt, slot, client, geo, sanctions, aml,
                   proposal, approved, account, config, hits>>

\* A market unwind claws one unit back: out of the balance, or as a receivable.
ClawBack(u) ==
    /\ "unwind" \in Fact
    /\ ~AccountRowLocked(u)
    /\ \/ /\ cash[u] > 0
          /\ cash' = [cash EXCEPT ![u] = @ - 1]
          /\ UNCHANGED account
       \/ /\ cash[u] = 0 /\ account[u].debt = 0
          /\ account' = [account EXCEPT ![u].debt = 1]
          /\ UNCHANGED cash
    /\ UNCHANGED <<time, withheld, row, receipt, slot, client, geo, sanctions, aml,
                   proposal, approved, config, hits>>

Tick ==
    /\ time < MaxTime
    /\ time' = time + 1
    /\ UNCHANGED <<books, row, receipt, slot, client, geo, sanctions, aml, proposal,
                   approved, account, config, hits>>

\* Settled long enough ago to be outside every window and to have warmed its
\* destination, or requested, approved and settled just a window ago.
PastRow == [NoRow EXCEPT !.combo = "W10", !.at = -(Day + WarmAge + 1), !.settledAt = -WarmAge]
RecentRow == [NoRow EXCEPT !.combo = "W10", !.at = -Day, !.settledAt = -Day]

Init ==
    /\ time = 0
    /\ cash = Funds /\ withheld = 0
    /\ row = [i \in Intent |-> CASE i \in RecentIntent -> RecentRow
                                 [] i \in PastIntent \ RecentIntent -> PastRow
                                 [] OTHER -> NoRow]
    /\ receipt = [i \in Intent |-> IF i \in PastIntent THEN "accepted" ELSE None]
    /\ slot = Bound
    /\ client = [c \in Client |-> Idle]
    /\ geo = [i \in Intent |-> NoScreen]
    /\ sanctions = [u \in User |-> NoScreen]
    /\ aml = [u \in User |-> {}]
    /\ proposal = [i \in Intent |-> NoProposal]
    /\ approved = RecentIntent \X {-Day}
    /\ account = [u \in User |-> [Clean EXCEPT !.debt = Debts[u]]]
    /\ paused = "no" /\ dual = Max(DualMicros)
    /\ changes = 0
    /\ hits = {}

RequestStep(c) ==
    \/ \E i \in Intent, k \in Key : LookupFingerprint(c, i, k)
    \/ \E g \in Answer, s \in Answer : Screen(c, g, s)
    \/ Serialize(c)
    \/ Revalidate(c)
    \/ \E rules \in IF "aml" \in Fact THEN {{}, {"velocity"}} ELSE {{}} : HoldAndInsert(c, rules)
    \/ Abandon(c)

RowStep(i) ==
    \/ Machine(i)
    \/ \E t \in Finance : FinanceApprove(i, t) \/ ProposeDual(i, t)
    \/ \E t \in Finance \cup Super : ConfirmDual(i, t)
    \/ ExpireProposal(i)
    \/ Deny(i)
    \/ Claim(i) \/ RailSettles(i) \/ RailFails(i)

FactStep ==
    /\ changes < MaxChanges
    /\ changes' = changes + 1
    /\ \/ \E u \in User, s \in {"active", "shadow", "banned"} : SetStatus(u, s)
       \/ \E u \in User, k \in {"ok", "low"} : SetKyc(u, k)
       \/ \E u \in User, e \in {"yes", "no"} : SetExcluded(u, e)
       \/ \E u \in User : RaiseFlag(u) \/ ClearFlags(u)
       \/ \E u \in User : Spend(u) \/ Earn(u) \/ ClawBack(u)
       \/ \E p \in {"yes", "no"}, d \in DualMicros : SetConfig(p, d)

Next ==
    \/ \E c \in Client : RequestStep(c) /\ UNCHANGED changes
    \/ \E i \in Intent : RowStep(i) /\ UNCHANGED changes
    \/ FactStep
    \/ Tick /\ UNCHANGED changes

Spec == Init /\ [][Next]_vars

-----------------------------------------------------------------------------
\* Properties.

\* Every stored value is one the code can store: combos a desk row can have,
\* known reasons, screenings and receipts, balances as integers.
TypeOK ==
    /\ time \in 0..MaxTime
    /\ cash \in [User -> Int] /\ withheld \in Nat
    /\ \A i \in Intent :
          /\ row[i].combo \in {None, "W10", "W15"} \cup Held \cup Denied
          /\ row[i].reasons \subseteq HardGate \cup Tightenable
          /\ row[i].by \subseteq Finance \cup Super
          /\ row[i].at <= time /\ row[i].settledAt <= time
          /\ geo[i].verdict \in {None, "clear", "hit", "indeterminate"}
          /\ (row[i].combo = "W5") <=> (proposal[i] # NoProposal)
    /\ \A c \in Client : client[c].pc \in {"idle", "screening", "screened", "stamped", "checked"}
    /\ \A u \in User : account[u].debt \in Int /\ sanctions[u].verdict # "error"

\* Identity 10: the Withheld balance is exactly the sum of the rows that hold
\* funds, whatever requests, denials, settlements and failures interleave.
HoldMatchesActive == withheld = SumOf({i \in Intent : row[i].combo \in Held})

\* Identity 2 for user accounts: a hold, a debit and a collection that were
\* each checked against the balance never take it below zero together.
CashNonNegative == \A u \in User : cash[u] >= 0

\* Identity 7 seen from one user: a request's convert-then-collect, which is
\* rolled back or committed with the request, never collects a receivable that
\* another request has already collected.
DebtCollectedOnce == \A u \in User : account[u].debt >= 0

\* "Daily limits count settled withdrawals too": in every window of 24 hours
\* the requests that were neither denied nor failed stay within the user,
\* destination and hot-wallet limits, although each request reads its clock
\* before it waits for the locks and requests commit in any order.
WindowLimits ==
    \A s \in (-Day)..MaxTime :
        LET inWindow == {i \in Intent : CountsInDailyWindow(i) /\ row[i].at \in s..(s + Day)} IN
        /\ \A u \in User : SumOf({i \in inWindow : UserOf[i] = u}) <= DailyMicro
        /\ \A d \in Dest : SumOf({i \in inWindow : DestOf[i] = d}) <= DestDailyMicro
        /\ SumOf(inWindow) <= HotDailyMicro

\* consume_approval_cap: what humans approve in any 24 hours, alone or in
\* pairs, stays within withdraw_approve_daily_cap_micro.
ApprovalCap ==
    \A s \in (-Day)..MaxTime :
        SumOf({e[1] : e \in {f \in approved : f[2] \in s..(s + Day)}}) <= ApproveCapMicro

\* A row that is or was approved got the review its reasons call for: no
\* approver only if it has no reason at all, two distinct tokens if it ever
\* met the dual-control threshold while it was being decided.
ApprovalEarned ==
    \A i \in Intent \ PastIntent :
        row[i].combo \in {"W2", "W3", "W10", "W14", "W15"} =>
            /\ row[i].reasons # {} => row[i].by # {}
            /\ "amount_ge_dual" \in row[i].reasons => Cardinality(row[i].by) = 2

\* ensure_send_allowed tightens: a payment that is claimed while its amount is
\* at or above the dual-control threshold in force then has two approvers, and
\* one to a destination that is not warm then has at least one, whatever
\* changed between the decision and the claim.
ClaimMeetsCurrentPolicy ==
    [][\A i \in Intent : row[i].combo = "W2" /\ row'[i].combo = "W3" =>
          /\ AmountOf[i] >= dual => Cardinality(row[i].by) = 2
          /\ ~IsWarm(DestOf[i], time) => row[i].by # {}
          /\ account[UserOf[i]].status # "banned" /\ paused = "no"]_vars

\* "A matching repeat returns the original receipt": once stored, a receipt is
\* never replaced, and an intent is accepted exactly when it has its one row.
ReplayStable ==
    [][\A i \in Intent :
          /\ receipt[i] # None => receipt'[i] = receipt[i]
          /\ (receipt'[i] = "accepted") <=> (row'[i].combo # None)]_vars

\* "a sanctions Hit = dual-control compliance hold on the account": no payment
\* of a user is claimed after a Hit on that user was recorded and before a
\* dual-control command cleared it.
NoSendAfterHit ==
    [][\A i \in Intent : row[i].combo = "W2" /\ row'[i].combo = "W3" => UserOf[i] \notin hits]_vars

\* "because a Clear expires, a long-running withdrawal is re-screened at the
\* moment of sending": an approved row whose only obstacle is that its Clear
\* verdicts have aged can be claimed.
RescreenedAtSend ==
    \A i \in Intent :
        /\ row[i].combo = "W2"
        /\ geo[i].verdict = "clear" /\ sanctions[UserOf[i]].verdict = "clear"
        /\ (LiveReasons(i) \ {"geo_not_clear", "sanctions_not_clear"}) \subseteq row[i].reasons
        /\ account[UserOf[i]].debt = 0
        => EnsureSendAllowed(i)
=============================================================================
