----------------------------- MODULE Compliance -----------------------------
(***************************************************************************)
(* The compliance commands: money/statuses.rs, self_exclusion.rs, kyc.rs   *)
(* and phone_verification.rs over pg/compliance_tx.rs.  A user's status,   *)
(* self-exclusion, flags, deposit limit, identity tier and telephone are   *)
(* written here and read by the gates of the money paths (pg/credit_tx.rs).*)
(*                                                                         *)
(* A request reads its clock before it opens a transaction, and what it    *)
(* reads before its first lock may be old when it writes: such a request   *)
(* is two steps, with its `visit` in between.  A request that takes the    *)
(* user's row lock before it reads anything is one step.                   *)
(***************************************************************************)
EXTENDS Naturals, Sequences, FiniteSets

CONSTANTS
    Person,        \* users
    Token,         \* admin tokens
    Visitor,       \* requests that may be open at once
    Epoch,         \* the epochs operators put into a status proposal
    ExclusionId, FlagId, LicenseId,
    Number,        \* telephone numbers
    EventId,       \* the provider's event ids
    Payload,       \* delivery bodies: each is a tier
    LimitValue,
    BanDelay, FrozenDelay, ConfirmSpan, CoolingOff, RaiseDelay, ChallengeLife,
    PhoneTries,    \* PHONE_MAX_ATTEMPTS
    MaxDay,        \* bound on the clock
    MaxAsks,       \* bound on deposit-limit requests
    MaxKyc,        \* bound on KYC events
    MaxCodes       \* bound on telephone codes

ASSUME ComplianceAssumption ==
    /\ {BanDelay, FrozenDelay, ConfirmSpan, RaiseDelay, ChallengeLife} \subseteq Nat
    /\ CoolingOff \in Nat \ {0} /\ PhoneTries \in Nat
    /\ LimitValue \subseteq Nat /\ Payload \subseteq 0..2

VARIABLES
    today,
    standing,   \* users.status
    ticket,     \* money_command_proposals, by replay key
    excl,       \* self_exclusions
    flagged,    \* aml_flags
    cap,        \* user_deposit_limits
    tier,       \* users.kyc_tier
    kycLog,     \* kyc_events, in the order of their commits
    inbox,      \* the payload accepted for each event id, if any
    phone,      \* phone_verifications, by number
    codes,      \* how many codes have been issued
    visit,      \* open requests that have read and not yet committed
    applied,    \* history: how often a proposal took effect
    asks        \* history: deposit-limit requests in the order of their commits

factVars == <<standing, excl, flagged, tier, kycLog, inbox>>
phoneVars == <<phone, codes>>
complianceVars == <<today, ticket, applied, factVars, cap, asks, phoneVars, visit>>

-----------------------------------------------------------------------------
StatusKey == {"status"} \X Person \X Epoch
LiftKey == {"lift"} \X ExclusionId
ClearKey == {"clear"} \X FlagId
LicenseKey == {"license"} \X LicenseId
TicketKey == StatusKey \cup LiftKey \cup ClearKey \cup LicenseKey

NoTicket == [kind |-> "none", by |-> "none", status |-> "none", after |-> 0, until |-> 0]
NoExclusion == [user |-> "none", until |-> 0, lifted |-> "no"]
NoCap == [value |-> 0, pending |-> "none", raise |-> 0, at |-> 0]
NoPhone == [owner |-> "none", until |-> 0, tries |-> 0, verified |-> "no"]
NoVisit == [op |-> "none"]

ComplianceInit ==
    /\ today = 0
    /\ standing = [u \in Person |-> "active"]
    /\ ticket = [k \in TicketKey |-> NoTicket] /\ applied = [k \in TicketKey |-> 0]
    /\ excl = [x \in ExclusionId |-> NoExclusion]
    /\ flagged = [f \in FlagId |-> "none"]
    /\ cap = [u \in Person |-> NoCap] /\ asks = <<>>
    /\ tier = [u \in Person |-> 0] /\ kycLog = <<>>
    /\ inbox = [e \in EventId |-> {}]
    /\ phone = [n \in Number |-> NoPhone] /\ codes = 0
    /\ visit = [v \in Visitor |-> NoVisit]

Enters(v, r) == visit[v] = NoVisit /\ visit' = [visit EXCEPT ![v] = r]
Leaves(v) == visit' = [visit EXCEPT ![v] = NoVisit]

\* The process or the connection dies: the open transaction is rolled back.
Abandoned(v) ==
    /\ visit[v] # NoVisit
    /\ Leaves(v)
    /\ UNCHANGED <<today, ticket, applied, factVars, cap, asks, phoneVars>>

DayPasses ==
    /\ today < MaxDay
    /\ today' = today + 1
    /\ UNCHANGED <<ticket, applied, factVars, cap, asks, phoneVars, visit>>

-----------------------------------------------------------------------------
\* Proposals.  A replay key that is taken answers with the existing row, or
\* with a conflict, whatever became of that row.

NewProposal(k, kind, t, delay) ==
    /\ ticket[k] = NoTicket
    /\ ticket' = [ticket EXCEPT ![k] =
          [kind |-> kind, by |-> t, status |-> "pending",
           after |-> today + delay, until |-> today + delay + ConfirmSpan]]

ProposeStatus(t, u, e, kind) ==
    /\ NewProposal(<<"status", u, e>>, kind, t, BanDelay)
    /\ UNCHANGED <<today, applied, factVars, cap, asks, phoneVars, visit>>

CooledOff(x) == today >= excl[x].until

ProposeLift(t, x) ==
    /\ excl[x] # NoExclusion /\ CooledOff(x) /\ excl[x].lifted = "no"
    /\ NewProposal(<<"lift", x>>, "lift", t, 0)
    /\ UNCHANGED <<today, applied, factVars, cap, asks, phoneVars, visit>>

ProposeClear(t, f) ==
    /\ flagged[f] = "open"
    /\ NewProposal(<<"clear", f>>, "clear", t, 0)
    /\ UNCHANGED <<today, applied, factVars, cap, asks, phoneVars, visit>>

ProposeLicense(t, l) ==
    /\ NewProposal(<<"license", l>>, "license", t, FrozenDelay)
    /\ UNCHANGED <<today, applied, factVars, cap, asks, phoneVars, visit>>

\* confirm_status, confirm_lift, confirm_clear_flag, confirm_frozen_license up
\* to their first write: the proposal is read without a lock.
ReadProposal(v, t, k) ==
    /\ ticket[k].status = "pending" /\ ticket[k].by # t
    /\ today \in ticket[k].after .. ticket[k].until
    /\ k \in LiftKey => CooledOff(k[2])
    /\ Enters(v, [op |-> "confirm", key |-> k, kind |-> ticket[k].kind])
    /\ UNCHANGED <<today, ticket, applied, factVars, cap, asks, phoneVars>>

\* What each confirmation does after its compare-and-set.
ConfirmStatus(k, kind) ==
    /\ k \in StatusKey
    /\ standing' = [standing EXCEPT ![k[2]] = IF kind = "ban" THEN "banned" ELSE "active"]
    /\ UNCHANGED <<excl, flagged>>

ConfirmLift(k) ==
    /\ k \in LiftKey
    /\ excl' = [excl EXCEPT ![k[2]].lifted = "yes"]
    /\ UNCHANGED <<standing, flagged>>

ConfirmClear(k) ==
    /\ k \in ClearKey
    /\ flagged' = [flagged EXCEPT ![k[2]] = "cleared"]
    /\ UNCHANGED <<standing, excl>>

\* A license is issued; nothing else of this module depends on it.
ConfirmLicense(k) ==
    /\ k \in LicenseKey
    /\ UNCHANGED <<standing, excl, flagged>>

\* What confirm_proposal reads back is not looked at, so the effect follows
\* even when another request has confirmed.
ApplyConfirmation(v) ==
    /\ visit[v].op = "confirm"
    /\ LET k == visit[v].key IN
        /\ ticket' = [ticket EXCEPT ![k].status = "confirmed"]
        /\ applied' = [applied EXCEPT ![k] = @ + 1]
        /\ ConfirmStatus(k, visit[v].kind) \/ ConfirmLift(k) \/ ConfirmClear(k) \/ ConfirmLicense(k)
    /\ Leaves(v)
    /\ UNCHANGED <<today, tier, kycLog, inbox, cap, asks, phoneVars>>

-----------------------------------------------------------------------------
\* Status, self-exclusion and flags under the user's row lock.

\* set_shadow
SetShadow(u, s) ==
    /\ standing' = [standing EXCEPT ![u] = s]
    /\ UNCHANGED <<today, ticket, applied, excl, flagged, tier, kycLog, inbox, cap, asks,
                   phoneVars, visit>>

Unlifted(u) == {x \in ExclusionId : excl[x].user = u /\ excl[x].lifted = "no"}

StartSelfExclusion(u, x) ==
    /\ excl[x] = NoExclusion
    /\ Unlifted(u) = {}
    /\ excl' = [excl EXCEPT ![x] = [user |-> u, until |-> today + CoolingOff, lifted |-> "no"]]
    /\ UNCHANGED <<today, ticket, applied, standing, flagged, tier, kycLog, inbox, cap, asks,
                   phoneVars, visit>>

\* A rule of evaluate_at_request or a sanctions hit opens a flag.
OpenFlag(f) ==
    /\ flagged[f] = "none"
    /\ flagged' = [flagged EXCEPT ![f] = "open"]
    /\ UNCHANGED <<today, ticket, applied, standing, excl, tier, kycLog, inbox, cap, asks,
                   phoneVars, visit>>

\* self_excluded, as trades, votes, grants and admissions read it.
SelfExcluded(u) == \E x \in Unlifted(u) : excl[x].until > today

-----------------------------------------------------------------------------
\* Deposit limits.

\* effective_deposit_limit, and deposit_limit_micro of the gates
Effective(c, now) == IF c.pending = "yes" /\ now >= c.at THEN c.raise ELSE c.value

\* deposit_limit_after_write; a mutant that leaves an older raise pending
LimitAfterWrite_KeepsRaise(c, requested, now) ==
    IF c.pending # "none" /\ requested > Effective(c, now)
    THEN [value |-> Effective(c, now), pending |-> "yes", raise |-> requested, at |-> now + RaiseDelay]
    ELSE [c EXCEPT !.value = requested, !.pending = IF @ = "none" THEN "no" ELSE @]

LimitAfterWrite(c, requested, now) ==
    IF c.pending # "none" /\ requested > Effective(c, now)
    THEN [value |-> Effective(c, now), pending |-> "yes", raise |-> requested, at |-> now + RaiseDelay]
    ELSE [value |-> requested, pending |-> "no", raise |-> 0, at |-> 0]

\* set_deposit_limit: the clock is read, then the user's row lock is waited for.
AskLimit(v, u, n) ==
    /\ Enters(v, [op |-> "limit", user |-> u, value |-> n, now |-> today])
    /\ UNCHANGED <<today, ticket, applied, factVars, cap, asks, phoneVars>>

SetDepositLimit(v) ==
    /\ visit[v].op = "limit" /\ Len(asks) < MaxAsks
    /\ cap' = [cap EXCEPT ![visit[v].user] = LimitAfterWrite(@, visit[v].value, visit[v].now)]
    /\ asks' = Append(asks, [user |-> visit[v].user, value |-> visit[v].value, at |-> visit[v].now])
    /\ Leaves(v)
    /\ UNCHANGED <<today, ticket, applied, factVars, phoneVars>>

-----------------------------------------------------------------------------
\* Identity.

\* apply_kyc_event and persist_kyc_event
KycEffect(u, to, now) ==
    /\ Len(kycLog) < MaxKyc
    /\ kycLog' = Append(kycLog, [user |-> u, to |-> to, at |-> now])
    /\ tier' = [tier EXCEPT ![u] = to]

\* A delivery of the provider, or the staging completion, which has no event id.
ReceiveKyc(v, u, e, p) ==
    /\ Enters(v, [op |-> "kyc", user |-> u, event |-> e, to |-> p, now |-> today])
    /\ UNCHANGED <<today, ticket, applied, factVars, cap, asks, phoneVars>>

CompleteKyc(v, u) ==
    /\ Enters(v, [op |-> "sandbox", user |-> u, to |-> 2, now |-> today])
    /\ UNCHANGED <<today, ticket, applied, factVars, cap, asks, phoneVars>>

\* accept_and_apply_inboxed_kyc under the lock of the event's key: a new event
\* is recorded together with its effect, a replay or a conflict writes nothing.
AcceptKyc(v) ==
    /\ visit[v].op = "kyc"
    /\ \/ /\ inbox[visit[v].event] = {}
          /\ inbox' = [inbox EXCEPT ![visit[v].event] = {visit[v].to}]
          /\ KycEffect(visit[v].user, visit[v].to, visit[v].now)
       \/ /\ inbox[visit[v].event] # {}
          /\ UNCHANGED <<inbox, kycLog, tier>>
    /\ Leaves(v)
    /\ UNCHANGED <<today, ticket, applied, standing, excl, flagged, cap, asks, phoneVars>>

\* apply_inboxed_kyc for sandbox_complete_full
ApplyKyc(v) ==
    /\ visit[v].op = "sandbox"
    /\ KycEffect(visit[v].user, visit[v].to, visit[v].now)
    /\ Leaves(v)
    /\ UNCHANGED <<today, ticket, applied, standing, excl, flagged, inbox, cap, asks, phoneVars>>

-----------------------------------------------------------------------------
\* Telephone numbers.

\* active_phone_challenge: the user's row that expires last
ActivePhone(u) ==
    LET mine == {n \in Number : phone[n].owner = u}
    IN  {n \in mine : \A m \in mine : phone[m].until <= phone[n].until}

\* start_challenge under the user's row lock: a fresh row, or the account's own
\* expired row armed again.  The provider is called after the commit.
StartChallenge(u, n) ==
    /\ codes < MaxCodes
    /\ ActivePhone(u) = {} \/ \E a \in ActivePhone(u) : phone[a].verified = "yes" \/ phone[a].until <= today
    /\ phone[n] = NoPhone \/ (phone[n].owner = u /\ phone[n].verified = "no")
    /\ codes' = codes + 1
    /\ phone' = [phone EXCEPT ![n] = [owner |-> u, until |-> today + ChallengeLife,
                                      tries |-> 0, verified |-> "no"]]
    /\ UNCHANGED <<today, ticket, applied, factVars, cap, asks, visit>>

\* verify_challenge up to its first write
ReadChallenge(v, u, n) ==
    /\ n \in ActivePhone(u)
    /\ phone[n].verified = "no" /\ phone[n].until > today
    /\ Enters(v, [op |-> "verify", number |-> n])
    /\ UNCHANGED <<today, ticket, applied, factVars, cap, asks, phoneVars>>

\* consume_phone_attempt, the comparison with the code read before, and
\* mark_phone_verified; an exhausted challenge is refused and stays as it is.
VerifyChallenge(v, right) ==
    /\ visit[v].op = "verify"
    /\ LET n == visit[v].number IN
       \/ /\ phone[n].tries < PhoneTries
          /\ phone' = [phone EXCEPT ![n].tries = @ + 1,
                                    ![n].verified = IF right THEN "yes" ELSE @]
       \/ /\ phone[n].tries >= PhoneTries
          /\ UNCHANGED phone
    /\ Leaves(v)
    /\ UNCHANGED <<today, ticket, applied, factVars, cap, asks, codes>>

-----------------------------------------------------------------------------
\* The families of commands, for a set P of users; they meet only in the clock
\* and the open requests.

ClockNext == DayPasses \/ \E v \in Visitor : Abandoned(v)

ConfirmNext ==
    \E v \in Visitor : ApplyConfirmation(v) \/ \E t \in Token, k \in TicketKey : ReadProposal(v, t, k)

StatusNext(P) ==
    \/ \E t \in Token, u \in P, e \in Epoch, kind \in {"ban", "unban"} : ProposeStatus(t, u, e, kind)
    \/ \E u \in P, s \in {"shadow_limited", "active"} : SetShadow(u, s)

ExclusionNext(P) ==
    \/ \E t \in Token, x \in ExclusionId : ProposeLift(t, x)
    \/ \E u \in P, x \in ExclusionId : StartSelfExclusion(u, x)

HoldNext ==
    \/ \E t \in Token : \/ \E f \in FlagId : ProposeClear(t, f)
                        \/ \E l \in LicenseId : ProposeLicense(t, l)
    \/ \E f \in FlagId : OpenFlag(f)

LimitNext(P) ==
    \E v \in Visitor : SetDepositLimit(v) \/ \E u \in P, n \in LimitValue : AskLimit(v, u, n)

KycNext(P) ==
    \E v \in Visitor :
        \/ \E u \in P : CompleteKyc(v, u) \/ \E e \in EventId, p \in Payload : ReceiveKyc(v, u, e, p)
        \/ AcceptKyc(v) \/ ApplyKyc(v)

PhoneNext(P) ==
    \/ \E u \in P, n \in Number : StartChallenge(u, n) \/ \E v \in Visitor : ReadChallenge(v, u, n)
    \/ \E v \in Visitor, right \in BOOLEAN : VerifyChallenge(v, right)

-----------------------------------------------------------------------------
\* Properties.

\* deposit_limit_after_write: "Lowering is immediate; raising is delayed 24h."
\* Whatever requests cross, the limit the gates enforce exceeds an amount a
\* user has asked for only if a later request for that much is a day old.
RaiseWaits ==
    \A i \in DOMAIN asks :
        LET limit == Effective(cap[asks[i].user], today) IN
        limit > asks[i].value =>
            \E j \in DOMAIN asks :
                /\ j > i /\ asks[j].user = asks[i].user
                /\ asks[j].value >= limit /\ asks[j].at + RaiseDelay <= today

\* start_self_exclusion: a user has at most one exclusion that is not lifted,
\* although lifts are confirmed without the user's lock, so the gates that read
\* the latest one read the only one.
OneExclusion == \A u \in Person : Cardinality(Unlifted(u)) <= 1

\* "one verified phone number can only ever be bound to one account": no later
\* challenge, late comparison or retry takes a verified number away.
BoundForGood ==
    [][\A n \in Number : phone[n].verified = "yes" =>
          phone'[n].verified = "yes" /\ phone'[n].owner = phone[n].owner]_complianceVars

\* start_self_exclusion: "An unlifted exclusion is in force whether or not its
\* cooling-off has elapsed": the gates refuse a user whose exclusion nobody has
\* lifted.
ExclusionInForce == \A u \in Person : Unlifted(u) # {} => SelfExcluded(u)

\* "expiry only makes a lift proposable": an exclusion that has cooled off and
\* is not lifted can be proposed for lifting, or its proposal confirmed.
LiftStaysPossible ==
    \A x \in ExclusionId :
        excl[x] # NoExclusion /\ CooledOff(x) /\ excl[x].lifted = "no" =>
            ticket[<<"lift", x>>] = NoTicket \/ today <= ticket[<<"lift", x>>].until

\* "Propose a ban (ops) or unban (ops). Confirm is superadmin, 15 min delay.":
\* a banned user leaves that status only by a confirmed proposal.
UnbanNeedsTwo ==
    [][\A u \in Person : standing[u] = "banned" /\ standing'[u] # "banned" =>
          \E e \in Epoch : applied'[<<"status", u, e>>] > applied[<<"status", u, e>>]]_complianceVars

\* "A second confirmer arriving after the effect already committed reads back
\* the first confirmation instead of creating a second effect."
OneEffect == \A k \in TicketKey : applied[k] <= 1

\* latest_kyc and users.kyc_tier, which the same transaction writes, agree.
TierIsLatest ==
    \A u \in Person :
        LET mine == {i \in DOMAIN kycLog : kycLog[i].user = u}
        IN  mine # {} => \E i \in mine : /\ kycLog[i].to = tier[u]
                                         /\ \A j \in mine : kycLog[j].at <= kycLog[i].at
=============================================================================
