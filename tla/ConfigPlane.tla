----------------------------- MODULE ConfigPlane -----------------------------
(***************************************************************************)
(* The config control plane: direct writes (ops/set_config.rs), two-phase  *)
(* proposals for sensitive keys (ops/proposals.rs), the catalog both check *)
(* a patch against (ops/config.rs), and the reconciler that keeps one      *)
(* snapshot per process (ops/reconciler.rs over pg/ops_config_tx.rs).      *)
(*                                                                         *)
(* Writers serialize on the config_generation row: a transaction waits     *)
(* for it, then reads the entries it validates against.  Readers take no   *)
(* lock and run at READ COMMITTED, so load_snapshot's two SELECTs see two  *)
(* moments.  The catalog is reduced to one key per kind of rule: a fee     *)
(* with a delta limit, a discount bounded by the fee (the largest entry    *)
(* of the tier vector), the AML floor and threshold that a cross-key rule  *)
(* orders, and a pause flag that applies directly.                         *)
(***************************************************************************)
EXTENDS Naturals, Sequences

CONSTANTS
    Admin,            \* the principals (token digests)
    Proposal,         \* proposal idempotency keys
    Asked,            \* proposal -> the patch its creator sends, or [revert |-> generation]
    DirectPatch,      \* the patches sent to SetConfig
    Replica,          \* the processes with a watch snapshot
    Seed,             \* the entries of generation 1
    FeeDelta,         \* per-apply limit on the fee and on the discount
    Factor,           \* per-apply factor of mul_delta
    ProposalLife,     \* proposal_ttl_secs
    MaxGeneration,    \* bound on generations
    MaxMoment,        \* bound on the clock
    MaxRestarts       \* bound on failed loads and process restarts

Key == {"fee", "discount", "floor", "threshold", "paused"}

\* A snapshot's entries.
Entry == [Key -> Nat]

\* What a request may set; an empty patch is refused.
IsPatch(p) == DOMAIN p \in SUBSET Key \ {{}} /\ p \in [DOMAIN p -> Nat]

\* The seed rows satisfy the cross-key rule; a proposal asks for a patch or for
\* the revert of a generation.
ASSUME ConfigAssumption ==
    /\ Seed \in Entry /\ 0 < Seed.floor /\ Seed.floor < Seed.threshold
    /\ \A patch \in DirectPatch : IsPatch(patch)
    /\ \A p \in Proposal : IsPatch(Asked[p]) \/ Asked[p] \in [{"revert"} -> Nat]
    /\ MaxGeneration \in Nat \ {0} /\ MaxMoment \in Nat /\ MaxRestarts \in Nat
    /\ ProposalLife \in Nat

VARIABLES
    snaps,      \* snaps[g]: the entries as generation g left them (config_entries, config_changes)
    proposals,  \* proposal -> NoProposal or its row
    ctx,        \* admin -> NoTx or its open transaction
    drained,    \* the config_reconciler cursor: the newest generation whose event was consumed
    watch,      \* replica -> the installed ConfigSnapshot
    load,       \* replica -> NoLoad or the generation load_snapshot has read
    moment,     \* the clock
    restarts    \* failed loads and restarts so far

configVars == <<snaps, proposals, ctx, drained, watch, load, moment, restarts>>

NoProposal == [status |-> "none"]
NoTx == [phase |-> "none"]
NoLoad == 0

Generation == Len(snaps)
Entries == snaps[Len(snaps)]
Empty == [generation |-> 0, entries |-> Seed]

ConfigInit ==
    /\ snaps = <<Seed>>
    /\ proposals = [p \in Proposal |-> NoProposal]
    /\ ctx = [a \in Admin |-> NoTx]
    /\ drained = 0
    /\ watch = [r \in Replica |-> Empty]
    /\ load = [r \in Replica |-> NoLoad]
    /\ moment = 0
    /\ restarts = 0

-----------------------------------------------------------------------------
\* The catalog: config.rs

Sensitive(k) == k # "paused"

Apart(x, y) == IF x > y THEN x - y ELSE y - x

\* mul_delta: between prior / Factor and prior * Factor; 0 is always legal and
\* from 0 one may return to the seed at most.
MulDelta(prior, new, seed) ==
    \/ new = 0
    \/ prior = 0 /\ new <= seed
    \/ prior > 0 /\ new <= prior * Factor /\ new >= prior \div Factor

\* CatalogRule.check: view holds the prospective values of the other keys and
\* the committed value of k itself.
CheckKey(k, v, view) ==
    CASE k = "fee"       -> v > 0 /\ Apart(v, view.fee) <= FeeDelta
      [] k = "discount"  -> v <= view.fee /\ Apart(v, view.discount) <= FeeDelta
      [] k = "floor"     -> v > 0 /\ MulDelta(view.floor, v, Seed.floor)
      [] k = "threshold" -> v > 0 /\ MulDelta(view.threshold, v, Seed.threshold)
      [] k = "paused"    -> v \in {0, 1}

CrossKeys(e) == 0 < e.floor /\ e.floor < e.threshold

Overlay(patch, e) == [k \in Key |-> IF k \in DOMAIN patch THEN patch[k] ELSE e[k]]

ValidatePatch(current, patch) ==
    /\ \A k \in DOMAIN patch :
          CheckKey(k, patch[k], [Overlay(patch, current) EXCEPT ![k] = current[k]])
    /\ CrossKeys(Overlay(patch, current))

\* revert_patch: the changed keys of a generation back to their old values,
\* pause keys stripped.
Reverted(g) == {k \in Key \ {"paused"} : snaps[g][k] # snaps[g - 1][k]}
RevertPatch(g) == [k \in Reverted(g) |-> snaps[g - 1][k]]
IsRevert(p) == DOMAIN Asked[p] = {"revert"}
CanAsk(p) == IsRevert(p) => Asked[p].revert \in 2..Generation /\ Reverted(Asked[p].revert) # {}
PatchOf(p) == IF IsRevert(p) THEN RevertPatch(Asked[p].revert) ELSE Asked[p]

-----------------------------------------------------------------------------
\* Transactions.  A phase "wait" transaction is blocked on the generation row;
\* the one in phase "hold" has it.

Holds(a) == ctx[a].phase = "hold"
RowLocked(p) == \E a \in Admin : ctx[a].phase # "none" /\ ctx[a].kind = "confirm" /\ ctx[a].id = p

Open(a, kind, id, patch, base) ==
    /\ ctx[a] = NoTx
    /\ ctx' = [ctx EXCEPT ![a] = [phase |-> "wait", kind |-> kind, id |-> id, patch |-> patch,
                                  expected |-> base, base |-> 0, snap |-> Seed]]
    /\ UNCHANGED <<snaps, proposals, drained, watch, load, moment, restarts>>

\* SetConfig::execute up to lock_generation: sensitive keys are refused; the
\* caller may name the generation its preview was made against (0: it does not).
SetConfig(a) ==
    \E patch \in DirectPatch : \E base \in {0, Generation} :
        /\ \A k \in DOMAIN patch : ~Sensitive(k)
        /\ Open(a, "set", "", patch, base)

\* CreateProposal::execute up to lock_generation: a patch of keys that apply
\* directly is refused.  The history behind a revert is read here, before the
\* lock.
CreateProposal(a, p) ==
    /\ CanAsk(p)
    /\ IsRevert(p) \/ \A k \in DOMAIN Asked[p] : Sensitive(k)
    /\ Open(a, "create", p, PatchOf(p), 0)

\* ConfirmProposal::execute up to lock_generation: the row lock, the status,
\* the expiry (settled durably) and the second principal.
ConfirmProposal_OnePrincipal(a, p) ==
    /\ proposals[p].status = "pending"
    /\ ~RowLocked(p)
    /\ moment < proposals[p].expires
    /\ Open(a, "confirm", p, proposals[p].patch, 0)

ConfirmProposal(a, p) ==
    /\ proposals[p].status = "pending"
    /\ ~RowLocked(p)
    /\ moment < proposals[p].expires
    /\ a # proposals[p].proposer
    /\ Open(a, "confirm", p, proposals[p].patch, 0)

\* An expired proposal is settled by whoever confirms or rejects it.
ExpireProposal(p) ==
    /\ proposals[p].status = "pending" /\ ~RowLocked(p)
    /\ moment >= proposals[p].expires
    /\ proposals' = [proposals EXCEPT ![p].status = "expired"]
    /\ UNCHANGED <<snaps, ctx, drained, watch, load, moment, restarts>>

RejectProposal(p) ==
    /\ proposals[p].status = "pending" /\ ~RowLocked(p)
    /\ moment < proposals[p].expires
    /\ proposals' = [proposals EXCEPT ![p].status = "rejected"]
    /\ UNCHANGED <<snaps, ctx, drained, watch, load, moment, restarts>>

\* A mutant: the entries are read when the transaction opens, not under the lock.
LockGeneration_ReadEarlier(a) ==
    /\ ctx[a].phase = "wait"
    /\ \A b \in Admin : ~Holds(b)
    /\ ctx' = [ctx EXCEPT ![a].phase = "hold", ![a].base = Generation]
    /\ UNCHANGED <<snaps, proposals, drained, watch, load, moment, restarts>>

LockGeneration(a) ==
    /\ ctx[a].phase = "wait"
    /\ \A b \in Admin : ~Holds(b)
    /\ ctx' = [ctx EXCEPT ![a].phase = "hold", ![a].base = Generation, ![a].snap = Entries]
    /\ UNCHANGED <<snaps, proposals, drained, watch, load, moment, restarts>>

\* apply_patch_in_tx after the lock: a no-op patch leaves the generation alone.
Valid(t) ==
    /\ t.expected \in {0, t.base}
    /\ ValidatePatch(t.snap, t.patch)

ApplyPatch(t) ==
    snaps' = IF Overlay(t.patch, t.snap) = t.snap THEN snaps
             ELSE Append(snaps, Overlay(t.patch, Entries))

CommitSet(a) ==
    LET t == ctx[a] IN
    /\ Holds(a) /\ t.kind = "set" /\ Valid(t)
    /\ Generation < MaxGeneration
    /\ ApplyPatch(t)
    /\ ctx' = [ctx EXCEPT ![a] = NoTx]
    /\ UNCHANGED <<proposals, drained, watch, load, moment, restarts>>

CommitCreate(a) ==
    LET t == ctx[a] IN
    /\ Holds(a) /\ t.kind = "create"
    /\ ValidatePatch(t.snap, t.patch)
    /\ proposals[t.id] = NoProposal
    /\ proposals' = [proposals EXCEPT ![t.id] =
                        [status |-> "pending", patch |-> t.patch, proposer |-> a,
                         confirmer |-> "", expires |-> moment + ProposalLife]]
    /\ ctx' = [ctx EXCEPT ![a] = NoTx]
    /\ UNCHANGED <<snaps, drained, watch, load, moment, restarts>>

CommitConfirm(a) ==
    LET t == ctx[a] IN
    /\ Holds(a) /\ t.kind = "confirm" /\ Valid(t)
    /\ Generation < MaxGeneration
    /\ ApplyPatch(t)
    /\ proposals' = [proposals EXCEPT ![t.id].status = "confirmed", ![t.id].confirmer = a]
    /\ ctx' = [ctx EXCEPT ![a] = NoTx]
    /\ UNCHANGED <<drained, watch, load, moment, restarts>>

\* Any error after the transaction opened (a stale base, an invalid patch, an
\* existing idempotency key, a lost connection) rolls it back.
Rollback(a) ==
    /\ ctx[a] # NoTx
    /\ ctx' = [ctx EXCEPT ![a] = NoTx]
    /\ UNCHANGED <<snaps, proposals, drained, watch, load, moment, restarts>>

PassMoment ==
    /\ moment < MaxMoment
    /\ moment' = moment + 1
    /\ UNCHANGED <<snaps, proposals, ctx, drained, watch, load, restarts>>

-----------------------------------------------------------------------------
\* The reconciler of one process.

\* load_snapshot's first SELECT.
ReadGeneration(r) == load' = [load EXCEPT ![r] = Generation]

\* tick(heal = false): drain_wakeups moves the cursor all replicas share, and
\* only the replica that saw the event reloads.
WakeTick(r) ==
    /\ load[r] = NoLoad
    /\ drained < Generation
    /\ drained' = Generation
    /\ ReadGeneration(r)
    /\ UNCHANGED <<snaps, proposals, ctx, watch, moment, restarts>>

\* A mutant: no heal tick.
HealTick_Never(r) ==
    /\ FALSE
    /\ UNCHANGED configVars

\* tick(heal = true), every 150 polls, and the first load of a process.
HealTick(r) ==
    /\ load[r] = NoLoad
    /\ drained' = Generation
    /\ ReadGeneration(r)
    /\ UNCHANGED <<snaps, proposals, ctx, watch, moment, restarts>>

\* A mutant: the entries are read first and the generation second.
FinishLoad_EntriesFirst(r) ==
    /\ load[r] # NoLoad
    /\ load' = [load EXCEPT ![r] = NoLoad]
    /\ watch' = IF Generation <= watch[r].generation THEN watch
                ELSE [watch EXCEPT ![r] = [generation |-> Generation, entries |-> snaps[load[r]]]]
    /\ UNCHANGED <<snaps, proposals, ctx, drained, moment, restarts>>

\* load_snapshot's second SELECT, and the install when the generation is newer.
FinishLoad(r) ==
    /\ load[r] # NoLoad
    /\ load' = [load EXCEPT ![r] = NoLoad]
    /\ watch' = IF load[r] <= watch[r].generation THEN watch
                ELSE [watch EXCEPT ![r] = [generation |-> load[r], entries |-> Entries]]
    /\ UNCHANGED <<snaps, proposals, ctx, drained, moment, restarts>>

\* The load fails after the drain consumed the wake-up; the next heal covers it.
LoadFails(r) ==
    /\ restarts < MaxRestarts
    /\ load[r] # NoLoad
    /\ restarts' = restarts + 1
    /\ load' = [load EXCEPT ![r] = NoLoad]
    /\ UNCHANGED <<snaps, proposals, ctx, drained, watch, moment>>

Restart(r) ==
    /\ restarts < MaxRestarts
    /\ watch[r] # Empty
    /\ restarts' = restarts + 1
    /\ watch' = [watch EXCEPT ![r] = Empty]
    /\ load' = [load EXCEPT ![r] = NoLoad]
    /\ UNCHANGED <<snaps, proposals, ctx, drained, moment>>

\* What an operator does alone, what two do together, and the reconcilers.
DirectNext ==
    \E a \in Admin : SetConfig(a) \/ LockGeneration(a) \/ CommitSet(a) \/ Rollback(a)

ProposalNext ==
    \/ \E a \in Admin :
        \/ \E p \in Proposal : CreateProposal(a, p) \/ ConfirmProposal(a, p)
        \/ CommitCreate(a) \/ CommitConfirm(a)
    \/ \E p \in Proposal : ExpireProposal(p) \/ RejectProposal(p)
    \/ PassMoment

WatchNext ==
    \E r \in Replica :
        WakeTick(r) \/ HealTick(r) \/ FinishLoad(r) \/ LoadFails(r) \/ Restart(r)

ConfigNext == DirectNext \/ ProposalNext \/ WatchNext

ConfigSpec == ConfigInit /\ [][ConfigNext]_configVars

-----------------------------------------------------------------------------
\* The cross-key rule holds of every committed snapshot, although a proposal
\* was validated when it was made and other writers moved the other key since:
\* confirm validates again against the entries read under the generation lock
\* (apply_patch_in_tx).
CrossKeysHold == \A g \in 1..Generation : CrossKeys(snaps[g])

\* A sensitive key changes only in the step that confirms a pending proposal
\* that asks for it, by a principal other than its proposer (proposals.rs,
\* set_config.rs).
SensitiveNeedsTwo ==
    [][\A k \in Key : Sensitive(k) /\ snaps'[Len(snaps')][k] # Entries[k] =>
          \E p \in Proposal :
              /\ proposals[p].status = "pending" /\ proposals'[p].status = "confirmed"
              /\ proposals'[p].confirmer # proposals[p].proposer
              /\ k \in DOMAIN proposals[p].patch]_configVars

\* A replica's entries are never older than the generation it reports: the
\* generation is read first, so a write between the two reads leaves a newer
\* entry set that the next reload replaces, never an older one it would keep
\* (load_snapshot, reconcile).
SnapshotNotBehind ==
    \A r \in Replica : watch[r].generation > 0 =>
        \E g \in watch[r].generation..Generation : watch[r].entries = snaps[g]

\* Once configuration stops changing every replica serves it, although the
\* wake-up cursor is shared and each event wakes one replica (reconciler.rs:
\* a missed wake-up can delay a reload, never lose it).
WatchCatchesUp ==
    \A r \in Replica :
        <>[](watch[r].generation = Generation /\ watch[r].entries = Entries)

\* ops_config_tx.rs, load_snapshot: "One transaction: the generation and the
\* entry set are consistent."
SnapshotExact ==
    \A r \in Replica : watch[r].generation > 0 =>
        watch[r].entries = snaps[watch[r].generation]

\* config.rs, check_discounts: each entry is in [0, prospective trade_fee_bps].
DiscountWithinFee == Entries.discount <= Entries.fee
=============================================================================
