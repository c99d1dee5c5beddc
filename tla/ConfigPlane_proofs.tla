------------------------- MODULE ConfigPlane_proofs --------------------------
(***************************************************************************)
(* Proofs about the config control plane, for any number of principals,    *)
(* proposals, processes and generations.  The invariant says what the two  *)
(* locks give: the one transaction that holds the generation row has read  *)
(* the entries it will change, and an open confirmation has the proposal   *)
(* as it stands.                                                           *)
(***************************************************************************)
EXTENDS ConfigPlane, SequenceTheorems, TLAPS

Patch == UNION {[K -> Nat] : K \in SUBSET Key}

Tx == [phase : {"wait", "hold"}, kind : {"set", "create", "confirm"}, id : Proposal \cup {""},
       patch : Patch, expected : Nat, base : Nat, snap : Entry]

Row == [status : {"pending", "confirmed", "rejected", "expired"}, patch : Patch,
        proposer : Admin, confirmer : Admin \cup {""}, expires : Nat]

ConfigTypeOK ==
    /\ snaps \in Seq(Entry) /\ Len(snaps) > 0
    /\ ctx \in [Admin -> Tx \cup {NoTx}]
    /\ proposals \in [Proposal -> Row \cup {NoProposal}]
    /\ moment \in Nat

\* The generation row: one holder, whose entries are the committed ones.
LockInv ==
    \A a \in Admin : Holds(a) =>
        /\ ctx[a].snap = Entries
        /\ \A b \in Admin : Holds(b) => a = b

\* The proposal row: a confirmation works on a pending proposal of another
\* principal, alone.
ConfirmInv ==
    \A a \in Admin : ctx[a] # NoTx /\ ctx[a].kind = "confirm" =>
        /\ ctx[a].id \in Proposal
        /\ proposals[ctx[a].id].status = "pending"
        /\ proposals[ctx[a].id].patch = ctx[a].patch
        /\ proposals[ctx[a].id].proposer # a
        /\ \A b \in Admin : ctx[b] # NoTx /\ ctx[b].kind = "confirm" /\ ctx[b].id = ctx[a].id => a = b

\* A direct write touches no sensitive key; a creation names a proposal.
KindInv ==
    \A a \in Admin : ctx[a] # NoTx =>
        /\ ctx[a].kind = "set" => \A k \in DOMAIN ctx[a].patch : ~Sensitive(k)
        /\ ctx[a].kind = "create" => ctx[a].id \in Proposal

WriteInv == ConfigTypeOK /\ LockInv /\ ConfirmInv /\ KindInv /\ CrossKeysHold

-----------------------------------------------------------------------------
(* What the operators return *)

LEMMA Phases ==
  ASSUME ConfigTypeOK, NEW a \in Admin
  PROVE  /\ ctx[a] = NoTx \/ ctx[a] \in Tx
         /\ ctx[a] = NoTx => ctx[a].phase = "none"
         /\ ctx[a] \in Tx => ctx[a].phase \in {"wait", "hold"}
         /\ (ctx[a].phase # "none") <=> (ctx[a] \in Tx)
         /\ (ctx[a] # NoTx) <=> (ctx[a] \in Tx)
  <1>1. NoTx.phase = "none"
    BY DEF NoTx
  <1>2. \A t \in Tx : t.phase \in {"wait", "hold"}
    BY DEF Tx
  <1>3. ctx[a] = NoTx \/ ctx[a] \in Tx
    BY DEF ConfigTypeOK
  <1> QED
    BY <1>1, <1>2, <1>3

LEMMA EntriesType ==
  ASSUME ConfigTypeOK
  PROVE  /\ Generation \in Nat \ {0} /\ Entries \in Entry
         /\ \A g \in 1..Generation : snaps[g] \in Entry
  BY LenProperties, ElementOfSeq DEF ConfigTypeOK, Generation, Entries

LEMMA OverlayType ==
  ASSUME NEW patch \in Patch, NEW e \in Entry
  PROVE  /\ Overlay(patch, e) \in Entry
         /\ \A k \in Key : k \notin DOMAIN patch => Overlay(patch, e)[k] = e[k]
  BY DEF Patch, Entry, Overlay

LEMMA IsPatchType ==
  ASSUME NEW p, IsPatch(p)
  PROVE  p \in Patch
  BY DEF IsPatch, Patch

LEMMA RevertType ==
  ASSUME ConfigTypeOK, NEW g \in 2..Generation
  PROVE  RevertPatch(g) \in Patch
  <1>1. snaps[g - 1] \in Entry
    <2>1. g - 1 \in 1..Generation
      BY EntriesType
    <2> QED
      BY <2>1, EntriesType
  <1>2. Reverted(g) \in SUBSET Key
    BY DEF Reverted
  <1>3. RevertPatch(g) \in [Reverted(g) -> Nat]
    BY <1>1, <1>2 DEF RevertPatch, Entry
  <1> QED
    BY <1>2, <1>3 DEF Patch

LEMMA PatchOfType ==
  ASSUME ConfigTypeOK, NEW p \in Proposal, CanAsk(p)
  PROVE  PatchOf(p) \in Patch
  <1>1. CASE IsRevert(p)
    BY <1>1, RevertType DEF CanAsk, PatchOf
  <1>2. CASE ~IsRevert(p)
    <2>1. Asked[p] \in Patch
      BY <1>2, ConfigAssumption, IsPatchType DEF IsRevert
    <2> QED
      BY <1>2, <2>1 DEF PatchOf
  <1> QED
    BY <1>1, <1>2

\* What a commit does to the history: nothing, or one more snapshot.
LEMMA ApplyPatchGrows ==
  ASSUME ConfigTypeOK, LockInv, NEW a \in Admin, Holds(a), ApplyPatch(ctx[a]),
         ValidatePatch(ctx[a].snap, ctx[a].patch)
  PROVE  /\ snaps' \in Seq(Entry) /\ Len(snaps') > 0
         /\ \/ snaps' = snaps
            \/ snaps' = Append(snaps, Overlay(ctx[a].patch, Entries))
         /\ CrossKeys(Overlay(ctx[a].patch, Entries))
  <1>1. ctx[a] \in Tx /\ ctx[a].snap = Entries /\ ctx[a].patch \in Patch
    BY Phases DEF LockInv, Holds, Tx
  <1>2. Overlay(ctx[a].patch, Entries) \in Entry
    BY <1>1, EntriesType, OverlayType
  <1>3. Append(snaps, Overlay(ctx[a].patch, Entries)) \in Seq(Entry)
    BY <1>2, AppendProperties DEF ConfigTypeOK
  <1>4. Len(Append(snaps, Overlay(ctx[a].patch, Entries))) > 0
    BY <1>2, AppendProperties, EntriesType DEF ConfigTypeOK, Generation
  <1>5. \/ snaps' = snaps
        \/ snaps' = Append(snaps, Overlay(ctx[a].patch, Entries))
    BY DEF ApplyPatch
  <1> QED
    BY <1>1, <1>3, <1>4, <1>5 DEF ConfigTypeOK, ValidatePatch

\* History only grows at its end.
Grows ==
    \/ snaps' = snaps
    \/ \E e \in Entry : snaps' = Append(snaps, e)

LEMMA GrowsKeeps ==
  ASSUME ConfigTypeOK, Grows
  PROVE  /\ Generation' \in Nat /\ Generation' >= Generation
         /\ \A g \in 1..Generation : snaps'[g] = snaps[g]
         /\ \A e \in Entry : snaps' = Append(snaps, e) =>
                /\ Generation' = Generation + 1 /\ snaps'[Generation'] = e
  BY EntriesType, AppendProperties DEF ConfigTypeOK, Grows, Generation

-----------------------------------------------------------------------------
(* Steps that commit nothing *)

\* A transaction opens: it waits for the generation row.
LEMMA OpenInv ==
  ASSUME WriteInv, NEW a \in Admin, NEW kind \in {"set", "create", "confirm"},
         NEW id \in Proposal \cup {""}, NEW patch \in Patch, NEW base \in Nat,
         Open(a, kind, id, patch, base),
         kind = "set" => \A k \in DOMAIN patch : ~Sensitive(k),
         kind = "create" => id \in Proposal,
         kind = "confirm" => /\ id \in Proposal /\ ~RowLocked(id)
                             /\ proposals[id].status = "pending"
                             /\ proposals[id].patch = patch /\ proposals[id].proposer # a
  PROVE  WriteInv'
  <1> DEFINE t == [phase |-> "wait", kind |-> kind, id |-> id, patch |-> patch,
                   expected |-> base, base |-> 0, snap |-> Seed]
  <1>1. /\ ctx[a] = NoTx /\ ctx' = [ctx EXCEPT ![a] = t]
        /\ UNCHANGED <<snaps, proposals, moment>>
    BY DEF Open
  <1>2. /\ t \in Tx /\ t.phase = "wait" /\ t.kind = kind /\ t.id = id /\ t.patch = patch /\ t # NoTx
    BY ConfigAssumption DEF Tx, NoTx
  <1> HIDE DEF t
  <1>3. ctx'[a] = t /\ \A b \in Admin \ {a} : ctx'[b] = ctx[b]
    BY <1>1 DEF WriteInv, ConfigTypeOK
  <1>4. ConfigTypeOK'
    BY <1>1, <1>2 DEF WriteInv, ConfigTypeOK
  <1>5. LockInv'
    <2>1. \A b \in Admin : Holds(b)' => Holds(b) /\ ctx'[b] = ctx[b]
      BY <1>2, <1>3 DEF Holds
    <2>2. Entries' = Entries
      BY <1>1 DEF Entries
    <2> QED
      BY <2>1, <2>2 DEF WriteInv, LockInv
  <1>6. KindInv'
    BY <1>2, <1>3 DEF WriteInv, KindInv
  <1>7. CrossKeysHold'
    BY <1>1 DEF WriteInv, CrossKeysHold, Generation
  <1>8. ConfirmInv'
    <2>1. kind = "confirm" => \A b \in Admin : ctx[b] # NoTx /\ ctx[b].kind = "confirm" => ctx[b].id # id
      BY Phases DEF RowLocked, WriteInv
    <2>2. ASSUME NEW b \in Admin, ctx'[b] # NoTx, ctx'[b].kind = "confirm", b # a
          PROVE  /\ ctx[b] # NoTx /\ ctx[b].kind = "confirm" /\ ctx[b].id = ctx'[b].id
                 /\ ctx[b].patch = ctx'[b].patch
      BY <1>3, <2>2
    <2>3. ASSUME kind = "confirm"
          PROVE  /\ ctx'[a].id \in Proposal /\ proposals[ctx'[a].id].status = "pending"
                 /\ proposals[ctx'[a].id].patch = ctx'[a].patch /\ proposals[ctx'[a].id].proposer # a
      BY <1>2, <1>3, <2>3
    <2>4. ctx'[a].kind = kind /\ ctx'[a].id = id
      BY <1>2, <1>3
    <2> SUFFICES ASSUME NEW b \in Admin, ctx'[b] # NoTx, ctx'[b].kind = "confirm"
                 PROVE  /\ ctx'[b].id \in Proposal
                        /\ proposals[ctx'[b].id].status = "pending"
                        /\ proposals[ctx'[b].id].patch = ctx'[b].patch
                        /\ proposals[ctx'[b].id].proposer # b
                        /\ \A c \in Admin :
                              ctx'[c] # NoTx /\ ctx'[c].kind = "confirm" /\ ctx'[c].id = ctx'[b].id => b = c
      BY <1>1 DEF ConfirmInv
    <2>5. CASE b = a
      <3>1. kind = "confirm"
        BY <2>4, <2>5
      <3>2. \A c \in Admin : ctx'[c] # NoTx /\ ctx'[c].kind = "confirm" /\ ctx'[c].id = id => c = a
        BY <2>1, <2>2, <3>1
      <3> QED
        BY <2>3, <2>4, <2>5, <3>1, <3>2
    <2>6. CASE b # a
      <3>1. ctx[b] # NoTx /\ ctx[b].kind = "confirm" /\ ctx[b] = ctx'[b]
        BY <1>3, <2>6
      <3>2. ctx'[a].kind = "confirm" => ctx'[a].id # ctx'[b].id
        BY <2>1, <2>4, <3>1
      <3>3. \A c \in Admin : ctx[c] # NoTx /\ ctx[c].kind = "confirm" /\ ctx[c].id = ctx[b].id => b = c
        BY <3>1 DEF WriteInv, ConfirmInv
      <3>4. \A c \in Admin \ {a} :
              ctx'[c] # NoTx /\ ctx'[c].kind = "confirm" /\ ctx'[c].id = ctx'[b].id => b = c
        BY <1>3, <3>1, <3>3
      <3>5. /\ ctx[b].id \in Proposal /\ proposals[ctx[b].id].status = "pending"
            /\ proposals[ctx[b].id].patch = ctx[b].patch /\ proposals[ctx[b].id].proposer # b
        BY <3>1 DEF WriteInv, ConfirmInv
      <3> QED
        BY <3>1, <3>2, <3>4, <3>5
    <2> QED
      BY <2>5, <2>6
  <1> QED
    BY <1>4, <1>5, <1>6, <1>7, <1>8 DEF WriteInv

LEMMA OpensInv ==
  ASSUME WriteInv, NEW a \in Admin,
         SetConfig(a) \/ \E p \in Proposal : CreateProposal(a, p) \/ ConfirmProposal(a, p)
  PROVE  WriteInv'
  <1>0. Generation \in Nat /\ 0 \in Nat
    BY EntriesType DEF WriteInv
  <1>1. CASE SetConfig(a)
    <2>1. PICK patch \in DirectPatch, base \in {0, Generation} :
            /\ \A k \in DOMAIN patch : ~Sensitive(k)
            /\ Open(a, "set", "", patch, base)
      BY <1>1 DEF SetConfig
    <2>2. patch \in Patch /\ base \in Nat
      BY <1>0, <2>1, ConfigAssumption, IsPatchType
    <2> QED
      BY <2>1, <2>2, OpenInv
  <1>2. ASSUME NEW p \in Proposal, CreateProposal(a, p) PROVE WriteInv'
    BY <1>0, <1>2, OpenInv, PatchOfType DEF CreateProposal, WriteInv
  <1>3. ASSUME NEW p \in Proposal, ConfirmProposal(a, p) PROVE WriteInv'
    <2>1. proposals[p] \in Row
      BY <1>3, SMTT(90) DEF ConfirmProposal, WriteInv, ConfigTypeOK, NoProposal
    <2>2. proposals[p].patch \in Patch
      BY <2>1 DEF Row
    <2> QED
      BY <1>0, <1>3, <2>2, OpenInv DEF ConfirmProposal
  <1> QED
    BY <1>1, <1>2, <1>3

\* The lock is granted, and the entries are read under it.
LEMMA LockGenerationInv ==
  ASSUME WriteInv, NEW a \in Admin, LockGeneration(a)
  PROVE  WriteInv'
  <1>1. /\ ctx[a].phase = "wait" /\ \A b \in Admin : ~Holds(b)
        /\ ctx' = [ctx EXCEPT ![a] = [ctx[a] EXCEPT !.phase = "hold", !.base = Generation, !.snap = Entries]]
        /\ UNCHANGED <<snaps, proposals, moment>>
    BY DEF LockGeneration
  <1>2. ctx[a] \in Tx /\ ctx[a] # NoTx
    BY <1>1, Phases DEF WriteInv
  <1> DEFINE t == [ctx[a] EXCEPT !.phase = "hold", !.base = Generation, !.snap = Entries]
  <1>3. /\ t \in Tx /\ t.phase = "hold" /\ t.snap = Entries
        /\ t.kind = ctx[a].kind /\ t.id = ctx[a].id /\ t.patch = ctx[a].patch
    BY <1>2, EntriesType DEF Tx, WriteInv
  <1> HIDE DEF t
  <1>4. ctx'[a] = t /\ \A b \in Admin \ {a} : ctx'[b] = ctx[b]
    BY <1>1 DEF t, WriteInv, ConfigTypeOK
  <1>5. ConfigTypeOK'
    BY <1>1, <1>3 DEF t, WriteInv, ConfigTypeOK
  <1>6. LockInv'
    BY <1>1, <1>3, <1>4 DEF LockInv, Holds, Entries
  <1>7. KindInv' /\ ConfirmInv'
    BY <1>1, <1>2, <1>3, <1>4, SMTT(90) DEF WriteInv, KindInv, ConfirmInv
  <1>8. CrossKeysHold'
    BY <1>1 DEF WriteInv, CrossKeysHold, Generation
  <1> QED
    BY <1>5, <1>6, <1>7, <1>8 DEF WriteInv

\* A transaction ends: whatever it committed, the others keep what they had.
LEMMA EndTx ==
  ASSUME WriteInv, NEW a \in Admin, ctx' = [ctx EXCEPT ![a] = NoTx]
  PROVE  /\ ctx' \in [Admin -> Tx \cup {NoTx}] /\ KindInv'
         /\ \A b \in Admin : ctx'[b] # NoTx => b # a /\ ctx'[b] = ctx[b]
         /\ \A b \in Admin : Holds(b)' => b # a /\ Holds(b) /\ ctx'[b] = ctx[b]
  <1>1. ctx'[a] = NoTx /\ \A b \in Admin \ {a} : ctx'[b] = ctx[b]
    BY DEF WriteInv, ConfigTypeOK
  <1>2. ctx' \in [Admin -> Tx \cup {NoTx}]
    BY DEF WriteInv, ConfigTypeOK
  <1>3. KindInv'
    BY <1>1 DEF WriteInv, KindInv
  <1>4. NoTx.phase # "hold"
    BY DEF NoTx
  <1> QED
    BY <1>1, <1>2, <1>3, <1>4 DEF Holds

LEMMA RollbackInv ==
  ASSUME WriteInv, NEW a \in Admin, Rollback(a)
  PROVE  WriteInv'
  <1>1. ctx' = [ctx EXCEPT ![a] = NoTx] /\ UNCHANGED <<snaps, proposals, moment>>
    BY DEF Rollback
  <1>2. ConfigTypeOK' /\ CrossKeysHold'
    BY <1>1, EndTx DEF WriteInv, ConfigTypeOK, CrossKeysHold, Generation
  <1>3. LockInv'
    BY <1>1, EndTx DEF WriteInv, LockInv, Entries
  <1>4. ConfirmInv'
    BY <1>1, EndTx, SMTT(90) DEF WriteInv, ConfirmInv
  <1> QED
    BY <1>1, <1>2, <1>3, <1>4, EndTx DEF WriteInv

\* A proposal no confirmation holds is settled without one.
LEMMA UnlockedInv ==
  ASSUME WriteInv, NEW p \in Proposal, ExpireProposal(p) \/ RejectProposal(p)
  PROVE  WriteInv'
  <1>1. /\ proposals[p].status = "pending" /\ ~RowLocked(p)
        /\ \E s \in {"expired", "rejected"} : proposals' = [proposals EXCEPT ![p] = [proposals[p] EXCEPT !.status = s]]
        /\ UNCHANGED <<snaps, ctx, moment>>
    BY DEF ExpireProposal, RejectProposal
  <1>2. proposals[p] \in Row
    BY <1>1 DEF WriteInv, ConfigTypeOK, NoProposal
  <1>3. \A s \in {"expired", "rejected"} : [proposals[p] EXCEPT !.status = s] \in Row
    BY <1>2 DEF Row
  <1>4. ConfigTypeOK'
    BY <1>1, <1>3 DEF WriteInv, ConfigTypeOK
  <1>5. \A q \in Proposal \ {p} : proposals'[q] = proposals[q]
    BY <1>1 DEF WriteInv, ConfigTypeOK
  <1>6. \A a \in Admin : ctx[a] # NoTx /\ ctx[a].kind = "confirm" => ctx[a].id # p
    BY <1>1, Phases DEF RowLocked, WriteInv
  <1>7. ConfirmInv'
    BY <1>1, <1>5, <1>6 DEF WriteInv, ConfirmInv
  <1>8. LockInv' /\ KindInv' /\ CrossKeysHold'
    BY <1>1 DEF WriteInv, LockInv, Holds, Entries, KindInv, CrossKeysHold, Generation
  <1> QED
    BY <1>4, <1>7, <1>8 DEF WriteInv

-----------------------------------------------------------------------------
(* Commits *)

\* The holder's patch was validated against the committed entries, and with it
\* the only holder goes.
LEMMA CommitPatch ==
  ASSUME WriteInv, NEW a \in Admin, Holds(a), ApplyPatch(ctx[a]),
         ValidatePatch(ctx[a].snap, ctx[a].patch), ctx' = [ctx EXCEPT ![a] = NoTx]
  PROVE  snaps' \in Seq(Entry) /\ Len(snaps') > 0 /\ Grows /\ CrossKeysHold' /\ LockInv'
  <1> DEFINE e == Overlay(ctx[a].patch, Entries)
  <1>1. /\ snaps' \in Seq(Entry) /\ Len(snaps') > 0 /\ CrossKeys(e)
        /\ snaps' = snaps \/ snaps' = Append(snaps, e)
    BY ApplyPatchGrows DEF WriteInv
  <1>2. e \in Entry
    <2>1. ctx[a].patch \in Patch
      BY Phases DEF WriteInv, Holds, Tx
    <2> QED
      BY <2>1, OverlayType, EntriesType DEF WriteInv
  <1> HIDE DEF e
  <1>3. Grows
    BY <1>1, <1>2 DEF Grows
  <1>4. CrossKeysHold'
    <2>1. CASE snaps' = snaps
      BY <2>1 DEF WriteInv, CrossKeysHold, Generation
    <2>2. CASE snaps' = Append(snaps, e)
      <3>1. /\ Generation' = Generation + 1 /\ snaps'[Generation'] = e /\ Generation \in Nat
            /\ \A g \in 1..Generation : snaps'[g] = snaps[g]
        BY <1>2, <1>3, <2>2, GrowsKeeps, EntriesType DEF WriteInv
      <3>2. \A g \in 1..Generation' : g \in 1..Generation \/ g = Generation'
        BY <3>1
      <3> QED
        BY <1>1, <3>1, <3>2 DEF WriteInv, CrossKeysHold
    <2> QED
      BY <1>1, <2>1, <2>2
  <1>5. LockInv'
    <2>1. \A b \in Admin : ~Holds(b)'
      BY EndTx DEF WriteInv, LockInv
    <2> QED
      BY <2>1 DEF LockInv
  <1> QED
    BY <1>1, <1>3, <1>4, <1>5

LEMMA CommitSetInv ==
  ASSUME WriteInv, NEW a \in Admin, CommitSet(a)
  PROVE  WriteInv' /\ Grows
  <1>1. /\ Holds(a) /\ ApplyPatch(ctx[a]) /\ ValidatePatch(ctx[a].snap, ctx[a].patch)
        /\ ctx' = [ctx EXCEPT ![a] = NoTx] /\ UNCHANGED <<proposals, moment>>
    BY DEF CommitSet, Valid
  <1>2. snaps' \in Seq(Entry) /\ Len(snaps') > 0 /\ Grows /\ CrossKeysHold' /\ LockInv'
    BY <1>1, CommitPatch
  <1>3. ctx' \in [Admin -> Tx \cup {NoTx}] /\ KindInv'
    BY <1>1, EndTx
  <1>4. ConfirmInv'
    BY <1>1, EndTx, SMTT(90) DEF WriteInv, ConfirmInv
  <1>5. ConfigTypeOK'
    BY <1>1, <1>2, <1>3 DEF WriteInv, ConfigTypeOK
  <1> QED
    BY <1>2, <1>3, <1>4, <1>5 DEF WriteInv

LEMMA CommitCreateInv ==
  ASSUME WriteInv, NEW a \in Admin, CommitCreate(a)
  PROVE  WriteInv'
  <1> DEFINE p == ctx[a].id
             new == [status |-> "pending", patch |-> ctx[a].patch, proposer |-> a,
                     confirmer |-> "", expires |-> moment + ProposalLife]
  <1>1. /\ Holds(a) /\ ctx[a].kind = "create" /\ proposals[p] = NoProposal
        /\ proposals' = [proposals EXCEPT ![p] = new]
        /\ ctx' = [ctx EXCEPT ![a] = NoTx] /\ UNCHANGED <<snaps, moment>>
    BY DEF CommitCreate
  <1>2. ctx[a] \in Tx /\ ctx[a] # NoTx
    BY <1>1, Phases DEF WriteInv, Holds
  <1>3. p \in Proposal /\ new \in Row
    <2>1. p \in Proposal
      BY <1>1, <1>2 DEF WriteInv, KindInv
    <2>2. ctx[a].patch \in Patch
      BY <1>2 DEF Tx
    <2>3. moment + ProposalLife \in Nat
      BY ConfigAssumption DEF WriteInv, ConfigTypeOK
    <2> QED
      BY <2>1, <2>2, <2>3 DEF Row
  <1> HIDE DEF p, new
  <1>4. ctx' \in [Admin -> Tx \cup {NoTx}] /\ KindInv'
    BY <1>1, EndTx
  <1>5. ConfigTypeOK' /\ CrossKeysHold'
    BY <1>1, <1>3, <1>4 DEF WriteInv, ConfigTypeOK, CrossKeysHold, Generation
  <1>6. LockInv'
    BY <1>1, EndTx DEF WriteInv, LockInv, Entries
  <1>7. \A q \in Proposal : proposals[q].status = "pending" => proposals'[q] = proposals[q]
    BY <1>1 DEF WriteInv, ConfigTypeOK, NoProposal
  <1>8. ConfirmInv'
    BY <1>1, <1>7, EndTx, SMTT(90) DEF WriteInv, ConfirmInv
  <1> QED
    BY <1>4, <1>5, <1>6, <1>8 DEF WriteInv

LEMMA CommitConfirmInv ==
  ASSUME WriteInv, NEW a \in Admin, CommitConfirm(a)
  PROVE  WriteInv' /\ Grows
  <1> DEFINE p == ctx[a].id
  <1>1. /\ Holds(a) /\ ApplyPatch(ctx[a]) /\ ValidatePatch(ctx[a].snap, ctx[a].patch)
        /\ ctx[a].kind = "confirm"
        /\ proposals' = [proposals EXCEPT ![p] = [proposals[p] EXCEPT !.status = "confirmed", !.confirmer = a]]
        /\ ctx' = [ctx EXCEPT ![a] = NoTx] /\ UNCHANGED moment
    BY DEF CommitConfirm, Valid
  <1>2. ctx[a] # NoTx
    BY <1>1, Phases DEF WriteInv, Holds
  <1>3. p \in Proposal /\ proposals[p].status = "pending"
    BY <1>1, <1>2 DEF WriteInv, ConfirmInv
  <1>4. \A b \in Admin : ctx[b] # NoTx /\ ctx[b].kind = "confirm" /\ b # a => ctx[b].id # p
    BY <1>1, <1>2 DEF WriteInv, ConfirmInv
  <1>5. proposals[p] \in Row
    BY <1>3 DEF WriteInv, ConfigTypeOK, NoProposal
  <1>6. [proposals[p] EXCEPT !.status = "confirmed", !.confirmer = a] \in Row
    BY <1>5 DEF Row
  <1> HIDE DEF p
  <1>7. snaps' \in Seq(Entry) /\ Len(snaps') > 0 /\ Grows /\ CrossKeysHold' /\ LockInv'
    BY <1>1, CommitPatch
  <1>8. ctx' \in [Admin -> Tx \cup {NoTx}] /\ KindInv'
    BY <1>1, EndTx
  <1>9. ConfigTypeOK'
    BY <1>1, <1>3, <1>6, <1>7, <1>8 DEF WriteInv, ConfigTypeOK
  <1>10. \A q \in Proposal \ {p} : proposals'[q] = proposals[q]
    BY <1>1 DEF WriteInv, ConfigTypeOK
  <1>11. \A b \in Admin : ctx'[b] # NoTx => b # a /\ ctx'[b] = ctx[b]
    BY <1>1, EndTx
  <1>12. ConfirmInv'
    <2> SUFFICES ASSUME NEW b \in Admin, ctx'[b] # NoTx, ctx'[b].kind = "confirm"
                 PROVE  /\ ctx'[b].id \in Proposal
                        /\ proposals'[ctx'[b].id].status = "pending"
                        /\ proposals'[ctx'[b].id].patch = ctx'[b].patch
                        /\ proposals'[ctx'[b].id].proposer # b
                        /\ \A c \in Admin :
                              ctx'[c] # NoTx /\ ctx'[c].kind = "confirm" /\ ctx'[c].id = ctx'[b].id => b = c
      BY DEF ConfirmInv
    <2>1. ctx'[b] = ctx[b] /\ b # a
      BY <1>11
    <2>2. /\ ctx[b].id \in Proposal /\ proposals[ctx[b].id].status = "pending"
          /\ proposals[ctx[b].id].patch = ctx[b].patch /\ proposals[ctx[b].id].proposer # b
          /\ \A c \in Admin : ctx[c] # NoTx /\ ctx[c].kind = "confirm" /\ ctx[c].id = ctx[b].id => b = c
      BY <2>1, SMTT(90) DEF WriteInv, ConfirmInv
    <2>3. proposals'[ctx[b].id] = proposals[ctx[b].id]
      BY <1>4, <1>10, <2>1, <2>2
    <2> QED
      BY <1>11, <2>1, <2>2, <2>3
  <1> QED
    BY <1>7, <1>8, <1>9, <1>12 DEF WriteInv

-----------------------------------------------------------------------------
(* The invariant of the writers *)

LEMMA SameWrites ==
  ASSUME WriteInv, UNCHANGED <<snaps, proposals, ctx>>, moment' \in Nat
  PROVE  WriteInv'
  BY SMTT(90) DEF WriteInv, ConfigTypeOK, LockInv, ConfirmInv, KindInv, CrossKeysHold, Holds, Entries, Generation

\* What every step keeps: the writers' invariant, and history but for its end.
LEMMA WriteStep ==
  ASSUME WriteInv, [ConfigNext]_configVars
  PROVE  WriteInv' /\ Grows
  <1>0. moment \in Nat
    BY DEF WriteInv, ConfigTypeOK
  <1>1. ASSUME NEW a \in Admin,
               \/ SetConfig(a)
               \/ \E p \in Proposal : CreateProposal(a, p) \/ ConfirmProposal(a, p)
        PROVE  WriteInv' /\ Grows
    <2>1. snaps' = snaps
      BY <1>1 DEF SetConfig, CreateProposal, ConfirmProposal, Open
    <2> QED
      BY <1>1, <2>1, OpensInv DEF Grows
  <1>2. ASSUME NEW a \in Admin, LockGeneration(a) \/ Rollback(a) \/ CommitCreate(a)
        PROVE  WriteInv' /\ Grows
    <2>1. snaps' = snaps
      BY <1>2 DEF LockGeneration, Rollback, CommitCreate
    <2> QED
      BY <1>2, <2>1, LockGenerationInv, RollbackInv, CommitCreateInv DEF Grows
  <1>3. ASSUME NEW a \in Admin, CommitSet(a) \/ CommitConfirm(a) PROVE WriteInv' /\ Grows
    BY <1>3, CommitSetInv, CommitConfirmInv
  <1>4. ASSUME NEW p \in Proposal, ExpireProposal(p) \/ RejectProposal(p) PROVE WriteInv' /\ Grows
    BY <1>4, UnlockedInv DEF ExpireProposal, RejectProposal, Grows
  <1>5. ASSUME PassMoment \/ WatchNext \/ UNCHANGED configVars PROVE WriteInv' /\ Grows
    <2>1. UNCHANGED <<snaps, proposals, ctx>> /\ moment' \in Nat
      BY <1>0, <1>5, SMTT(90) DEF PassMoment, WatchNext, WakeTick, HealTick, FinishLoad, LoadFails, Restart, configVars
    <2> QED
      BY <2>1, SameWrites DEF Grows
  <1> QED
    BY <1>1, <1>2, <1>3, <1>4, <1>5 DEF ConfigNext, DirectNext, ProposalNext

LEMMA WriteInit == ConfigInit => WriteInv
  <1> SUFFICES ASSUME ConfigInit PROVE WriteInv
    OBVIOUS
  <1>1. Seed \in Entry /\ CrossKeys(Seed)
    BY ConfigAssumption DEF CrossKeys
  <1>2. snaps \in Seq(Entry) /\ Len(snaps) = 1 /\ snaps[1] = Seed
    BY <1>1 DEF ConfigInit
  <1>3. ConfigTypeOK
    BY <1>2 DEF ConfigInit, ConfigTypeOK
  <1>4. CrossKeysHold
    BY <1>1, <1>2 DEF CrossKeysHold, Generation
  <1>5. NoTx.phase # "hold"
    BY DEF NoTx
  <1>6. LockInv /\ ConfirmInv /\ KindInv
    BY <1>5 DEF ConfigInit, LockInv, ConfirmInv, KindInv, Holds
  <1> QED
    BY <1>3, <1>4, <1>6 DEF WriteInv

\* The invariant of the two locks holds in every reachable state
\* (apply_patch_in_tx, ConfirmProposal).
THEOREM WriteInvCorrect == ConfigSpec => []WriteInv
  BY WriteInit, WriteStep, PTL DEF ConfigSpec

\* Every committed snapshot satisfies the cross-key rule, although a proposal
\* was validated long before it is confirmed (apply_patch_in_tx).
THEOREM CrossKeysHoldCorrect == ConfigSpec => []CrossKeysHold
  <1>1. WriteInv => CrossKeysHold
    BY DEF WriteInv
  <1> QED
    BY <1>1, WriteInvCorrect, PTL

-----------------------------------------------------------------------------
(* Sensitive keys *)

\* What a commit changes is in the patch.
LEMMA ChangedIsPatched ==
  ASSUME WriteInv, NEW a \in Admin, Holds(a), ApplyPatch(ctx[a]), NEW k \in Key,
         snaps'[Len(snaps')][k] # Entries[k]
  PROVE  k \in DOMAIN ctx[a].patch
  <1>1. ctx[a] \in Tx /\ ctx[a].patch \in Patch
    BY Phases DEF WriteInv, Holds, Tx
  <1>2. snaps' # snaps
    BY DEF Entries
  <1>3. snaps' = Append(snaps, Overlay(ctx[a].patch, Entries))
    BY <1>2 DEF ApplyPatch
  <1>4. /\ Overlay(ctx[a].patch, Entries) \in Entry
        /\ k \notin DOMAIN ctx[a].patch => Overlay(ctx[a].patch, Entries)[k] = Entries[k]
    BY <1>1, OverlayType, EntriesType DEF WriteInv
  <1>5. snaps'[Len(snaps')] = Overlay(ctx[a].patch, Entries)
    BY <1>3, <1>4, AppendProperties, SMTT(90) DEF WriteInv, ConfigTypeOK
  <1> QED
    BY <1>4, <1>5

\* A sensitive key changes only in the step that confirms a pending proposal that
\* asks for it, by a principal other than its proposer (proposals.rs, set_config.rs).
THEOREM SensitiveNeedsTwoCorrect == ConfigSpec => SensitiveNeedsTwo
  <1> DEFINE Two ==
        \A k \in Key : Sensitive(k) /\ snaps'[Len(snaps')][k] # Entries[k] =>
            \E p \in Proposal :
                /\ proposals[p].status = "pending" /\ proposals'[p].status = "confirmed"
                /\ proposals'[p].confirmer # proposals[p].proposer
                /\ k \in DOMAIN proposals[p].patch
  <1>1. ASSUME WriteInv, [ConfigNext]_configVars PROVE Two
    <2> SUFFICES ASSUME NEW k \in Key, Sensitive(k), snaps'[Len(snaps')][k] # Entries[k]
                 PROVE  \E p \in Proposal :
                          /\ proposals[p].status = "pending" /\ proposals'[p].status = "confirmed"
                          /\ proposals'[p].confirmer # proposals[p].proposer
                          /\ k \in DOMAIN proposals[p].patch
      OBVIOUS
    <2>1. snaps' # snaps
      BY DEF Entries
    <2>2. PICK a \in Admin : CommitSet(a) \/ CommitConfirm(a)
      BY <1>1, <2>1 DEF ConfigNext, DirectNext, ProposalNext, WatchNext, SetConfig, CreateProposal,
         ConfirmProposal, Open, LockGeneration, Rollback, CommitCreate, ExpireProposal, RejectProposal,
         PassMoment, WakeTick, HealTick, FinishLoad, LoadFails, Restart, configVars
    <2>3. Holds(a) /\ ApplyPatch(ctx[a])
      BY <2>2 DEF CommitSet, CommitConfirm
    <2>4. k \in DOMAIN ctx[a].patch /\ ctx[a] # NoTx
      BY <1>1, <2>3, ChangedIsPatched, Phases DEF WriteInv, Holds
    <2>5. ctx[a].kind # "set"
      BY <1>1, <2>4 DEF WriteInv, KindInv
    <2>6. CommitConfirm(a) /\ ctx[a].kind = "confirm"
      BY <2>2, <2>5 DEF CommitSet, CommitConfirm
    <2>7. /\ ctx[a].id \in Proposal /\ proposals[ctx[a].id].status = "pending"
          /\ proposals[ctx[a].id].patch = ctx[a].patch /\ proposals[ctx[a].id].proposer # a
      BY <1>1, <2>4, <2>6 DEF WriteInv, ConfirmInv
    <2>8. proposals[ctx[a].id] \in Row
      BY <1>1, <2>7, SMTT(90) DEF WriteInv, ConfigTypeOK, NoProposal
    <2>9. proposals'[ctx[a].id].status = "confirmed" /\ proposals'[ctx[a].id].confirmer = a
      BY <1>1, <2>6, <2>7, <2>8 DEF CommitConfirm, WriteInv, ConfigTypeOK, Row
    <2> QED
      BY <2>4, <2>7, <2>9
  <1> QED
    BY <1>1, WriteInvCorrect, PTL DEF ConfigSpec, SensitiveNeedsTwo

-----------------------------------------------------------------------------
(* The replicas *)

ReadInv ==
    /\ load \in [Replica -> Nat] /\ \A r \in Replica : load[r] <= Generation
    /\ watch \in [Replica -> [generation : Nat, entries : Entry]]
    /\ SnapshotNotBehind

LEMMA ReadInit == ConfigInit => ReadInv
  <1> SUFFICES ASSUME ConfigInit PROVE ReadInv
    OBVIOUS
  <1>1. Generation \in Nat
    BY WriteInit, EntriesType DEF WriteInv
  <1>2. Empty \in [generation : Nat, entries : Entry] /\ Empty.generation = 0
    BY ConfigAssumption DEF Empty
  <1> QED
    BY <1>1, <1>2 DEF ConfigInit, ReadInv, SnapshotNotBehind, NoLoad

\* A snapshot that was in the history still is.
LEMMA WritersKeepReaders ==
  ASSUME WriteInv, Grows, ReadInv, UNCHANGED <<watch, load>>
  PROVE  ReadInv'
  <1>1. /\ Generation \in Nat /\ Generation' \in Nat /\ Generation' >= Generation
        /\ \A g \in 1..Generation : snaps'[g] = snaps[g]
    BY GrowsKeeps, EntriesType DEF WriteInv
  <1>2. \A r \in Replica : load'[r] <= Generation'
    BY <1>1, SMTT(90) DEF ReadInv
  <1>3. SnapshotNotBehind'
    <2> SUFFICES ASSUME NEW r \in Replica, watch[r].generation > 0
                 PROVE  \E g \in watch[r].generation..Generation' : watch[r].entries = snaps'[g]
      BY DEF SnapshotNotBehind
    <2>1. watch[r].generation \in Nat
      BY DEF ReadInv
    <2>2. PICK g \in watch[r].generation..Generation : watch[r].entries = snaps[g]
      BY DEF ReadInv, SnapshotNotBehind
    <2>3. g \in 1..Generation /\ g \in watch[r].generation..Generation'
      BY <1>1, <2>1
    <2> QED
      BY <1>1, <2>2, <2>3
  <1> QED
    BY <1>2, <1>3 DEF ReadInv

\* The generation was read before the entries.
LEMMA FinishLoadInv ==
  ASSUME WriteInv, ReadInv, NEW r \in Replica, FinishLoad(r)
  PROVE  ReadInv'
  <1> DEFINE new == [generation |-> load[r], entries |-> Entries]
  <1>1. /\ load[r] # 0 /\ load' = [load EXCEPT ![r] = 0] /\ UNCHANGED snaps
        /\ watch' = watch \/ watch' = [watch EXCEPT ![r] = new]
    BY DEF FinishLoad, NoLoad
  <1>2. load[r] \in Nat /\ load[r] <= Generation /\ Generation \in Nat \ {0} /\ Entries \in Entry
    BY EntriesType DEF ReadInv, WriteInv
  <1>3. new \in [generation : Nat, entries : Entry] /\ new.generation = load[r] /\ new.entries = Entries
    BY <1>2
  <1> HIDE DEF new
  <1>4. /\ load' \in [Replica -> Nat] /\ \A q \in Replica : load'[q] <= Generation'
        /\ watch' \in [Replica -> [generation : Nat, entries : Entry]]
    BY <1>1, <1>2, <1>3 DEF ReadInv, Generation
  <1>5. SnapshotNotBehind'
    <2> SUFFICES ASSUME NEW q \in Replica, watch'[q].generation > 0
                 PROVE  \E g \in watch'[q].generation..Generation : watch'[q].entries = snaps[g]
      BY <1>1 DEF SnapshotNotBehind, Generation
    <2>1. CASE watch'[q] = watch[q]
      BY <2>1 DEF ReadInv, SnapshotNotBehind
    <2>2. CASE watch'[q] = new
      <3>1. Generation \in new.generation..Generation /\ new.entries = snaps[Generation]
        BY <1>2, <1>3 DEF Entries, Generation
      <3> QED
        BY <2>2, <3>1
    <2> QED
      BY <1>1, <2>1, <2>2 DEF ReadInv
  <1> QED
    BY <1>4, <1>5 DEF ReadInv

LEMMA ReadStep ==
  ASSUME WriteInv, ReadInv, [ConfigNext]_configVars
  PROVE  ReadInv'
  <1>0. Generation \in Nat
    BY EntriesType DEF WriteInv
  <1>1. CASE UNCHANGED <<watch, load>>
    BY <1>1, WriteStep, WritersKeepReaders
  <1>2. ASSUME NEW r \in Replica, WakeTick(r) \/ HealTick(r) \/ LoadFails(r) PROVE ReadInv'
    <2>1. UNCHANGED <<snaps, watch>> /\ \E n \in {0, Generation} : load' = [load EXCEPT ![r] = n]
      BY <1>2 DEF WakeTick, HealTick, LoadFails, ReadGeneration, NoLoad
    <2>2. load' \in [Replica -> Nat] /\ \A q \in Replica : load'[q] <= Generation'
      BY <1>0, <2>1 DEF ReadInv, Generation
    <2>3. SnapshotNotBehind'
      BY <2>1 DEF ReadInv, SnapshotNotBehind, Generation
    <2> QED
      BY <2>1, <2>2, <2>3 DEF ReadInv
  <1>3. ASSUME NEW r \in Replica, Restart(r) PROVE ReadInv'
    <2>1. UNCHANGED snaps /\ watch' = [watch EXCEPT ![r] = Empty] /\ load' = [load EXCEPT ![r] = 0]
      BY <1>3 DEF Restart, NoLoad
    <2>2. Empty \in [generation : Nat, entries : Entry] /\ Empty.generation = 0
      BY ConfigAssumption DEF Empty
    <2>3. load' \in [Replica -> Nat] /\ \A q \in Replica : load'[q] <= Generation'
      BY <1>0, <2>1 DEF ReadInv, Generation
    <2>4. \A q \in Replica : watch'[q] = watch[q] \/ watch'[q].generation = 0
      BY <2>1, <2>2 DEF ReadInv
    <2>5. SnapshotNotBehind'
      BY <2>1, <2>4, SMTT(90) DEF ReadInv, SnapshotNotBehind, Generation
    <2> QED
      BY <2>1, <2>2, <2>3, <2>5 DEF ReadInv
  <1>4. ASSUME DirectNext \/ ProposalNext \/ UNCHANGED configVars PROVE UNCHANGED <<watch, load>>
    BY <1>4 DEF DirectNext, ProposalNext, SetConfig, CreateProposal, ConfirmProposal, Open, LockGeneration,
       Rollback, CommitSet, CommitCreate, CommitConfirm, ExpireProposal, RejectProposal, PassMoment, configVars
  <1> QED
    BY <1>1, <1>2, <1>3, <1>4, FinishLoadInv DEF ConfigNext, WatchNext

\* A replica's entries are never older than the generation it reports
\* (load_snapshot reads the generation first).
THEOREM SnapshotNotBehindCorrect == ConfigSpec => []SnapshotNotBehind
  <1>1. ReadInv => SnapshotNotBehind
    BY DEF ReadInv
  <1> QED
    BY <1>1, ReadInit, ReadStep, WriteInvCorrect, PTL DEF ConfigSpec
=============================================================================
