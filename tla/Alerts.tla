------------------------------- MODULE Alerts --------------------------------
(***************************************************************************)
(* Incidents: application/src/ops/alerts.rs over pg/alert_tx.rs.  A sweep  *)
(* task checks the ledger identities every minute and turns a failing      *)
(* identity into an incident, a passing one into its resolution            *)
(* (sync_invariant_report); a delivery task redelivers unpaged incidents   *)
(* (deliver_pending); an operator may ack.  Every store call is its own    *)
(* statement: an incident is read whole, changed in memory, and written    *)
(* back whole by id, with a call to the pager in between.                  *)
(***************************************************************************)
EXTENDS Naturals, Sequences

CONSTANTS
    Sweeper,      \* the sweep tasks, one per process started with --continuous
    Deliverer,    \* the delivery tasks, one per process
    Identity,     \* the ledger identities of a report (the incident keys)
    MaxIncident,  \* bound on incident rows
    MaxFlips,     \* bound on how often an identity breaks or recovers
    MaxOutages    \* bound on failed pages and task deaths

ASSUME AlertsAssumption ==
    MaxIncident \in Nat /\ MaxFlips \in Nat /\ MaxOutages \in Nat

VARIABLES
    failing,   \* the identities that do not hold now
    inc,       \* alert_outbox: a sequence of [key, status, paged]
    landed,    \* the incidents for which a page reached the pager
    sweep,     \* sweeper -> the state of its sweep
    deliver,   \* deliverer -> the state of its tick
    acking,    \* the operator's copy: NoCopy or [id, row]
    flips, outages

alertVars == <<failing, inc, landed, sweep, deliver, acking, flips, outages>>

NoCopy == [id |-> 0]
IdleSweep == [pc |-> "idle", todo |-> {}, red |-> {}, copy |-> NoCopy]
IdleDeliver == [pc |-> "idle", queue |-> <<>>]

AlertsInit ==
    /\ failing = {}
    /\ inc = <<>>
    /\ landed = {}
    /\ sweep = [w \in Sweeper |-> IdleSweep]
    /\ deliver = [w \in Deliverer |-> IdleDeliver]
    /\ acking = NoCopy
    /\ flips = 0 /\ outages = 0

-----------------------------------------------------------------------------
\* PgAlertStore

Live(i) == inc[i].status \in {"open", "acked"}
LiveOf(k) == {i \in DOMAIN inc : inc[i].key = k /\ Live(i)}

\* save: the whole row, by id; the partial unique index refuses a second live
\* row of the key (the error is logged and the row stays as it was).
Saved(i, r) ==
    IF r.status \in {"open", "acked"} /\ LiveOf(r.key) \ {i} # {} THEN inc
    ELSE [inc EXCEPT ![i] = r]

\* pending_delivery; a mutant that retires an acked incident; copies in id order
PendingDelivery_OpenOnly == SelectSeq([i \in DOMAIN inc |-> [id |-> i, row |-> inc[i]]],
    LAMBDA c : c.row.status = "open" /\ c.row.paged = "no")

PendingDelivery == SelectSeq([i \in DOMAIN inc |-> [id |-> i, row |-> inc[i]]],
    LAMBDA c : c.row.status \in {"open", "acked"} /\ c.row.paged = "no")

-----------------------------------------------------------------------------
\* The ledger

Flip(k) ==
    /\ flips < MaxFlips
    /\ flips' = flips + 1
    /\ failing' = IF k \in failing THEN failing \ {k} ELSE failing \cup {k}
    /\ UNCHANGED <<inc, landed, sweep, deliver, acking, outages>>

-----------------------------------------------------------------------------
\* sync_invariant_report of one process

\* invariant_sweep::run: the report the loop then works through.
SweepReport(w) ==
    /\ sweep[w].pc = "idle"
    /\ sweep' = [sweep EXCEPT ![w] = [IdleSweep EXCEPT !.pc = "loop", !.todo = Identity, !.red = failing]]
    /\ UNCHANGED <<failing, inc, landed, deliver, acking, flips, outages>>

SweepGoes(w, pc, k, copy) ==
    sweep' = [sweep EXCEPT ![w].pc = pc, ![w].todo = @ \ {k}, ![w].copy = copy]

\* raise: insert_if_absent returns the live incident, or inserts and goes on to page.
RaiseInsert(w, k) ==
    /\ sweep[w].pc = "loop" /\ k \in sweep[w].todo /\ k \in sweep[w].red
    /\ \/ /\ LiveOf(k) # {}
          /\ SweepGoes(w, "loop", k, NoCopy)
          /\ UNCHANGED inc
       \/ /\ LiveOf(k) = {}
          /\ Len(inc) < MaxIncident
          /\ LET r == [key |-> k, status |-> "open", paged |-> "no"]
             IN  /\ inc' = Append(inc, r)
                 /\ SweepGoes(w, "page", k, [id |-> Len(inc) + 1, row |-> r])
    /\ UNCHANGED <<failing, landed, deliver, acking, flips, outages>>

RaisePage(w) ==
    /\ sweep[w].pc = "page"
    /\ landed' = landed \cup {sweep[w].copy.id}
    /\ sweep' = [sweep EXCEPT ![w].pc = "stamp"]
    /\ UNCHANGED <<failing, inc, deliver, acking, flips, outages>>

\* The pager refuses: the incident stays pending and the sweep goes on.
RaisePageFails(w) ==
    /\ sweep[w].pc = "page" /\ outages < MaxOutages
    /\ outages' = outages + 1
    /\ sweep' = [sweep EXCEPT ![w].pc = "loop", ![w].copy = NoCopy]
    /\ UNCHANGED <<failing, inc, landed, deliver, acking, flips>>

RaiseStamp(w) ==
    /\ sweep[w].pc = "stamp"
    /\ inc' = Saved(sweep[w].copy.id, [sweep[w].copy.row EXCEPT !.paged = "yes"])
    /\ sweep' = [sweep EXCEPT ![w].pc = "loop", ![w].copy = NoCopy]
    /\ UNCHANGED <<failing, landed, deliver, acking, flips, outages>>

\* resolve_if_open and resolve up to the save: nothing live is nothing to do.
ResolveRead(w, k) ==
    /\ sweep[w].pc = "loop" /\ k \in sweep[w].todo /\ k \notin sweep[w].red
    /\ \/ LiveOf(k) = {} /\ SweepGoes(w, "loop", k, NoCopy)
       \/ \E i \in LiveOf(k) : SweepGoes(w, "close", k, [id |-> i, row |-> inc[i]])
    /\ UNCHANGED <<failing, inc, landed, deliver, acking, flips, outages>>

ResolveSave(w) ==
    /\ sweep[w].pc = "close"
    /\ inc' = Saved(sweep[w].copy.id, [sweep[w].copy.row EXCEPT !.status = "resolved"])
    /\ sweep' = [sweep EXCEPT ![w].pc = "loop", ![w].copy = NoCopy]
    /\ UNCHANGED <<failing, landed, deliver, acking, flips, outages>>

SweepEnds(w) ==
    /\ sweep[w].pc = "loop" /\ sweep[w].todo = {}
    /\ sweep' = [sweep EXCEPT ![w] = IdleSweep]
    /\ UNCHANGED <<failing, inc, landed, deliver, acking, flips, outages>>

-----------------------------------------------------------------------------
\* deliver_pending of one process

DeliverRead(w) ==
    /\ deliver[w].pc = "idle"
    /\ PendingDelivery # <<>>
    /\ deliver' = [deliver EXCEPT ![w] = [pc |-> "page", queue |-> PendingDelivery]]
    /\ UNCHANGED <<failing, inc, landed, sweep, acking, flips, outages>>

AfterHead(w) ==
    IF Len(deliver[w].queue) = 1 THEN IdleDeliver
    ELSE [pc |-> "page", queue |-> Tail(deliver[w].queue)]

DeliverPage(w) ==
    /\ deliver[w].pc = "page"
    /\ landed' = landed \cup {Head(deliver[w].queue).id}
    /\ deliver' = [deliver EXCEPT ![w].pc = "stamp"]
    /\ UNCHANGED <<failing, inc, sweep, acking, flips, outages>>

\* One incident whose page fails does not abort the batch.
DeliverPageFails(w) ==
    /\ deliver[w].pc = "page" /\ outages < MaxOutages
    /\ outages' = outages + 1
    /\ deliver' = [deliver EXCEPT ![w] = AfterHead(w)]
    /\ UNCHANGED <<failing, inc, landed, sweep, acking, flips>>

DeliverStamp(w) ==
    /\ deliver[w].pc = "stamp"
    /\ LET c == Head(deliver[w].queue)
       IN  inc' = Saved(c.id, [c.row EXCEPT !.paged = "yes"])
    /\ deliver' = [deliver EXCEPT ![w] = AfterHead(w)]
    /\ UNCHANGED <<failing, landed, sweep, acking, flips, outages>>

-----------------------------------------------------------------------------
\* ack: an operator's read and save

AckRead(k) ==
    /\ acking = NoCopy
    /\ \E i \in LiveOf(k) : acking' = [id |-> i, row |-> inc[i]]
    /\ UNCHANGED <<failing, inc, landed, sweep, deliver, flips, outages>>

AckSave ==
    /\ acking # NoCopy
    /\ inc' = Saved(acking.id, [acking.row EXCEPT !.status = "acked"])
    /\ acking' = NoCopy
    /\ UNCHANGED <<failing, landed, sweep, deliver, flips, outages>>

\* A process stops between any two statements; its two tasks share no state.
SweeperDies(w) ==
    /\ outages < MaxOutages /\ sweep[w] # IdleSweep
    /\ outages' = outages + 1
    /\ sweep' = [sweep EXCEPT ![w] = IdleSweep]
    /\ UNCHANGED <<failing, inc, landed, deliver, acking, flips>>

DelivererDies(w) ==
    /\ outages < MaxOutages /\ deliver[w] # IdleDeliver
    /\ outages' = outages + 1
    /\ deliver' = [deliver EXCEPT ![w] = IdleDeliver]
    /\ UNCHANGED <<failing, inc, landed, sweep, acking, flips>>

SweepStep(w) ==
    \/ \E k \in Identity : RaiseInsert(w, k) \/ ResolveRead(w, k)
    \/ RaisePage(w) \/ RaiseStamp(w) \/ ResolveSave(w) \/ SweepEnds(w)

DeliverStep(w) == DeliverRead(w) \/ DeliverPage(w) \/ DeliverStamp(w)

AlertsNext ==
    \/ \E k \in Identity : Flip(k) \/ AckRead(k)
    \/ AckSave
    \/ \E w \in Sweeper : SweepReport(w) \/ SweepStep(w) \/ RaisePageFails(w) \/ SweeperDies(w)
    \/ \E w \in Deliverer : DeliverStep(w) \/ DeliverPageFails(w) \/ DelivererDies(w)

AlertsSpec == AlertsInit /\ [][AlertsNext]_alertVars

-----------------------------------------------------------------------------
\* An incident is stamped as paged only if a page for it reached the pager: a
\* failed page or a crash leaves it in the queue (raise, deliver_pending).
PagedMeansLanded ==
    \A i \in DOMAIN inc : inc[i].paged = "yes" => i \in landed

\* The partial unique index: at most one live incident per identity, although
\* every save writes back a copy read earlier (insert_if_absent, save).
OneLiveIncident ==
    \A i, j \in DOMAIN inc : Live(i) /\ Live(j) /\ inc[i].key = inc[j].key => i = j

\* Every incident gets its page unless its condition ends first; an ack does
\* not retire an undelivered page (pending_delivery).
EveryIncidentPaged ==
    \A i \in 1..MaxIncident :
        (i \in DOMAIN inc /\ Live(i) /\ i \notin landed)
            ~> (i \in landed \/ (i \in DOMAIN inc /\ ~Live(i)))

\* alerts.rs: "reuse of the same key after resolve re-pages".  It needs a
\* resolved incident to stay resolved.
ResolvedStays ==
    [][\A i \in DOMAIN inc : inc[i].status = "resolved" => inc'[i].status = "resolved"]_alertVars
=============================================================================
