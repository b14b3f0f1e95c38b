---------------------------- MODULE VarianceStore ----------------------------
(***************************************************************************)
(* The variance database of Agent 4 and the closes saved in it             *)
(* (agent4/state.py, close.py, report.py): versioned panels, effective     *)
(* actuals as ordered deltas, one head per entity, closes in one           *)
(* transaction with their attempts recorded beside it, and exports of      *)
(* saved bundles.  Connections of one process work at the same time, each  *)
(* transaction on the snapshot it began with; DuckDB refuses a commit that *)
(* collides with a later one.  Every writer of the program is a close.     *)
(* Malformed requests are refused before anything is stored and left out.  *)
(***************************************************************************)
EXTENDS CloseFigures, Sequences

CONSTANTS Threads,   \* connections
          Requests,  \* by name: what a close request holds
          MaxCalls,  \* bound: calls of execute_close
          Exported,  \* bound: runs that a caller exports
          MaxReceipts, \* bound: kinds of receipts, after which no export starts
          MaxFaults  \* bound: failed steps, crashes and foreign files

Names == DOMAIN Requests
Runs  == {Requests[x].run : x \in Names}
Entities == {Requests[x].entity : x \in Names}
ASSUME RequestAssumption ==
  /\ "none" \notin Runs
  /\ MaxCalls \in Nat /\ MaxReceipts \in Nat /\ MaxFaults \in Nat
  /\ \A x \in Names :
       LET q == Requests[x] IN
       /\ q.close \in Periods /\ q.supersedes \in Runs \cup {"none"}
       /\ DOMAIN q.budget.rows \subseteq Keys /\ DOMAIN q.actuals.rows \subseteq Keys
       /\ DOMAIN q.budget.rows # {} /\ DOMAIN q.actuals.rows # {}
       /\ \A k \in DOMAIN q.budget.rows : q.budget.rows[k] \in Int   \* cents
       /\ \A k \in DOMAIN q.actuals.rows : q.actuals.rows[k] \in Int

Kinds == {"budget", "actuals"}
NoHead == [run |-> "none", close |-> 0]
NoBundle == [request |-> "none", effective |-> <<>>, report |-> <<>>]

VARIABLES
  stored,    \* a4_versions with a4_rows: versions of both kinds, numbered, by the
             \* request that wrote them
  saved,     \* a4_runs: bundle of a run
  heads,     \* a4_heads
  sequence,  \* a4_version_seq, which no rollback takes back
  attempts,  \* a4_attempts: per call the request and the last event
  receipts,  \* a4_delivery
  file,      \* runs whose bundle stands in the output directory
  foreign,   \* runs whose name another database's bundle took there
  reports,   \* published report directories: the reviewed accounts of each run
  call,      \* per connection: where it is, what it sees and will write
  faults

db    == <<stored, saved, heads>>
audit == <<attempts, receipts>>
out   == <<file, foreign, reports>>
vars  == <<db, sequence, audit, out, call, faults>>

NoView == [stored |-> {}, saved |-> {}, heads |-> <<>>]
Idle == [at |-> "idle", request |-> "none", run |-> "none", attempt |-> 0,
         view |-> NoView, writes |-> {}]

-----------------------------------------------------------------------------
(* Versions and the effective panel.                                       *)

Lookup(versions, kind, version) == {v \in versions : v.kind = kind /\ v.version = version}
OfEntity(versions, entity) == {v \in versions : v.kind = "actuals" /\ v.entity = entity}

\* _write: a version is inserted, found with the same content, or in conflict.
Rows(v) == Requests[v.of][v.kind].rows
Agrees(versions, kind, q) ==
  \A v \in Lookup(versions, kind, q[kind].version) : v.entity = q.entity /\ Rows(v) = q[kind].rows
Insert(versions, kind, x, number) ==
  LET q == Requests[x] IN
  IF Lookup(versions, kind, q[kind].version) # {} THEN {}
  ELSE {[kind |-> kind, version |-> q[kind].version, entity |-> q.entity,
         of |-> x, sequence |-> number]}

\* actuals_snapshot: the deltas of the entity up to a version, later ones win.
\* (mutation) the entity of a version is not looked at.
DeltasOfAll(versions, entity, number) ==
  {v \in versions : v.kind = "actuals" /\ v.sequence <= number}
Deltas(versions, entity, number) ==
  {v \in OfEntity(versions, entity) : v.sequence <= number}
Effective(versions, entity, number) ==
  LET deltas == Deltas(versions, entity, number)
      keys == UNION {DOMAIN Rows(v) : v \in deltas}
      Winner(k) == CHOOSE v \in deltas :
                     /\ k \in DOMAIN Rows(v)
                     /\ \A w \in deltas : k \in DOMAIN Rows(w) => w.sequence <= v.sequence
  IN  [k \in keys |-> [amount |-> Rows(Winner(k))[k], source |-> Winner(k).version]]
Amounts(panel) == Whole([k \in DOMAIN panel |-> panel[k].amount])

-----------------------------------------------------------------------------
(* What a close asks of its sources.                                       *)

\* _freshness: later than the head, or a correction of exactly it.
Fresh(head, q) ==
  IF head = NoHead THEN q.supersedes = "none"
  ELSE \/ q.close = head.close /\ q.supersedes = head.run
       \/ q.close > head.close /\ q.supersedes = "none"

\* prepare_close_sources, once both versions are written in the transaction.
LatestBasis(versions, q) ==
  \A v \in OfEntity(versions, q.entity) :
    \A w \in Lookup(versions, "actuals", q.actuals.version) : v.sequence <= w.sequence
Complete(q, panel) ==
  /\ \A k \in DOMAIN panel : k[2] <= q.close
  /\ \A l \in Leaves, p \in Annual(q.close) :
       /\ <<l, p>> \in DOMAIN q.budget.rows
       /\ p <= q.close => <<l, p>> \in DOMAIN panel

Bundle(x, panel) ==
  [request |-> x, effective |-> panel,
   report |-> BoardPack(Requests[x].budget.rows, Amounts(panel), Requests[x].close)]

\* validate_bundle: the report against the panels saved with it.
Validates(run, bundle) ==
  LET q == Requests[bundle.request]
      panel == Amounts(bundle.effective)
      budget(n, p) == Totals(q.budget.rows, p)[n]
      accounts == bundle.report.accounts
      elapsed == {p \in Annual(q.close) : p <= q.close}
  IN  /\ q.run = run
      /\ \A k \in DOMAIN q.actuals.rows : k \in DOMAIN panel /\ panel[k] = q.actuals.rows[k]
      /\ Reconciles(accounts) /\ bundle.report.claims = Claims(accounts)
      /\ \A n \in Nodes :
           /\ accounts[n].budget = budget(n, q.close)
           /\ accounts[n].actual = Totals(panel, q.close)[n]
           /\ accounts[n].forecast.ytd = SumOver(elapsed, LAMBDA p : Totals(panel, p)[n])
           /\ accounts[n].forecast.target =
                SumOver(Annual(q.close), LAMBDA p : budget(n, p))

-----------------------------------------------------------------------------
(* A close.                                                                *)

Init ==
  /\ stored = {} /\ saved = [r \in {} |-> NoBundle] /\ heads = [e \in Entities |-> NoHead]
  /\ sequence = 0 /\ attempts = <<>> /\ receipts = {}
  /\ file = {} /\ foreign = {} /\ reports = {}
  /\ call = [t \in Threads |-> Idle] /\ faults = 0

Event(n, status) == attempts' = [attempts EXCEPT ![n].status = status]
Go(t, stage) == call' = [call EXCEPT ![t].at = stage]
End(t) == call' = [call EXCEPT ![t] = Idle]
Here(t) == Requests[call[t].request]

\* execute_close: the attempt is on record before anything else happens.
Start(t, x) ==
  /\ call[t].at = "idle" /\ Len(attempts) < MaxCalls
  /\ attempts' = Append(attempts, [request |-> x, status |-> "started"])
  /\ call' = [call EXCEPT ![t] = [Idle EXCEPT !.at = "started", !.request = x,
                                    !.run = Requests[x].run, !.attempt = Len(attempts) + 1]]
  /\ UNCHANGED <<db, sequence, receipts, out, faults>>

\* The same run ID replays the same request and refuses another.
\* (mutation) the request is not compared.
ReplayAny(t) ==
  /\ call[t].at = "started" /\ call[t].run \in DOMAIN saved
  /\ Event(call[t].attempt, "replayed") /\ End(t)
  /\ UNCHANGED <<db, sequence, receipts, out, faults>>
Replay(t) ==
  /\ call[t].at = "started" /\ call[t].run \in DOMAIN saved
  /\ IF saved[call[t].run].request = call[t].request
     THEN Event(call[t].attempt, "replayed")
     ELSE Event(call[t].attempt, "failed")
  /\ End(t)
  /\ UNCHANGED <<db, sequence, receipts, out, faults>>

NotSaved(t) ==
  /\ call[t].at = "started" /\ call[t].run \notin DOMAIN saved /\ Go(t, "unsaved")
  /\ UNCHANGED <<db, sequence, audit, out, faults>>

Begin(t) ==
  /\ call[t].at = "unsaved"
  /\ call' = [call EXCEPT ![t].at = "open", ![t].view =
                [stored |-> stored, saved |-> DOMAIN saved, heads |-> heads]]
  /\ UNCHANGED <<db, sequence, audit, out, faults>>

\* The panel of a version as an open transaction sees it, with its own writes.
Panel(versions, q) ==
  LET basis == CHOOSE v \in Lookup(versions, "actuals", q.actuals.version) : TRUE
  IN  Effective(versions, q.entity, basis.sequence)

\* Sources and the head, in the transaction; numbers of versions are drawn
\* outside of it.
Prepare(t) ==
  LET q     == Here(t)
      view  == call[t].view
      budget  == Insert(view.stored, "budget", call[t].request, sequence + 1)
      actuals == Insert(view.stored, "actuals", call[t].request,
                        sequence + Cardinality(budget) + 1)
      all   == view.stored \cup budget \cup actuals
      sound == /\ q.run \notin view.saved
               /\ Fresh(view.heads[q.entity], q)
               /\ \A k \in Kinds : Agrees(view.stored, k, q)
               /\ LatestBasis(all, q) /\ Complete(q, Panel(all, q))
  IN  /\ call[t].at = "open"
      /\ IF sound
         THEN /\ sequence' = sequence + Cardinality(budget \cup actuals)
              /\ call' = [call EXCEPT ![t].at = "written", ![t].writes = budget \cup actuals]
              /\ UNCHANGED attempts
         ELSE Event(call[t].attempt, "failed") /\ End(t) /\ UNCHANGED sequence
      /\ UNCHANGED <<db, receipts, out, faults>>

\* What a commit collides with: rows that others committed meanwhile under
\* the keys it inserts or updates.
\* (mutation) the head is read and not written in the transaction.
CollidesOnKeys(t) ==
  \/ call[t].run \in DOMAIN saved
  \/ \E v \in call[t].writes : Lookup(stored, v.kind, v.version) # {}
Collides(t) ==
  \/ call[t].run \in DOMAIN saved
  \/ heads[Here(t).entity] # call[t].view.heads[Here(t).entity]
  \/ \E v \in call[t].writes : Lookup(stored, v.kind, v.version) # {}

\* The figures, from the same snapshot, and COMMIT: versions, forecasts, run
\* and head together, or nothing.
Commit(t) ==
  LET q == Here(t)
      bundle == Bundle(call[t].request, Panel(call[t].view.stored \cup call[t].writes, q))
  IN
  /\ call[t].at = "written"
  /\ IF Collides(t) \/ ~Reconciles(bundle.report.accounts)
     THEN Event(call[t].attempt, "failed") /\ End(t) /\ UNCHANGED db
     ELSE /\ stored' = stored \cup call[t].writes
          /\ saved' = [r \in DOMAIN saved \cup {q.run} |->
                         IF r = q.run THEN bundle ELSE saved[r]]
          /\ heads' = [heads EXCEPT ![q.entity] = [run |-> q.run, close |-> q.close]]
          /\ call' = [call EXCEPT ![t] = [Idle EXCEPT !.at = "saved", !.run = q.run,
                        !.request = call[t].request, !.attempt = call[t].attempt]]
          /\ UNCHANGED attempts
  /\ UNCHANGED <<sequence, receipts, out, faults>>

Committed(t) ==
  /\ call[t].at = "saved" /\ Event(call[t].attempt, "committed") /\ End(t)
  /\ UNCHANGED <<db, sequence, receipts, out, faults>>

\* An error or an interrupt after the writes, the caller's commit_hook
\* included; an earlier one ends alike.  The handler records a failure, also
\* when the transaction had committed and only the run could not be read back:
\* the close is saved all the same.  An event that cannot be written leaves
\* the attempt as it stands.
Fail(t) ==
  /\ faults < MaxFaults /\ faults' = faults + 1
  /\ call[t].at \in {"written", "saved"}
  /\ Event(call[t].attempt, "failed") \/ UNCHANGED attempts
  /\ End(t)
  /\ UNCHANGED <<db, sequence, receipts, out>>

-----------------------------------------------------------------------------
(* Exports.                                                                *)

Receipt(r, what, status) == receipts' = receipts \cup {[run |-> r, what |-> what, status |-> status]}
Exports(t, r) == call[t].at = "idle" /\ r \in Exported \cap DOMAIN saved /\ Cardinality(receipts) < MaxReceipts
Place(t, r, stage) == call' = [call EXCEPT ![t] = [Idle EXCEPT !.at = stage, !.run = r]]

\* deliver_run, after a close, a replay or with --recover: under the lock of
\* the run an equal file is accepted and another, of another database's run of
\* that name, is never replaced.
Deliver(t, r) ==
  /\ Exports(t, r) /\ r \notin foreign
  /\ file' = file \cup {r} /\ Place(t, r, "placed")
  /\ UNCHANGED <<db, sequence, audit, foreign, reports, faults>>

NameTaken(t, r) ==
  /\ Exports(t, r) /\ r \notin file
  /\ IF r \in foreign THEN UNCHANGED <<foreign, faults>>
     ELSE faults < MaxFaults /\ faults' = faults + 1 /\ foreign' = foreign \cup {r}
  /\ Receipt(r, "json", "failed")
  /\ UNCHANGED <<db, sequence, attempts, file, reports, call>>

Delivered(t) ==
  /\ call[t].at = "placed" /\ Receipt(call[t].run, "json", "delivered") /\ End(t)
  /\ UNCHANGED <<db, sequence, attempts, out, faults>>

\* export_reports: every saved close of the entity, validated again.  One that
\* does not validate ends the export before anything is written or recorded.
Related(r) ==
  {s \in DOMAIN saved : Requests[saved[s].request].entity = Requests[saved[r].request].entity}
Reviewed(bundle) == {n \in Nodes : bundle.report.accounts[n].quadrant \in Review}
Publish(t, r) ==
  LET related == Related(r) IN
  /\ Exports(t, r) /\ \A s \in related : Validates(s, saved[s])
  /\ reports' = reports \cup {[s \in related |-> Reviewed(saved[s])]} /\ Place(t, r, "published")
  /\ UNCHANGED <<db, sequence, audit, file, foreign, faults>>

Published(t) ==
  /\ call[t].at = "published" /\ Receipt(call[t].run, "html", "delivered") /\ End(t)
  /\ UNCHANGED <<db, sequence, attempts, out, faults>>

\* A write, rename or receipt fails: recorded as failed, also when the file is
\* in place; one that fails before ends like a name that is taken.
DeliveryFails(t) ==
  /\ faults < MaxFaults /\ faults' = faults + 1
  /\ \/ call[t].at = "placed" /\ Receipt(call[t].run, "json", "failed") /\ End(t)
     \/ call[t].at = "published" /\ Receipt(call[t].run, "html", "failed") /\ End(t)
  /\ UNCHANGED <<db, sequence, attempts, out>>

\* The process dies: open transactions are gone, everything saved stays.
Crash ==
  /\ faults < MaxFaults /\ faults' = faults + 1
  /\ call # [t \in Threads |-> Idle] /\ call' = [t \in Threads |-> Idle]
  /\ UNCHANGED <<db, sequence, audit, out>>

Next ==
  \/ \E t \in Threads :
       \/ \E x \in Names : Start(t, x)
       \/ \E r \in Runs : Deliver(t, r) \/ NameTaken(t, r) \/ Publish(t, r)
       \/ Replay(t) \/ NotSaved(t) \/ Begin(t) \/ Prepare(t) \/ Commit(t) \/ Committed(t) \/ Fail(t)
       \/ Delivered(t) \/ Published(t) \/ DeliveryFails(t)
  \/ Crash

Spec == Init /\ [][Next]_vars

-----------------------------------------------------------------------------
(* Properties.                                                             *)

\* What a saved close says it used is what the store still gives for its
\* version, observation by observation, whatever was restated since or drew
\* a number while it was open (docs/agent4-close-recovery.md:83-92), and its
\* accounts tie: an account's effect on the result is the sum of those of
\* the lines below it (hierarchy.py:10-25).
AsStored(q, b) ==
  LET Named(kind, version) == CHOOSE v \in Lookup(stored, kind, version) : TRUE
      basis  == Named("actuals", q.actuals.version)
      deltas == {v \in stored : /\ v.kind = "actuals" /\ v.entity = q.entity
                                /\ v.sequence <= basis.sequence}
  IN  /\ \A kind \in Kinds : \E v \in Lookup(stored, kind, q[kind].version) :
            v.entity = q.entity /\ Rows(v) = q[kind].rows
      /\ DOMAIN b.effective = UNION {DOMAIN Rows(v) : v \in deltas}
      /\ \A k \in DOMAIN b.effective :
            LET v == Named("actuals", b.effective[k].source) IN
            /\ v \in deltas /\ k \in DOMAIN Rows(v) /\ Rows(v)[k] = b.effective[k].amount
            /\ \A w \in deltas : w.sequence > v.sequence => k \notin DOMAIN Rows(w)
LinesBelow == LET below[n \in Nodes] == IF n \in Leaves THEN {n}
                                        ELSE UNION {below[c] : c \in Children(n)}
              IN  below
Ties(accounts) ==
  \A n \in Nodes : accounts[n].impact = SumOver(LinesBelow[n], LAMBDA l : accounts[l].impact)
SavedCloseStands ==
  \A r \in DOMAIN saved : /\ AsStored(Requests[saved[r].request], saved[r])
                          /\ Ties(saved[r].report.accounts)

\* The closes of an entity form one line ending in its head: a period has one
\* original, every correction names its predecessor and no close has two
\* successors, also when connections close at the same time (close.py:105-122).
OneLineOfCloses ==
  \A e \in Entities :
    LET line == {r \in DOMAIN saved : Requests[saved[r].request].entity = e}
        Of(r) == Requests[saved[r].request]
    IN  /\ IF line = {} THEN heads[e] = NoHead
           ELSE /\ heads[e].run \in line
                /\ \A r \in line : /\ Of(r).close <= heads[e].close
                                   /\ Of(r).supersedes # heads[e].run
        /\ \A r \in line : Of(r).supersedes # "none" =>
             Of(r).supersedes \in line /\ Of(Of(r).supersedes).close = Of(r).close
        /\ \A r, s \in line :
             r # s /\ Of(r).close = Of(s).close => Of(r).supersedes # Of(s).supersedes

\* What the records say of a run happened: a close on record as committed or
\* replayed is saved with that request, no run is committed twice on record,
\* a saved close has an attempt of its request that is not a replay, whatever
\* that one recorded (a failure proves no rollback), and an export on record is
\* the saved bundle, no other file ever replaced (close.py:125-140, 288-328,
\* docs/agent4-close-recovery.md:123-128).
RecordsTruthful ==
  /\ \A n \in DOMAIN attempts : attempts[n].status \in {"committed", "replayed"} =>
        \E r \in DOMAIN saved : saved[r].request = attempts[n].request
  /\ \A m, n \in DOMAIN attempts :
        /\ attempts[m].status = "committed" /\ attempts[n].status = "committed"
        /\ Requests[attempts[m].request].run = Requests[attempts[n].request].run
        => m = n
  /\ \A r \in DOMAIN saved : \E n \in DOMAIN attempts :
        attempts[n].request = saved[r].request /\ attempts[n].status # "replayed"
  /\ \A x \in receipts : x.status = "delivered" =>
        IF x.what = "json" THEN x.run \in file \ foreign
        ELSE \E p \in reports : x.run \in DOMAIN p /\
               \A s \in DOMAIN p : p[s] = Reviewed(saved[s])
=============================================================================
