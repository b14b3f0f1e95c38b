----------------------------- MODULE JobWorker -----------------------------
(***************************************************************************)
(* The background execution of Keystone workspace jobs: the SQLite ledger  *)
(* (job_store.py), the worker that runs one job at a time (worker.py), the *)
(* supervised child (operation.py, saved_job.py), the publication of the   *)
(* finished run in the workspace catalogue (job_delivery.py) and the       *)
(* operator's commands (__main__.py).  Processes die at any point; what    *)
(* survives is the ledger, the files, the catalogue and a live child.      *)
(*                                                                         *)
(* Two kinds of job differ here.  A SAVED job reruns a registered report   *)
(* (record schema 1) and checks its source only before the child starts;   *)
(* a DATASET job (schema 2) checks it again at every verification.  Fresh  *)
(* closes (schema 3) are in FreshClose; the local profiles (4 and 5), whose*)
(* recovery also accepts a failed attempt, are in no module.               *)
(***************************************************************************)
EXTENDS Integers, FiniteSets

CONSTANTS MaxRetained,   \* MAX_RETAINED_JOBS: jobs a ledger ever holds
          MaxPending,    \* MAX_PENDING_JOBS: queued and running together
          MaxRuns,       \* runs a workspace catalogue may list
          Workers,       \* worker processes that may be started
          Operators,     \* recover-job invocations
          Dataset,       \* jobs whose record has schema 2
          NRestored,     \* jobs an older, put-back ledger already holds
          QueueOnly      \* the server runs with its worker enabled

Jobs        == 1..MaxRetained
Restored    == 1..NRestored
Controllers == Workers \cup Operators

ASSUME BoundsAssumption ==
  /\ MaxRetained \in Nat /\ MaxPending \in Nat /\ MaxRuns \in Nat
  /\ NRestored \in 0..MaxRetained
  /\ QueueOnly \in BOOLEAN
  /\ Dataset \subseteq Jobs

ASSUME ProcessAssumption == Workers \cap Operators = {}

VARIABLES
  count,      \* jobs admitted so far; sequence numbers are 1..count
  status,     \* executions.status of each job
  event,      \* the job's latest audit event
  verified,   \* inputs_verified_at is set
  result,     \* the prepared result is recorded
  held,       \* jobs under a restoration hold
  sourceOk,   \* the live source still matches what admission pinned
  folder,     \* jobs/<id>: absent, partial (being copied) or ready
  receipt,    \* operations/<op>/operation.json
  stage,      \* jobs/<id>/result, written by the child
  promoted,   \* runs/<result id> exists in the workspace
  catalog,    \* results of this ledger listed in catalog.json
  foreign,    \* runs listed there by anyone else
  child,      \* the supervised process of each job
  cli,        \* another command holds the checkout's mutator lease
  armed,      \* jobs whose child has set its alarm
  pc, job,    \* where each worker or operator is, and on which job
  op,         \* what the supervisor concluded, before and after it returns
  spawns      \* history: times a process was started for the job

ledger == <<count, status, event, verified, result, held>>
files  == <<folder, receipt, stage, promoted, catalog, foreign>>
procs  == <<pc, job, op>>
world  == <<sourceOk, cli, armed>>
vars   == <<ledger, files, procs, world, child, spawns>>

Statuses == {"absent", "queued", "running", "review_required",
             "source_changed", "failed", "outcome_unknown", "delivery_failed"}
Terminal == Statuses \ {"absent", "queued", "running"}
Events   == {"none", "admitted", "claimed", "inputs_verified", "prepared",
             "registered", "failed", "source_changed", "interrupted",
             "delivery_failed", "recovered"}
Receipts == {"none", "admitted", "running", "review_required",
             "failed_inspect_state", "outcome_unknown"}

\* run_one after claim_next, in the order of its statements.
PrepPcs    == {"claimed", "copying", "copied"}
SupervPcs  == {"verified", "admitted", "spawned", "waiting", "stopping", "stopped"}
PublishPcs == {"recorded", "promoted", "cataloged"}
\* (mutation) The handler asks for the operation instead of the result.
ReturnedPcs == {"finished", "checked"} \cup PublishPcs
ResultPcs  == {"checked"} \cup PublishPcs
AttemptPcs == PrepPcs \cup SupervPcs \cup {"finished"} \cup ResultPcs
WorkerPcs  == {"down", "starting", "idle"} \cup AttemptPcs
RecoverPcs == {"recovering"} \cup PublishPcs
OperatorPcs == {"down", "ready"} \cup RecoverPcs
GatePcs    == AttemptPcs \cup RecoverPcs

----------------------------------------------------------------------------
(* Locks.  worker.lock is held by whoever opened the ledger as a worker;   *)
(* the mutator lock by whoever is inside gate().  The child inherits both. *)

\* (mutation) pass_fds forgotten: the child inherits no lock.
DescriptorsClosed == FALSE
ChildAlive == \E j \in Jobs : child[j] = "running"
LeaseFree  == ~ChildAlive /\ \A p \in Controllers : pc[p] = "down"
MutatorFree == ~ChildAlive /\ ~cli /\ \A p \in Controllers : pc[p] \notin GatePcs

Pending == {j \in Jobs : status[j] \in {"queued", "running"}}
Listed  == foreign + Cardinality(catalog)
\* prepare_inputs' own count, and the manifest publish_result would write.
CatalogRoom == Listed < MaxRuns
\* (mutation) publish_result trusts the count of prepare_inputs.
RoomAssumed == TRUE
PublishRoom == Listed < MaxRuns
\* (mutation) restoration holds are ignored, or block those behind them.
NextIgnoringHolds(j) ==
  status[j] = "queued" /\ \A i \in Jobs : status[i] = "queued" => j <= i
NextBehindHolds(j) == NextIgnoringHolds(j) /\ j \notin held
\* next_queued: first in sequence order that no restoration holds.
NextQueued(j) ==
  /\ status[j] = "queued" /\ j \notin held
  /\ \A i \in Jobs : status[i] = "queued" /\ i \notin held => j <= i
\* The job directory or the operation directory was used before.
Used(j) == folder[j] # "absent" \/ receipt[j] # "none"
\* (mutation) The check of the catalogue is left out.
NeverRegistered(j) == FALSE
\* A run under this job's identity is already listed.
Registered(j) == j \in catalog
\* (mutation) The receipt is not looked at.
StageHolds(j) == stage[j] = "complete"
\* verified_result and operation_proof: a dataset job's live source, the
\* child's complete output and a successful receipt, the only one that schemas
\* 1 and 2 accept.
SourceHolds(j) == j \in Dataset => sourceOk[j]
ProofHolds(j)  == stage[j] = "complete" /\ receipt[j] = "review_required"

\* What every read of a job asks of its row: _execution's table of the latest
\* event, the phase validator, and no hold but on a queued job (_public).
EventAgrees(j) ==
  event[j] \in CASE status[j] = "queued"  -> {"admitted"}
                 [] status[j] = "running" -> {"claimed", "inputs_verified", "prepared"}
                 [] status[j] = "review_required" -> {"registered", "recovered"}
                 [] status[j] = "outcome_unknown" -> {"interrupted"}
                 [] OTHER -> {status[j]}
PhaseAgrees(j) ==
  /\ status[j] = "queued" => ~verified[j] /\ ~result[j]
  /\ status[j] \in {"review_required", "delivery_failed"} => result[j]
  /\ result[j] => verified[j]
HoldAgrees(j) == j \in held => status[j] = "queued"
Legible(j) == EventAgrees(j) /\ PhaseAgrees(j) /\ HoldAgrees(j)

\* _save_execution: the record and its event change in one transaction.
Save(j, s, e) ==
  /\ status' = [status EXCEPT ![j] = s]
  /\ event'  = [event EXCEPT ![j] = e]
\* (mutation) The receipt repeats the cause.
ReceiptVerbatim(o) == o
\* operation.json has one word for a deadline and for a cancellation.
ReceiptOf(o) == IF o = "cancelled" THEN "outcome_unknown" ELSE o
Goto(p, l) == pc' = [pc EXCEPT ![p] = l]
\* An attempt, a command or a process ends and its local variables with it.
Leave(p, l) ==
  /\ Goto(p, l)
  /\ job' = [job EXCEPT ![p] = 0]
  /\ op'  = [op EXCEPT ![p] = "none"]
----------------------------------------------------------------------------
\* What an older ledger can find on disk about a job it still lists as queued:
\* nothing (it never ran), or the traces of a run the ledger does not know:
\* its directories, a successful receipt in them, a run in the catalogue.
NoTrace == [spawned |-> FALSE, dir |-> FALSE, done |-> FALSE, listed |-> FALSE]
Traces  == {NoTrace} \cup
  {t \in [spawned : {TRUE}, dir : BOOLEAN, done : BOOLEAN, listed : BOOLEAN] :
     (t.dir \/ t.listed) /\ (t.listed => t.done)}

Init ==
  /\ count = NRestored
  /\ status = [j \in Jobs |-> IF j \in Restored THEN "queued" ELSE "absent"]
  /\ event  = [j \in Jobs |-> IF j \in Restored THEN "admitted" ELSE "none"]
  /\ verified = [j \in Jobs |-> FALSE] /\ result = [j \in Jobs |-> FALSE]
  /\ held = Restored \cap Dataset
  /\ sourceOk = [j \in Jobs |-> TRUE]
  /\ \E t \in [Jobs -> Traces] :
       /\ \A j \in Jobs : j \notin Restored \/ j \in Dataset => t[j] = NoTrace
       /\ folder  = [j \in Jobs |-> IF t[j].dir THEN "ready" ELSE "absent"]
       /\ receipt = [j \in Jobs |-> CASE ~t[j].dir -> "none"
                                     [] t[j].dir /\ t[j].done -> "review_required"
                                     [] OTHER -> "running"]
       /\ stage   = [j \in Jobs |-> CASE ~t[j].dir -> "none"
                                     [] t[j].dir /\ t[j].done -> "complete"
                                     [] OTHER -> "partial"]
       /\ promoted = {j \in Jobs : t[j].listed}
       /\ catalog  = {j \in Jobs : t[j].listed}
       /\ spawns = [j \in Jobs |-> IF t[j].spawned THEN 1 ELSE 0]
  /\ child = [j \in Jobs |-> "none"]
  /\ foreign = 1 /\ Listed <= MaxRuns
  /\ cli = FALSE /\ armed = {}
  /\ pc  = [p \in Controllers |-> "down"]
  /\ job = [p \in Controllers |-> 0]
  /\ op  = [p \in Controllers |-> "none"]
----------------------------------------------------------------------------
(* Admission, the operator's release of a restored job, and the outside.   *)

\* JobStore.admit of a new identity.
Submit ==
  /\ QueueOnly \/ MutatorFree
  /\ count < MaxRetained /\ Cardinality(Pending) < MaxPending
  /\ count' = count + 1
  /\ Save(count + 1, "queued", "admitted")
  /\ UNCHANGED <<verified, result, held, files, procs, world, child, spawns>>

\* release_restored_job: held, still queued, source current, never started.
ReleaseRestored(j) ==
  /\ LeaseFree /\ MutatorFree
  /\ j \in held /\ status[j] = "queued" /\ sourceOk[j] /\ ~Used(j)
  /\ held' = held \ {j}
  /\ UNCHANGED <<count, status, event, verified, result, files, procs, world, child, spawns>>

\* A policy expires or is revoked, an input is unreadable, a file is edited
\* or put back: current_version and matching_source answer differently.
SourceChange(j) ==
  /\ j <= count
  /\ sourceOk' = [sourceOk EXCEPT ![j] = ~@]
  /\ UNCHANGED <<ledger, files, procs, cli, armed, child, spawns>>

\* Another command of the checkout takes the mutator lease; one that works
\* on the same workspace for another control directory may list a run.
CliEnter ==
  /\ MutatorFree /\ cli' = TRUE
  /\ UNCHANGED <<ledger, files, procs, sourceOk, armed, child, spawns>>
CliRegister ==
  /\ cli /\ CatalogRoom /\ foreign' = foreign + 1
  /\ UNCHANGED <<ledger, folder, receipt, stage, promoted, catalog, procs, world, child, spawns>>
CliExit ==
  /\ cli /\ cli' = FALSE
  /\ UNCHANGED <<ledger, files, procs, sourceOk, armed, child, spawns>>
----------------------------------------------------------------------------
(* The supervised child: saved_job.main and render.                        *)

\* main reads the record and sets the alarm before it renders anything.
ChildArm(j) ==
  /\ child[j] = "running" /\ j \notin armed
  /\ armed' = armed \cup {j}
  /\ UNCHANGED <<ledger, files, procs, sourceOk, cli, child, spawns>>
ChildStage(j) ==
  /\ child[j] = "running" /\ j \in armed /\ stage[j] = "none"
  /\ stage' = [stage EXCEPT ![j] = "partial"]
  /\ UNCHANGED <<ledger, folder, receipt, promoted, catalog, foreign, procs, world, child, spawns>>
ChildComplete(j) ==
  /\ child[j] = "running" /\ stage[j] = "partial"
  /\ stage' = [stage EXCEPT ![j] = "complete"]
  /\ UNCHANGED <<ledger, folder, receipt, promoted, catalog, foreign, procs, world, child, spawns>>
\* return 3 from render.
ChildExit(j) ==
  /\ child[j] = "running" /\ stage[j] = "complete"
  /\ child' = [child EXCEPT ![j] = "succeeded"]
  /\ UNCHANGED <<ledger, files, procs, world, spawns>>
\* (mutation) The alarm is cancelled before rendering.
ChildAlarmEarly(j) ==
  /\ child[j] = "running" /\ j \in armed /\ stage[j] = "none"
  /\ child' = [child EXCEPT ![j] = "failed"]
  /\ UNCHANGED <<ledger, files, procs, world, spawns>>
\* SIGALRM, with its default action: no handler of the child can refuse it.
ChildAlarm(j) ==
  /\ child[j] = "running" /\ j \in armed
  /\ child' = [child EXCEPT ![j] = "failed"]
  /\ UNCHANGED <<ledger, files, procs, world, spawns>>
\* An error (exit 2), or a signal from elsewhere.
ChildFail(j) ==
  /\ child[j] = "running"
  /\ child' = [child EXCEPT ![j] = "failed"]
  /\ UNCHANGED <<ledger, files, procs, world, spawns>>
----------------------------------------------------------------------------
(* The worker process.                                                     *)

\* JobStore(worker=True): the lease, under the gate.
WorkerStart(w) ==
  /\ pc[w] = "down" /\ LeaseFree /\ MutatorFree
  /\ Goto(w, "starting")
  /\ UNCHANGED <<ledger, files, job, op, world, child, spawns>>

\* (mutation) The call is left out.
ForgetRunning(w) ==
  /\ pc[w] = "starting" /\ MutatorFree /\ Goto(w, "idle")
  /\ UNCHANGED <<ledger, files, job, op, world, child, spawns>>
\* main: interrupt_running, before the first claim.
InterruptRunning(w) ==
  /\ pc[w] = "starting" /\ MutatorFree
  /\ status' = [j \in Jobs |-> IF status[j] = "running" THEN "outcome_unknown" ELSE status[j]]
  /\ event'  = [j \in Jobs |-> IF status[j] = "running" THEN "interrupted" ELSE event[j]]
  /\ Goto(w, "idle")
  /\ UNCHANGED <<count, verified, result, held, files, job, op, world, child, spawns>>
\* A busy gate there ends the process (main: exit 2).
StartRefused(w) ==
  /\ pc[w] = "starting" /\ ~MutatorFree
  /\ Goto(w, "down")
  /\ UNCHANGED <<ledger, files, job, op, world, child, spawns>>

\* run_one: the gate, then claim_next.
Claim(w) ==
  /\ pc[w] = "idle" /\ MutatorFree
  /\ \E j \in Jobs : /\ NextQueued(j)
                     /\ Save(j, "running", "claimed")
                     /\ job' = [job EXCEPT ![w] = j]
  /\ Goto(w, "claimed")
  /\ UNCHANGED <<count, verified, result, held, files, op, world, child, spawns>>

\* run_one leaves the attempt: a last record, then the next iteration.
End(w, s, e) ==
  /\ Save(job[w], s, e)
  /\ Leave(w, "idle")
  /\ UNCHANGED <<count, verified, held, world, spawns>>

\* A used directory, or (saved in prepare_inputs) a run already listed, is
\* held for inspection instead of being run again.
RefuseReused(w) ==
  /\ pc[w] = "claimed"
  /\ \/ Used(job[w])
     \/ sourceOk[job[w]] /\ Registered(job[w])
  /\ End(w, "outcome_unknown", "interrupted")
  /\ UNCHANGED <<result, files, child>>

\* prepare_inputs or verified_result finds another source.  The second check
\* of prepare_inputs comes after the copy; the dataset profile repeats it in
\* verified_result (after the child) and in publish_result.
SourceRefused(w) ==
  LET j == job[w] IN
  /\ \/ pc[w] = "claimed" /\ ~Used(j)
     \/ pc[w] = "copying"
     \/ j \in Dataset /\ pc[w] = "finished" /\ op[w] = "review_required"
     \/ j \in Dataset /\ pc[w] = "recorded"
  /\ ~sourceOk[j]
  /\ End(w, "source_changed", "source_changed")
  /\ UNCHANGED <<result, files, child>>

\* prepare_inputs: the directory, its job.json and the copied artifacts.
StartCopy(w) ==
  LET j == job[w] IN
  /\ pc[w] = "claimed" /\ ~Used(j) /\ sourceOk[j] /\ ~Registered(j) /\ CatalogRoom
  /\ folder' = [folder EXCEPT ![j] = "partial"]
  /\ Goto(w, "copying")
  /\ UNCHANGED <<ledger, receipt, stage, promoted, catalog, foreign, job, op, world, child, spawns>>
FinishCopy(w) ==
  /\ pc[w] = "copying" /\ sourceOk[job[w]]
  /\ folder' = [folder EXCEPT ![job[w]] = "ready"]
  /\ Goto(w, "copied")
  /\ UNCHANGED <<ledger, receipt, stage, promoted, catalog, foreign, job, op, world, child, spawns>>
MarkVerified(w) ==
  /\ pc[w] = "copied"
  /\ Save(job[w], "running", "inputs_verified")
  /\ verified' = [verified EXCEPT ![job[w]] = TRUE]
  /\ Goto(w, "verified")
  /\ UNCHANGED <<count, result, held, files, job, op, world, child, spawns>>

\* operation.execute: mkdir(exist_ok=False) and the first receipt.
OpAdmit(w) ==
  /\ pc[w] = "verified" /\ receipt[job[w]] = "none"
  /\ receipt' = [receipt EXCEPT ![job[w]] = "admitted"]
  /\ Goto(w, "admitted")
  /\ UNCHANGED <<ledger, folder, stage, promoted, catalog, foreign, job, op, world, child, spawns>>
OpSpawn(w) ==
  /\ pc[w] = "admitted"
  /\ child'  = [child EXCEPT ![job[w]] = "running"]
  /\ spawns' = [spawns EXCEPT ![job[w]] = @ + 1]
  /\ Goto(w, "spawned")
  /\ UNCHANGED <<ledger, files, job, op, world>>
OpRunning(w) ==
  /\ pc[w] = "spawned"
  /\ receipt' = [receipt EXCEPT ![job[w]] = "running"]
  /\ Goto(w, "waiting")
  /\ UNCHANGED <<ledger, folder, stage, promoted, catalog, foreign, job, op, world, child, spawns>>
\* process.wait returned: outcome() of the exit code.
OpReaped(w) ==
  /\ pc[w] = "waiting" /\ child[job[w]] # "running"
  /\ op' = [op EXCEPT ![w] = IF child[job[w]] = "succeeded" THEN "review_required"
                             ELSE "failed_inspect_state"]
  /\ Goto(w, "stopping")
  /\ UNCHANGED <<ledger, files, job, world, child, spawns>>
\* The deadline, a failed start or receipt write, or (cancelled) a signal:
\* execute's own handlers.
OpAbandon(w, why) ==
  /\ pc[w] \in {"admitted", "spawned", "waiting"}
  /\ why = "cancelled" => pc[w] # "admitted"
  /\ op' = [op EXCEPT ![w] = why]
  /\ Goto(w, "stopping")
  /\ UNCHANGED <<ledger, files, job, world, child, spawns>>
\* killpg and wait in execute's finally.
OpKill(w) ==
  /\ pc[w] = "stopping"
  /\ child' = [child EXCEPT ![job[w]] = IF @ = "running" THEN "failed" ELSE @]
  /\ Goto(w, "stopped")
  /\ UNCHANGED <<ledger, files, job, op, world, spawns>>
\* The final receipt, and execute returns.
OpReceipt(w) ==
  /\ pc[w] = "stopped"
  /\ receipt' = [receipt EXCEPT ![job[w]] = ReceiptOf(op[w])]
  /\ Goto(w, "finished")
  /\ UNCHANGED <<ledger, folder, stage, promoted, catalog, foreign, job, op, world, child, spawns>>

\* (mutation) Only a plain failure is handled.
RecordPlainFailure(w) ==
  /\ pc[w] = "finished" /\ op[w] = "failed_inspect_state"
  /\ End(w, "failed", "failed")
  /\ UNCHANGED <<result, files, child>>
\* run_one on an operation that did not succeed; a cancelled one also stops
\* the worker.
RecordOpFailure(w) ==
  /\ pc[w] = "finished" /\ op[w] # "review_required"
  /\ IF op[w] = "failed_inspect_state" THEN Save(job[w], "failed", "failed")
                                       ELSE Save(job[w], "outcome_unknown", "interrupted")
  /\ Leave(w, IF op[w] = "cancelled" THEN "down" ELSE "idle")
  /\ UNCHANGED <<count, verified, result, held, files, world, child, spawns>>

\* verified_result, then the 'prepared' record.
Verify(w) ==
  /\ pc[w] = "finished" /\ op[w] = "review_required"
  /\ SourceHolds(job[w]) /\ ProofHolds(job[w])
  /\ Goto(w, "checked")
  /\ UNCHANGED <<ledger, files, job, op, world, child, spawns>>
RecordPrepared(w) ==
  /\ pc[w] = "checked"
  /\ Save(job[w], "running", "prepared")
  /\ result' = [result EXCEPT ![job[w]] = TRUE]
  /\ Goto(w, "recorded")
  /\ UNCHANGED <<count, verified, held, files, job, op, world, child, spawns>>

(* publish_result, entered by the worker and by the recovering operator:   *)
(* verify again, then the run folder, then the catalogue entry.            *)
Promote(p) ==
  LET j == job[p] IN
  /\ pc[p] = "recorded" /\ SourceHolds(j) /\ ProofHolds(j)
  /\ j \notin catalog /\ PublishRoom
  /\ promoted' = promoted \cup {j}
  /\ Goto(p, "promoted")
  /\ UNCHANGED <<ledger, folder, receipt, stage, catalog, foreign, job, op, world, child, spawns>>
\* (mutation) An existing run folder counts as a registration.
AlreadyPromoted(p) ==
  LET j == job[p] IN
  /\ pc[p] = "recorded" /\ SourceHolds(j) /\ ProofHolds(j) /\ j \in promoted
  /\ Goto(p, "cataloged")
  /\ UNCHANGED <<ledger, files, job, op, world, child, spawns>>
AlreadyListed(p) ==
  LET j == job[p] IN
  /\ pc[p] = "recorded" /\ SourceHolds(j) /\ ProofHolds(j) /\ j \in catalog
  /\ Goto(p, "cataloged")
  /\ UNCHANGED <<ledger, files, job, op, world, child, spawns>>
\* _replace_inventory: readers see the old list or the complete new one.
Replace(p) ==
  /\ pc[p] = "promoted"
  /\ catalog' = catalog \cup {job[p]}
  /\ Goto(p, "cataloged")
  /\ UNCHANGED <<ledger, folder, receipt, stage, promoted, foreign, job, op, world, child, spawns>>

Register(w) ==
  /\ w \in Workers /\ pc[w] = "cataloged"
  /\ End(w, "review_required", "registered")
  /\ UNCHANGED <<result, files, child>>

(* run_one's last handler: any statement may raise, and what the attempt   *)
(* had reached decides the record.  Between Popen and the final receipt    *)
(* the supervisor's own handlers answer first (OpAbandon).                 *)
PreparationError(w) ==
  /\ \/ pc[w] \in PrepPcs
     \/ pc[w] = "finished" /\ op[w] = "review_required"
  /\ End(w, "failed", "failed")
  /\ UNCHANGED <<result, files, child>>
SupervisionError(w) ==
  /\ pc[w] \in {"verified", "admitted", "stopped"}
  /\ End(w, "outcome_unknown", "interrupted")
  /\ UNCHANGED <<result, files, child>>
\* (mutation) The result is not stored, or delivery errors count as failures.
DeliveryErrorBare(w) ==
  /\ pc[w] \in ResultPcs
  /\ End(w, "delivery_failed", "delivery_failed")
  /\ UNCHANGED <<result, files, child>>
DeliveryErrorFailed(w) ==
  /\ pc[w] \in ResultPcs
  /\ End(w, "failed", "failed")
  /\ UNCHANGED <<result, files, child>>
DeliveryError(w) ==
  /\ pc[w] \in ResultPcs
  /\ End(w, "delivery_failed", "delivery_failed")
  /\ result' = [result EXCEPT ![job[w]] = TRUE]
  /\ UNCHANGED <<files, child>>

\* SIGTERM or SIGINT outside the supervisor's wait: KeyboardInterrupt leaves
\* run_one through its own handler, and main stops.  A second signal that
\* lands before killpg ("stopping") leaves the child alive.
Interrupt(w) ==
  /\ w \in Workers /\ pc[w] \notin {"down", "spawned", "waiting"}
  /\ IF pc[w] \in AttemptPcs THEN Save(job[w], "outcome_unknown", "interrupted")
                             ELSE UNCHANGED <<status, event>>
  /\ Leave(w, "down")
  /\ UNCHANGED <<count, verified, result, held, files, world, child, spawns>>

\* Power loss or SIGKILL of one process; its child, if any, lives on.
Crash(p) ==
  /\ pc[p] # "down" /\ Leave(p, "down")
  /\ UNCHANGED <<ledger, files, world, child, spawns>>
----------------------------------------------------------------------------
(* recover-job: delivery only.                                             *)

OpenRecovery(o, j) ==
  /\ pc[o] = "down" /\ LeaseFree /\ MutatorFree /\ j <= count
  /\ job' = [job EXCEPT ![o] = j] /\ Goto(o, "ready")
  /\ UNCHANGED <<ledger, files, op, world, child, spawns>>

\* recover_delivery: the gate, then an orphaned attempt is closed first.
RecoverBegin(o) ==
  LET j == job[o] IN
  /\ pc[o] = "ready" /\ MutatorFree
  /\ IF status[j] = "running" THEN Save(j, "outcome_unknown", "interrupted")
                              ELSE UNCHANGED <<status, event>>
  /\ Goto(o, "recovering")
  /\ UNCHANGED <<count, verified, result, held, files, job, op, world, child, spawns>>
\* A failed attempt is refused, as in schemas 1 and 2.
RecoverVerify(o) ==
  LET j == job[o] IN
  /\ pc[o] = "recovering"
  /\ status[j] \in {"delivery_failed", "outcome_unknown", "review_required"}
  /\ SourceHolds(j) /\ ProofHolds(j) /\ folder[j] = "ready"
  /\ Goto(o, "recorded")
  /\ UNCHANGED <<ledger, files, job, op, world, child, spawns>>
RecoverRecord(o) ==
  LET j == job[o] IN
  /\ o \in Operators /\ pc[o] = "cataloged"
  /\ IF status[j] = "review_required" THEN UNCHANGED <<status, event, verified, result>>
     ELSE /\ Save(j, "review_required", "recovered")
          /\ result' = [result EXCEPT ![j] = TRUE]
          /\ verified' = [verified EXCEPT ![j] = TRUE]
  /\ Leave(o, "down")
  /\ UNCHANGED <<count, held, files, world, child, spawns>>
\* A busy gate, a status outside the table, missing or changed evidence, a
\* changed source, a full catalogue: the command ends, nothing is rewritten.
RecoverRefused(o) ==
  /\ o \in Operators
  /\ \/ pc[o] = "ready" /\ ~MutatorFree
     \/ pc[o] \in RecoverPcs
  /\ Leave(o, "down")
  /\ UNCHANGED <<ledger, files, world, child, spawns>>
----------------------------------------------------------------------------
Outside == \/ Submit \/ CliEnter \/ CliRegister \/ CliExit
           \/ \E j \in Jobs : ReleaseRestored(j) \/ SourceChange(j)
ChildStep(j) == \/ ChildArm(j) \/ ChildStage(j) \/ ChildComplete(j) \/ ChildExit(j)
                \/ ChildAlarm(j) \/ ChildFail(j)
Publish(p) == Promote(p) \/ AlreadyListed(p) \/ Replace(p)
WorkerStep(w) ==
  \/ InterruptRunning(w) \/ StartRefused(w) \/ Claim(w)
  \/ RefuseReused(w) \/ SourceRefused(w)
  \/ StartCopy(w) \/ FinishCopy(w) \/ MarkVerified(w)
  \/ OpAdmit(w) \/ OpSpawn(w) \/ OpRunning(w) \/ OpReaped(w)
  \/ OpAbandon(w, "outcome_unknown") \/ OpKill(w) \/ OpReceipt(w) \/ RecordOpFailure(w)
  \/ Verify(w) \/ RecordPrepared(w) \/ Publish(w) \/ Register(w)
  \/ PreparationError(w) \/ SupervisionError(w) \/ DeliveryError(w)
OperatorStep(o) == \/ RecoverBegin(o) \/ RecoverVerify(o) \/ Publish(o)
                   \/ RecoverRecord(o) \/ RecoverRefused(o)

Next ==
  \/ Outside
  \/ \E j \in Jobs : ChildStep(j)
  \/ \E w \in Workers : WorkerStart(w) \/ WorkerStep(w) \/ Interrupt(w) \/ OpAbandon(w, "cancelled")
  \/ \E o \in Operators : OperatorStep(o) \/ \E j \in Jobs : OpenRecovery(o, j)
  \/ \E p \in Controllers : Crash(p)

Spec == Init /\ [][Next]_vars

\* The worker loop runs, a child gets as far as its alarm, an alarm that is set
\* goes off, other commands finish.  Nothing is fair about what a child does
\* after that, about crashes, signals, operators or sources.
FairSpec ==
  /\ Spec
  /\ \A w \in Workers : WF_vars(WorkerStep(w))
  /\ \A j \in Jobs : WF_vars(ChildArm(j)) /\ WF_vars(ChildAlarm(j))
  /\ WF_vars(CliExit)
----------------------------------------------------------------------------
(* What the code promises.                                                 *)

TypeOK ==
  /\ count \in 0..MaxRetained
  /\ status \in [Jobs -> Statuses] /\ event \in [Jobs -> Events]
  /\ verified \in [Jobs -> BOOLEAN] /\ result \in [Jobs -> BOOLEAN]
  /\ held \subseteq Jobs
  /\ sourceOk \in [Jobs -> BOOLEAN]
  /\ folder \in [Jobs -> {"absent", "partial", "ready"}]
  /\ receipt \in [Jobs -> Receipts]
  /\ stage \in [Jobs -> {"none", "partial", "complete"}]
  /\ promoted \subseteq Jobs /\ catalog \subseteq Jobs /\ foreign \in Nat
  /\ child \in [Jobs -> {"none", "running", "succeeded", "failed"}]
  /\ cli \in BOOLEAN /\ armed \subseteq Jobs
  /\ pc \in [Controllers -> WorkerPcs \cup OperatorPcs]
  /\ job \in [Controllers -> 0..MaxRetained]
  /\ op \in [Controllers -> {"none", "review_required", "failed_inspect_state",
                             "outcome_unknown", "cancelled"}]
  /\ spawns \in [Jobs -> Nat]

\* "A claimed operation is never automatically executed twice" (worker.py:1),
\* whatever crashes, restarts, recoveries and older ledgers intervene.
AtMostOneDispatch == \A j \in Jobs : spawns[j] <= 1

\* A supervised child that outlives its worker keeps both locks: while it
\* lives its job is running or unknown, and nobody but its own supervisor is
\* at work on the ledger or behind the gate (operation.py:159-162).
OrphanExcluded ==
  \A j \in Jobs : child[j] = "running" =>
    /\ status[j] \in {"running", "outcome_unknown"}
    /\ ~cli
    /\ \A p \in Controllers :
         pc[p] # "down" => job[p] = j /\ pc[p] \in {"spawned", "waiting", "stopping"}

\* The worker, a restarted worker and the recovery command serialize: the
\* ledger never shows two attempts in progress (worker.py:27, 215-218).
AtMostOneRunning ==
  \A i, j \in Jobs : status[i] = "running" /\ status[j] = "running" => i = j

\* The evidence a delivered run rests on, as an auditor would look for it.
Evidence(j) == /\ folder[j] = "ready" /\ stage[j] = "complete"
               /\ receipt[j] = "review_required"

\* A run readers can see is complete, came from one execution with a
\* successful receipt, and belongs to a job that is delivered or whose
\* delivery can still be completed (job_delivery.py:136-140).
VisibleReport ==
  \A j \in catalog :
    /\ j \in promoted /\ spawns[j] = 1
    /\ j \notin Restored =>
         /\ Evidence(j) /\ verified[j]
         /\ status[j] \in {"running", "outcome_unknown", "delivery_failed", "review_required"}

\* A job shown as delivered, with the link public_job gives for it, has its
\* complete run in the catalogue (jobs.py:86-87).
DeliveredIsListed ==
  \A j \in Jobs : status[j] = "review_required" => result[j] /\ Evidence(j) /\ j \in catalog

\* A held delivery keeps everything recover-job needs, so that only the
\* source and the room in the catalogue can refuse it (worker.py:86-89).
DeliveryRecoverable ==
  \A j \in Jobs : status[j] = "delivery_failed" \/ result[j] => Evidence(j)

\* "source_changed: Admitted source no longer matches; no supervised
\* processing started" (docs/webapp/batch2b-background-execution.md:140).
SourceChangedBeforeProcessing ==
  \A j \in Jobs \ Restored : status[j] = "source_changed" => spawns[j] = 0

\* Every row a reader can meet satisfies _execution's table of events and the
\* phase validator; otherwise every read of the job is refused
\* (job_store.py:307-312, job_execution.py:42-52).
RecordReadable == \A j \in Jobs : status[j] # "absent" => Legible(j)

\* A restored request is not started before an operator releases it, and then
\* only while it has left no trace (recovery.py:138-153).
HeldNotStarted == \A j \in held : status[j] = "queued" /\ spawns[j] = 0

\* Whoever appends to the catalogue keeps it loadable: publish_result counts
\* again at delivery, long after prepare_inputs did (job_delivery.py:108-114).
CatalogWithinBound == Listed <= MaxRuns

\* With the worker alive, an attempt in progress ends in a record, whatever
\* fails in it (worker.py:83-99).
AttemptEnds ==
  \A j \in Jobs :
    status[j] = "running" ~> status[j] # "running" \/ \A w \in Workers : pc[w] = "down"

\* Whoever died, the ledger can be opened again: once no worker or operator is
\* left, both locks come free, though a child that hangs in its rendering
\* inherited them and nobody may take them from it (saved_job.py:111-113,
\* operation.py:159-162).
RestartPossible ==
  (\A p \in Controllers : pc[p] = "down") ~> LeaseFree /\ MutatorFree

\* A busy gate does not consume a request and a failed job does not block the
\* queue: once other commands stay away, each is claimed (worker.py:224-234).
QueueServed ==
  <>[]~cli => \A j \in Jobs :
    status[j] = "queued" /\ j \notin held
      ~> status[j] # "queued" \/ \A w \in Workers : pc[w] = "down"
----------------------------------------------------------------------------
(* The abstract promise this system keeps.                                 *)

PhaseOf(s) ==
  CASE s = "absent"  -> "none"
    [] s = "queued"  -> "waiting"
    [] s = "running" -> "attempting"
    [] s \in {"outcome_unknown", "delivery_failed"} -> "held"
    [] s \in {"failed", "source_changed"} -> "closed"
    [] OTHER -> "delivered"

phase == [j \in Jobs |-> PhaseOf(status[j])]

Promise == INSTANCE JobPromise WITH visible <- catalog, Earlier <- Restored

\* Every behaviour of the ledger, the worker, the child and the operator is
\* one of JobPromise.
KeepsPromise == Promise!PromiseSpec
=============================================================================
