----------------------------- MODULE FreshClose ----------------------------
(***************************************************************************)
(* The calculated close of one company: the intent, commit and resolution  *)
(* objects of the private input store, the accounting database the child   *)
(* commits to (close_state.py, execution.py), the worker's version-3 path  *)
(* and the operator's recover-job and release-uncommitted-close.           *)
(*                                                                         *)
(* Worker and operator exclude one another and a surviving child through   *)
(* the worker lease and the financial gate (JobWorker!OrphanExcluded), so  *)
(* one "hand" at a time is at work here, while a child may outlive it.     *)
(***************************************************************************)
EXTENDS Integers, Sequences, FiniteSets

CONSTANT Jobs   \* close requests of one company, one input version each

VARIABLES
  commits,     \* keystone_close_commits, in order; its length is the generation
  wal,         \* state.duckdb.wal was left behind
  db,          \* state.duckdb exists
  pin,         \* each version's accounting_source, -1 before validation
  permitted,   \* versions whose files and permissions still hold
  status,      \* the execution, or what precedes it
  intent,      \* close_intent objects
  proof,       \* close_commit objects
  resolution,  \* close_resolution of each job
  folder,      \* jobs/<id> is complete
  stage,       \* jobs/<id>/result is complete
  listed,      \* registered runs
  child,       \* the calculation of each job
  step, on     \* the hand: what it has reached, and on which job

accounts == <<commits, wal, db>>
inputs   == <<pin, permitted>>
objects  == <<intent, proof, resolution>>
output   == <<folder, stage, listed>>
hand     == <<step, on>>
vars     == <<accounts, inputs, status, objects, output, child, hand>>

Alive      == {"started", "open", "committed", "remembered", "staged"}
PrepSteps  == {"claimed", "creating", "intended", "copied"}
ProofSteps == {"returned", "proven"}
SendSteps  == {"prepared", "published"}
Working    == PrepSteps \cup {"waiting"} \cup ProofSteps \cup SendSteps
Recovery   == {"recovering", "recommitted", "restaged", "relisted", "rerecorded", "reopened"}

Committed == {commits[n] : n \in DOMAIN commits}
\* unresolved: other jobs' intents without a resolution.
Unresolved(j) == {i \in intent \ {j} : resolution[i] = "none"}
\* check_lineage of what the accounts already rest on.
Lineage(j) == {commits[n] : n \in 1..pin[j]} \cup {j}
LineageHolds(versions) == versions \subseteq permitted
\* open_state reads no accounts a journal lies beside; summary is a generation
\* whatever the failed attempts and deliveries have logged.
Readable   == ~wal
Generation == Len(commits)
\* (mutation) The generation is not compared.
GenerationReadable(j) == Readable
GenerationIs(j) == Readable /\ Generation = pin[j]      \* inspect
\* (mutation) An unresolved intent is no obstacle.
CurrentUnlessStale(j) == GenerationIs(j) /\ LineageHolds(Lineage(j) \ {j})
\* close_state.current(pin, except_job=j).
Current(j) == CurrentUnlessStale(j) /\ Unresolved(j) = {}
\* (mutation) A surviving child does not hold the lease.
LeaseOfHand == step = "down"
NoChild   == \A j \in Jobs : child[j] \notin Alive
LeaseFree == step = "down" /\ NoChild
GateFree  == step \in {"down", "idle"} /\ NoChild

Init ==
  /\ commits = <<>> /\ wal = FALSE /\ db = FALSE
  /\ pin = [j \in Jobs |-> -1] /\ permitted = Jobs
  /\ status = [j \in Jobs |-> "absent"]
  /\ intent = {} /\ proof = {} /\ resolution = [j \in Jobs |-> "none"]
  /\ folder = {} /\ stage = {} /\ listed = {}
  /\ child = [j \in Jobs |-> "none"]
  /\ step = "down" /\ on = "none"
----------------------------------------------------------------------------
(* Intake, admission, and what happens to the input files.                 *)

Become(j, s) == status' = [status EXCEPT ![j] = s]

\* validation_copy: the version pins the generation it is validated against.
ValidationCopy(j) ==
  /\ Unresolved(j) = {} /\ Readable /\ LineageHolds(Committed)
  /\ pin' = [pin EXCEPT ![j] = Generation]
\* validate_and_accept, under the gate.
Validate(j) ==
  /\ status[j] = "absent" /\ GateFree /\ ValidationCopy(j) /\ Become(j, "validated")
  /\ UNCHANGED <<accounts, permitted, objects, output, child, hand>>
\* PrivateAdmission.submit: current is read without the gate, ...
AdmitCheck(j) ==
  /\ status[j] = "validated" /\ j \in permitted /\ Current(j)
  /\ Become(j, "checked")
  /\ UNCHANGED <<accounts, inputs, objects, output, child, hand>>
\* ... and the record is admitted later, whatever has changed meanwhile.
Admit(j) ==
  /\ status[j] = "checked" /\ Become(j, "queued")
  /\ UNCHANGED <<accounts, inputs, objects, output, child, hand>>
\* A permission is revoked or expires, a file is damaged or put back.
SourceChange(j) ==
  /\ pin[j] >= 0
  /\ permitted' = IF j \in permitted THEN permitted \ {j} ELSE permitted \cup {j}
  /\ UNCHANGED <<accounts, pin, status, objects, output, child, hand>>
----------------------------------------------------------------------------
(* The calculation: render in the supervised child.                        *)

Child(j, from, to) == child[j] = from /\ child' = [child EXCEPT ![j] = to]

\* current and the intent are read again before the accounts are opened.
Open(j) ==
  /\ Child(j, "started", "open") /\ j \in permitted /\ Current(j)
  /\ UNCHANGED <<accounts, inputs, status, objects, output, hand>>
\* execute_close: sources, bundle, head and attribution in one transaction.
Commit(j) ==
  /\ Child(j, "open", "committed") /\ commits' = Append(commits, j)
  /\ UNCHANGED <<wal, db, inputs, status, objects, output, hand>>
\* The checkpoint, the closed database, committed and remember.
Remember(j) ==
  /\ Child(j, "committed", "remembered") /\ LineageHolds(Lineage(j))
  /\ proof' = proof \cup {j}
  /\ UNCHANGED <<accounts, inputs, status, intent, resolution, output, hand>>
Stage(j) ==
  /\ Child(j, "remembered", "staged") /\ stage' = stage \cup {j}
  /\ UNCHANGED <<accounts, inputs, status, objects, folder, listed, hand>>
ChildExit(j) ==
  /\ Child(j, "staged", "succeeded")
  /\ UNCHANGED <<accounts, inputs, status, objects, output, hand>>
\* An exception: the database is closed behind it.
ChildFail(j) ==
  /\ child[j] \in Alive /\ Child(j, child[j], "failed")
  /\ UNCHANGED <<accounts, inputs, status, objects, output, hand>>
\* SIGKILL or power loss: an open database may leave its journal.
Kill(j) ==
  /\ child' = [child EXCEPT ![j] = IF @ \in Alive THEN "failed" ELSE @]
  /\ wal' \in {wal, wal \/ child[j] \in {"open", "committed"}}
----------------------------------------------------------------------------
(* The worker.                                                             *)

Go(s) == step' = s /\ UNCHANGED on
Done(s) == step' = s /\ on' = "none"
\* run_one leaves the attempt with a record.
End(s) ==
  /\ Become(on, s) /\ Done("idle")
  /\ UNCHANGED <<accounts, inputs, objects, output, child>>

Start ==
  /\ LeaseFree /\ Done("idle")
  /\ status' = [j \in Jobs |-> IF status[j] = "running" THEN "outcome_unknown" ELSE status[j]]
  /\ UNCHANGED <<accounts, inputs, objects, output, child>>
Claim(j) ==
  /\ step = "idle" /\ GateFree /\ status[j] = "queued"
  /\ Become(j, "running") /\ step' = "claimed" /\ on' = j
  /\ UNCHANGED <<accounts, inputs, objects, output, child>>
\* prepare_inputs: whatever begin finds amiss, or fails at, is a changed source.
PrepareRefused ==
  /\ \/ step \in {"claimed", "creating"}
     \/ step = "intended" /\ on \notin permitted
  /\ End("source_changed")
CreateAccounts ==
  /\ step = "claimed" /\ on \in permitted /\ Current(on) /\ ~db
  /\ db' = TRUE /\ Go("creating")
  /\ UNCHANGED <<commits, wal, inputs, status, objects, output, child>>
Begin ==
  /\ \/ step = "claimed" /\ on \in permitted /\ Current(on) /\ db
     \/ step = "creating"
  /\ intent' = intent \cup {on} /\ Go("intended")
  /\ UNCHANGED <<accounts, inputs, status, proof, resolution, output, child>>
CopyInputs ==
  /\ step = "intended" /\ on \in permitted
  /\ folder' = folder \cup {on} /\ Go("copied")
  /\ UNCHANGED <<accounts, inputs, status, objects, stage, listed, child>>
Dispatch ==
  /\ step = "copied" /\ Child(on, "none", "started") /\ Go("waiting")
  /\ UNCHANGED <<accounts, inputs, status, objects, output>>
\* operation.execute returns: success, a failed child, or an abandoned one.
Reap ==
  /\ step = "waiting" /\ child[on] = "succeeded" /\ Go("returned")
  /\ UNCHANGED <<accounts, inputs, status, objects, output, child>>
ReapFailed == step = "waiting" /\ child[on] = "failed" /\ End("failed")
Abandon ==
  /\ step = "waiting" /\ Kill(on)
  /\ Become(on, "outcome_unknown") /\ (Done("idle") \/ Done("down"))
  /\ UNCHANGED <<commits, db, inputs, objects, output>>
\* committed and remember in run_one, then verified_result.
Prove ==
  /\ step = "returned" /\ Readable /\ on \in Committed /\ LineageHolds(Lineage(on))
  /\ proof' = proof \cup {on} /\ Go("proven")
  /\ UNCHANGED <<accounts, inputs, status, intent, resolution, output, child>>
RegistryProof(j) == j \in proof /\ LineageHolds(Lineage(j))
Verified(j) == j \in permitted /\ j \in stage /\ RegistryProof(j)
\* (mutation) The intent is resolved as soon as it is proven.
ResolveEarly ==
  /\ step = "proven" /\ Verified(on) /\ resolution' = [resolution EXCEPT ![on] = "delivered"]
  /\ Go("prepared")
  /\ UNCHANGED <<accounts, inputs, status, intent, proof, output, child>>
RecordPrepared ==
  /\ step = "proven" /\ Verified(on) /\ Go("prepared")
  /\ UNCHANGED <<accounts, inputs, status, objects, output, child>>
\* current_version in verified_result, there and in publish_result.
SourceRefused == step \in {"proven", "prepared"} /\ on \notin permitted /\ End("source_changed")
Publish ==
  /\ step = "prepared" /\ Verified(on)
  /\ listed' = listed \cup {on} /\ Go("published")
  /\ UNCHANGED <<accounts, inputs, status, objects, folder, stage, child>>
Register ==
  /\ step = "published" /\ Become(on, "review_required") /\ Go("registered")
  /\ UNCHANGED <<accounts, inputs, objects, output, child>>
Resolve ==
  /\ step = "registered" /\ on \in proof
  /\ resolution' = [resolution EXCEPT ![on] = "delivered"] /\ Done("idle")
  /\ UNCHANGED <<accounts, inputs, status, intent, proof, output, child>>
\* The handlers of run_one, by what the attempt had reached.
Fails     == step \in (PrepSteps \ {"creating"}) \cup ProofSteps /\ End("failed")
SendFails == step \in SendSteps /\ End("delivery_failed")
\* A signal; and the end of the process, which a failing resolve is, too.
Interrupt ==
  /\ step \in Working \ {"waiting"} /\ Become(on, "outcome_unknown") /\ Done("down")
  /\ UNCHANGED <<accounts, inputs, objects, output, child>>
Crash ==
  /\ step # "down" /\ Done("down")
  /\ wal' \in {wal, wal \/ step = "creating"}
  /\ UNCHANGED <<commits, db, inputs, status, objects, output, child>>
PowerLoss ==
  /\ step = "waiting" /\ Kill(on) /\ Done("down")
  /\ UNCHANGED <<commits, db, inputs, status, objects, output>>
\* The child alone is killed, by its alarm or from outside, whether or not its
\* supervisor still waits for it.
ChildKilled(j) ==
  /\ child[j] \in Alive /\ Kill(j)
  /\ UNCHANGED <<commits, db, inputs, status, objects, output, hand>>
----------------------------------------------------------------------------
(* The operator: recover-job and release-uncommitted-close.                *)

\* recover_delivery, recover_close_delivery up to what the status asks for:
\* an orphaned attempt is closed first, even if there is nothing to recover.
Recover(j) ==
  LET s == IF status[j] = "running" THEN "outcome_unknown" ELSE status[j] IN
  /\ LeaseFree /\ Become(j, s)
  /\ s \in {"failed", "outcome_unknown", "delivery_failed", "review_required"}
  /\ IF j \in folder
     THEN on' = j /\ step' = IF s = "review_required" THEN "reopened" ELSE "recovering"
     ELSE UNCHANGED hand
  /\ UNCHANGED <<accounts, inputs, objects, output, child>>
\* committed(recovery=True): the journal is replayed, whatever is then found.
Recommit ==
  /\ step = "recovering" /\ wal' = FALSE
  /\ IF on \in Committed /\ LineageHolds(Lineage(on))
     THEN proof' = proof \cup {on} /\ Go("recommitted") /\ UNCHANGED status
     ELSE Done("down") /\ UNCHANGED <<proof, status>>
  /\ UNCHANGED <<commits, db, inputs, intent, resolution, output, child>>
\* verified_result, or render from the frozen bundle and verify that.
Restage ==
  /\ step = "recommitted" /\ on \in permitted /\ LineageHolds(Lineage(on))
  /\ stage' = stage \cup {on} /\ Go("restaged")
  /\ UNCHANGED <<accounts, inputs, status, objects, folder, listed, child>>
Relist ==
  /\ step = "restaged" /\ Verified(on)
  /\ listed' = listed \cup {on} /\ Go("relisted")
  /\ UNCHANGED <<accounts, inputs, status, objects, folder, stage, child>>
RecordRecovered ==
  /\ step = "relisted" /\ Become(on, "review_required") /\ Go("rerecorded")
  /\ UNCHANGED <<accounts, inputs, objects, output, child>>
Reopen ==
  /\ step = "reopened" /\ Verified(on) /\ listed' = listed \cup {on} /\ Go("rerecorded")
  /\ UNCHANGED <<accounts, inputs, status, objects, folder, stage, child>>
ResolveRecovered ==
  /\ step = "rerecorded" /\ on \in proof /\ resolution[on] # "no_commit"
  /\ resolution' = [resolution EXCEPT ![on] = "delivered"] /\ Done("down")
  /\ UNCHANGED <<accounts, inputs, status, intent, proof, output, child>>
\* (mutation) The commit of the job itself is not looked for.
ReleaseByStatus(j) ==
  /\ LeaseFree /\ status[j] \in {"failed", "outcome_unknown", "source_changed"}
  /\ j \in intent /\ resolution[j] # "delivered"
  /\ wal' = FALSE /\ resolution' = [resolution EXCEPT ![j] = "no_commit"]
  /\ UNCHANGED <<commits, db, inputs, status, intent, proof, output, child, hand>>
\* resolve(no_commit=True): the journal is replayed, then the generation must
\* still be the pinned one.
Release(j) ==
  /\ LeaseFree /\ status[j] \in {"failed", "outcome_unknown", "source_changed"}
  /\ j \in intent /\ j \notin proof
  /\ wal' = FALSE
  /\ IF Generation = pin[j] THEN resolution' = [resolution EXCEPT ![j] = "no_commit"]
                              ELSE UNCHANGED resolution
  /\ UNCHANGED <<commits, db, inputs, status, intent, proof, output, child, hand>>
----------------------------------------------------------------------------
Intake(j) == Validate(j) \/ AdmitCheck(j) \/ Admit(j) \/ SourceChange(j)
Calculation(j) == \/ Open(j) \/ Commit(j) \/ Remember(j) \/ Stage(j)
                  \/ ChildExit(j) \/ ChildFail(j) \/ ChildKilled(j)
Attempt == \/ PrepareRefused \/ CreateAccounts \/ Begin \/ CopyInputs \/ Dispatch
           \/ Reap \/ ReapFailed \/ Abandon \/ Prove \/ RecordPrepared \/ SourceRefused
           \/ Publish \/ Register \/ Resolve \/ Fails \/ SendFails
Operator == \/ Recommit \/ Restage \/ Relist \/ RecordRecovered \/ Reopen \/ ResolveRecovered
            \/ \E j \in Jobs : Recover(j) \/ Release(j)

Next == \/ Start \/ Attempt \/ Operator \/ Interrupt \/ Crash \/ PowerLoss
        \/ \E j \in Jobs : Intake(j) \/ Calculation(j) \/ Claim(j)
Spec == Init /\ [][Next]_vars
----------------------------------------------------------------------------
\* Every commit extends exactly the accounts its input was validated against,
\* once: closes admitted against the same predecessor never both commit
\* (batch3b2-fresh-close.md:72-74, close_state.py:172-194).
CommitsFollowPins == \A n \in DOMAIN commits : pin[commits[n]] = n - 1

\* An attempted close blocks the company until it is resolved
\* (close_state.py:119-125).
OneOpenIntent ==
  \A i, j \in intent : resolution[i] = "none" /\ resolution[j] = "none" => i = j

\* No child, however late, commits what an operator has released, what is
\* called delivered can be read (close_state.py:219-235), and a commit without
\* its proof keeps its intent open.
ResolutionTruthful ==
  \A j \in Jobs :
    /\ resolution[j] = "no_commit" => j \notin Committed /\ child[j] \notin Alive
    /\ resolution[j] = "delivered" =>
         j \in Committed \cap proof \cap listed /\ status[j] = "review_required"
    /\ j \in Committed \ proof => j \in intent /\ resolution[j] = "none"

\* A report readers see rests on a commit and its proof, and is either
\* delivered or still in the operator's hands (service.py:112-140).
ListedIsCommitted ==
  \A j \in listed : /\ j \in Committed \cap proof \cap stage
                    /\ status[j] # "review_required" => resolution[j] = "none"

\* Once the company has accounts, a journal that blocks its readers belongs to
\* an attempt an operator can inspect (close_state.py:44-45, 197-202).
JournalHasOwner ==
  wal /\ commits # <<>> => \E j \in intent : resolution[j] = "none"

\* "If the accounting transaction committed, this reads and validates that
\* frozen run ... and delivers/registers it once" (batch3b2-fresh-close.md):
\* a committed close whose attempt is over can still be recovered.
CommittedCloseRecoverable ==
  \A j \in Committed :
    resolution[j] = "none" => status[j] \in {"running", "failed", "outcome_unknown",
                                             "delivery_failed", "review_required"}
=============================================================================
