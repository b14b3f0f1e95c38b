-------------------------- MODULE JobWorkerProofs --------------------------
(***************************************************************************)
(* Proofs about JobWorker for every number of jobs, workers and operators. *)
(* IInv is the inductive invariant: who holds the locks, what the ledger   *)
(* says meanwhile, when a job may have been started, and what evidence     *)
(* stands behind each record.                                              *)
(***************************************************************************)
EXTENDS JobWorker, FiniteSetTheorems, TLAPS

\* One process beyond the lease; a worker and an operator stay in their own
\* programs; nobody is behind the gate together with another command.
LockInv ==
  /\ \A p, q \in Controllers : pc[p] # "down" /\ pc[q] # "down" => p = q
  /\ \A p \in Controllers : pc[p] \in GatePcs \cup {"ready"} => job[p] \in Jobs
  /\ \A w \in Workers : pc[w] \in WorkerPcs
  /\ \A o \in Operators : pc[o] \in OperatorPcs
  /\ cli => ~ChildAlive /\ \A p \in Controllers : pc[p] \notin GatePcs

\* The ledger's running job is the one its worker has in hand.
StatusInv ==
  /\ \A j \in Jobs : status[j] = "absent" <=> j > count
  /\ \A w \in Workers : pc[w] \in AttemptPcs => status[job[w]] = "running"
  /\ \A w \in Workers : pc[w] = "idle" => \A j \in Jobs : status[j] # "running"
  /\ \A o \in Operators : pc[o] \in PublishPcs =>
       status[job[o]] \in {"outcome_unknown", "delivery_failed", "review_required"}

\* A job may be started only while it has left no trace, and its worker has
\* made sure of that before the child exists.
DispatchInv ==
  /\ \A j \in Jobs : status[j] \in {"absent", "queued"} /\ spawns[j] = 1 =>
       Used(j) \/ j \in catalog
  /\ \A w \in Workers : pc[w] = "claimed" /\ spawns[job[w]] = 1 =>
       Used(job[w]) \/ job[w] \in catalog
  /\ \A w \in Workers : pc[w] \in {"copying", "copied", "verified", "admitted"} =>
       spawns[job[w]] = 0
  /\ \A w \in Workers : pc[w] \in {"spawned", "waiting"} => spawns[job[w]] = 1

\* The supervisor's conclusion and the files behind it.
SupervisorInv ==
  /\ \A w \in Workers : pc[w] \in {"stopping", "stopped", "finished"} => op[w] # "none"
  /\ \A w \in Workers : pc[w] \in {"stopping", "stopped"} /\ op[w] = "review_required" =>
       spawns[job[w]] = 1
  /\ \A w \in Workers : pc[w] \in {"admitted", "spawned", "waiting", "stopping", "stopped"} =>
       receipt[job[w]] \in {"admitted", "running"}
  /\ \A w \in Workers : pc[w] \in AttemptPcs \ {"claimed", "copying"} =>
       folder[job[w]] = "ready"
  /\ \A w \in Workers : pc[w] \in AttemptPcs \ PrepPcs => verified[job[w]]
  /\ \A j \in Jobs : receipt[j] = "review_required" => spawns[j] = 1
  /\ \A j \in Jobs \ Restored : receipt[j] # "none" => verified[j]

\* Publication: what each of its stages has established.
PublishInv ==
  /\ \A p \in Controllers : pc[p] \in ResultPcs => Evidence(job[p])
  /\ \A w \in Workers : pc[w] \in PublishPcs => result[job[w]]
  /\ \A p \in Controllers : pc[p] = "promoted" => job[p] \in promoted
  /\ \A p \in Controllers : pc[p] = "cataloged" => job[p] \in catalog
  /\ \A w \in Workers : pc[w] \in AttemptPcs \ {"cataloged"} =>
       (job[w] \in catalog => job[w] \in Restored)

IInv ==
  /\ TypeOK
  /\ LockInv /\ OrphanExcluded
  /\ StatusInv /\ AtMostOneRunning
  /\ DispatchInv /\ AtMostOneDispatch /\ HeldNotStarted
  /\ SupervisorInv /\ DeliveryRecoverable
  /\ PublishInv /\ VisibleReport /\ DeliveredIsListed

\* However an attempt ends, the ledger shows no running job afterwards.
LEMMA AttemptClosed ==
  ASSUME TypeOK, LockInv, StatusInv, AtMostOneRunning,
         NEW w \in Workers, pc[w] \in AttemptPcs,
         NEW s \in Terminal, status' = [status EXCEPT ![job[w]] = s],
         NEW l \in {"down", "idle"}, Leave(w, l), count' = count
  PROVE  (StatusInv /\ AtMostOneRunning)'
<1>1. w \in Controllers /\ job[w] \in Jobs /\ status[job[w]] = "running"
  BY DEF Controllers, LockInv, GatePcs, StatusInv
<1>2. \A j \in Jobs : j # job[w] => status[j] # "running" /\ status'[j] = status[j]
  BY <1>1 DEF AtMostOneRunning, TypeOK
<1>3. status'[job[w]] = s
  BY <1>1 DEF TypeOK
<1>4. \A j \in Jobs : status'[j] # "running"
  BY <1>2, <1>3 DEF Terminal
<1>5. pc' = [pc EXCEPT ![w] = l] /\ job' = [job EXCEPT ![w] = 0]
  BY DEF Leave, Goto
<1>6. \A p \in Controllers : pc'[p] \in {"down", "idle"}
  <2>1. pc'[w] = l
    BY <1>1, <1>5 DEF TypeOK
  <2>2. \A p \in Controllers : p # w => pc'[p] = pc[p]
    BY <1>1, <1>5 DEF TypeOK
  <2>3. \A p \in Controllers : p # w => pc[p] = "down"
    BY <1>1 DEF LockInv, AttemptPcs, PrepPcs, SupervPcs, ResultPcs, PublishPcs
  <2> QED  BY <2>1, <2>2, <2>3
<1>7. \A j \in Jobs : status'[j] = "absent" <=> j > count'
  BY <1>1, <1>2, <1>3 DEF StatusInv, Terminal, Statuses
<1>8. \A p \in Controllers : pc'[p] \notin AttemptPcs \cup PublishPcs
  BY <1>6 DEF AttemptPcs, PrepPcs, SupervPcs, ResultPcs, PublishPcs
<1> QED
  BY <1>4, <1>7, <1>8 DEF StatusInv, AtMostOneRunning, Controllers

\* The first state, with whatever an older ledger finds on disk.
LEMMA InitIInv == Init => IInv
<1> SUFFICES ASSUME Init PROVE IInv
  OBVIOUS
<1> USE BoundsAssumption, ProcessAssumption DEF Init, Jobs, Restored
<1>1. PICK t \in [Jobs -> Traces] :
        /\ \A j \in Jobs : j \notin Restored \/ j \in Dataset => t[j] = NoTrace
        /\ folder  = [j \in Jobs |-> IF t[j].dir THEN "ready" ELSE "absent"]
        /\ receipt = [j \in Jobs |-> CASE ~t[j].dir -> "none"
                                      [] t[j].dir /\ t[j].done -> "review_required"
                                      [] OTHER -> "running"]
        /\ stage   = [j \in Jobs |-> CASE ~t[j].dir -> "none"
                                      [] t[j].dir /\ t[j].done -> "complete"
                                      [] OTHER -> "partial"]
        /\ promoted = {j \in Jobs : t[j].listed}
        /\ catalog  = {j \in Jobs : t[j].listed}
        /\ spawns = [j \in Jobs |-> IF t[j].spawned THEN 1 ELSE 0]
  OBVIOUS
<1>2. \A j \in Jobs : t[j] \in Traces
  BY <1>1
<1>3. \A j \in Jobs : /\ t[j].dir \in BOOLEAN /\ t[j].done \in BOOLEAN
                      /\ t[j].listed \in BOOLEAN /\ t[j].spawned \in BOOLEAN
                      /\ t[j].dir \/ t[j].listed <=> t[j].spawned
                      /\ t[j].listed => t[j].done
  <2> SUFFICES ASSUME NEW j \in Jobs
               PROVE /\ t[j].dir \in BOOLEAN /\ t[j].done \in BOOLEAN
                     /\ t[j].listed \in BOOLEAN /\ t[j].spawned \in BOOLEAN
                     /\ t[j].dir \/ t[j].listed <=> t[j].spawned
                     /\ t[j].listed => t[j].done
    OBVIOUS
  <2>1. CASE t[j] = NoTrace
    BY <2>1 DEF NoTrace
  <2>2. CASE t[j] # NoTrace
    <3>1. /\ t[j] \in [spawned : {TRUE}, dir : BOOLEAN, done : BOOLEAN, listed : BOOLEAN]
          /\ t[j].dir \/ t[j].listed
          /\ t[j].listed => t[j].done
      BY <1>2, <2>2 DEF Traces
    <3> QED  BY <3>1
  <2> QED  BY <2>1, <2>2
<1>0. \A j \in Jobs : t[j].spawned => j \in Restored /\ j \notin Dataset
  BY <1>1 DEF NoTrace
<1>T. TypeOK
  <2>1. count \in 0..MaxRetained /\ held \subseteq Jobs /\ foreign \in Nat /\ cli \in BOOLEAN
    BY DEF TypeOK
  <2>2. status \in [Jobs -> Statuses] /\ event \in [Jobs -> Events]
    BY DEF Statuses, Events
  <2>3. /\ verified \in [Jobs -> BOOLEAN] /\ result \in [Jobs -> BOOLEAN]
        /\ sourceOk \in [Jobs -> BOOLEAN]
        /\ child \in [Jobs -> {"none", "running", "succeeded", "failed"}]
    OBVIOUS
  <2>4. /\ folder \in [Jobs -> {"absent", "partial", "ready"}]
        /\ receipt \in [Jobs -> Receipts]
        /\ stage \in [Jobs -> {"none", "partial", "complete"}]
        /\ promoted \subseteq Jobs /\ catalog \subseteq Jobs
        /\ spawns \in [Jobs -> Nat]
    BY <1>1 DEF Receipts
  <2>5. /\ pc \in [Controllers -> WorkerPcs \cup OperatorPcs]
        /\ job \in [Controllers -> 0..MaxRetained]
        /\ op \in [Controllers -> {"none", "review_required", "failed_inspect_state",
                             "outcome_unknown", "cancelled"}]
    BY DEF WorkerPcs
  <2> QED  BY <2>1, <2>2, <2>3, <2>4, <2>5 DEF TypeOK
<1>4. LockInv /\ OrphanExcluded
  BY DEF LockInv, OrphanExcluded, Controllers, GatePcs, AttemptPcs, PrepPcs, SupervPcs,
         ResultPcs, PublishPcs, RecoverPcs, WorkerPcs, OperatorPcs
<1>5. StatusInv /\ AtMostOneRunning
  BY DEF StatusInv, AtMostOneRunning, Controllers, AttemptPcs, PrepPcs, SupervPcs, ResultPcs,
         PublishPcs
<1>P. \A j \in Jobs : /\ spawns[j] \in {0, 1}
                      /\ spawns[j] = 1 => Used(j) \/ j \in catalog
                      /\ spawns[j] = 1 => j \notin held
  <2> SUFFICES ASSUME NEW j \in Jobs
               PROVE /\ spawns[j] \in {0, 1}
                     /\ spawns[j] = 1 => Used(j) \/ j \in catalog
                     /\ spawns[j] = 1 => j \notin held
    OBVIOUS
  <2>1. /\ spawns[j] = (IF t[j].spawned THEN 1 ELSE 0)
        /\ folder[j] = (IF t[j].dir THEN "ready" ELSE "absent")
        /\ j \in catalog <=> t[j].listed
    BY <1>1
  <2> QED  BY <2>1, <1>0, <1>3 DEF Used
<1>6. DispatchInv /\ AtMostOneDispatch /\ HeldNotStarted
  <2>1. \A p \in Controllers : pc[p] = "down"
    OBVIOUS
  <2>2. \A j \in held : status[j] = "queued" /\ j \in Jobs
    OBVIOUS
  <2> QED
    BY ONLY <1>P, <2>1, <2>2 DEF DispatchInv, AtMostOneDispatch, HeldNotStarted, Controllers
<1>7. SupervisorInv
  BY <1>0, <1>1, <1>3 DEF SupervisorInv, Controllers, AttemptPcs, PrepPcs, SupervPcs, ResultPcs,
                    PublishPcs
<1>8. DeliveryRecoverable /\ DeliveredIsListed
  BY DEF DeliveryRecoverable, DeliveredIsListed
<1>9. PublishInv /\ VisibleReport
  BY <1>0, <1>1, <1>3
  DEF PublishInv, VisibleReport, Controllers, AttemptPcs, PrepPcs, SupervPcs,
                    ResultPcs, PublishPcs
<1> QED
  BY <1>T, <1>4, <1>5, <1>6, <1>7, <1>8, <1>9 DEF IInv

\* Every step keeps the types.
LEMMA TypePreserved ==
  TypeOK /\ LockInv /\ [Next]_vars
    => TypeOK'
<1> SUFFICES ASSUME TypeOK, LockInv, [Next]_vars
             PROVE  TypeOK'
  OBVIOUS
<1> USE BoundsAssumption, ProcessAssumption DEF Jobs, Controllers, Restored, PrepPcs, SupervPcs, PublishPcs, ResultPcs, AttemptPcs, WorkerPcs,
       RecoverPcs, OperatorPcs, GatePcs,
       TypeOK, Statuses, Terminal, Events, Receipts, LockInv,
       Goto, Leave, End, Save, ledger, files, procs, world, ReceiptOf
<1>1. CASE Submit
  BY <1>1 DEF Submit
<1>2. CASE CliEnter
  BY <1>2 DEF CliEnter
<1>3. CASE CliRegister
  BY <1>3 DEF CliRegister
<1>4. CASE CliExit
  BY <1>4 DEF CliExit
<1>5. ASSUME NEW j \in Jobs, ReleaseRestored(j)
      PROVE  TypeOK'
  BY <1>5 DEF ReleaseRestored
<1>6. ASSUME NEW j \in Jobs, SourceChange(j)
      PROVE  TypeOK'
  BY <1>6 DEF SourceChange
<1>7. ASSUME NEW j \in Jobs, ChildStage(j)
      PROVE  TypeOK'
  BY <1>7 DEF ChildStage
<1>8. ASSUME NEW j \in Jobs, ChildComplete(j)
      PROVE  TypeOK'
  BY <1>8 DEF ChildComplete
<1>9. ASSUME NEW j \in Jobs, ChildExit(j)
      PROVE  TypeOK'
  BY <1>9 DEF ChildExit
<1>10. ASSUME NEW j \in Jobs, ChildFail(j)
      PROVE  TypeOK'
  BY <1>10 DEF ChildFail
<1>11. ASSUME NEW w \in Workers, WorkerStart(w)
      PROVE  TypeOK'
  BY <1>11 DEF WorkerStart
<1>12. ASSUME NEW w \in Workers, InterruptRunning(w)
      PROVE  TypeOK'
  BY <1>12 DEF InterruptRunning
<1>13. ASSUME NEW w \in Workers, StartRefused(w)
      PROVE  TypeOK'
  BY <1>13 DEF StartRefused
<1>14. ASSUME NEW w \in Workers, Claim(w)
      PROVE  TypeOK'
  BY <1>14 DEF Claim
<1>15. ASSUME NEW w \in Workers, RefuseReused(w)
      PROVE  TypeOK'
  BY <1>15 DEF RefuseReused
<1>16. ASSUME NEW w \in Workers, SourceRefused(w)
      PROVE  TypeOK'
  BY <1>16 DEF SourceRefused
<1>17. ASSUME NEW w \in Workers, StartCopy(w)
      PROVE  TypeOK'
  BY <1>17 DEF StartCopy
<1>18. ASSUME NEW w \in Workers, FinishCopy(w)
      PROVE  TypeOK'
  BY <1>18 DEF FinishCopy
<1>19. ASSUME NEW w \in Workers, MarkVerified(w)
      PROVE  TypeOK'
  BY <1>19 DEF MarkVerified
<1>20. ASSUME NEW w \in Workers, OpAdmit(w)
      PROVE  TypeOK'
  BY <1>20 DEF OpAdmit
<1>21. ASSUME NEW w \in Workers, OpSpawn(w)
      PROVE  TypeOK'
  BY <1>21 DEF OpSpawn
<1>22. ASSUME NEW w \in Workers, OpRunning(w)
      PROVE  TypeOK'
  BY <1>22 DEF OpRunning
<1>23. ASSUME NEW w \in Workers, OpReaped(w)
      PROVE  TypeOK'
  BY <1>23 DEF OpReaped
<1>24. ASSUME NEW w \in Workers, OpKill(w)
      PROVE  TypeOK'
  BY <1>24 DEF OpKill
<1>25. ASSUME NEW w \in Workers, OpReceipt(w)
      PROVE  TypeOK'
  BY <1>25 DEF OpReceipt
<1>26. ASSUME NEW w \in Workers, RecordOpFailure(w)
      PROVE  TypeOK'
  <2>1. job[w] \in Jobs /\ w \in Controllers
    BY <1>26 DEF RecordOpFailure
  <2>2. \E s \in Statuses, e \in Events : /\ status' = [status EXCEPT ![job[w]] = s]
                                       /\ event' = [event EXCEPT ![job[w]] = e]
    BY <1>26 DEF RecordOpFailure
  <2> QED  BY <1>26, <2>1, <2>2 DEF RecordOpFailure
<1>27. ASSUME NEW w \in Workers, Verify(w)
      PROVE  TypeOK'
  BY <1>27 DEF Verify
<1>28. ASSUME NEW w \in Workers, RecordPrepared(w)
      PROVE  TypeOK'
  BY <1>28 DEF RecordPrepared
<1>29. ASSUME NEW w \in Workers, Register(w)
      PROVE  TypeOK'
  BY <1>29 DEF Register
<1>30. ASSUME NEW w \in Workers, PreparationError(w)
      PROVE  TypeOK'
  BY <1>30 DEF PreparationError
<1>31. ASSUME NEW w \in Workers, SupervisionError(w)
      PROVE  TypeOK'
  BY <1>31 DEF SupervisionError
<1>32. ASSUME NEW w \in Workers, DeliveryError(w)
      PROVE  TypeOK'
  BY <1>32 DEF DeliveryError
<1>33. ASSUME NEW w \in Workers, Interrupt(w)
      PROVE  TypeOK'
  <2>1. CASE pc[w] \in AttemptPcs
    <3>1. /\ status' = [status EXCEPT ![job[w]] = "outcome_unknown"]
          /\ event' = [event EXCEPT ![job[w]] = "interrupted"]
      BY <1>33, <2>1 DEF Interrupt
    <3> QED  BY <1>33, <2>1, <3>1 DEF Interrupt
  <2>2. CASE pc[w] \notin AttemptPcs
    BY <1>33, <2>2 DEF Interrupt
  <2> QED  BY <2>1, <2>2
<1>34. ASSUME NEW w \in Workers, NEW why \in {"outcome_unknown", "cancelled"}, OpAbandon(w, why)
      PROVE  TypeOK'
  BY <1>34 DEF OpAbandon
<1>35. ASSUME NEW o \in Operators, RecoverBegin(o)
      PROVE  TypeOK'
  <2>1. job[o] \in Jobs /\ o \in Controllers
    BY <1>35 DEF RecoverBegin
  <2>2. CASE status[job[o]] = "running"
    <3>1. /\ status' = [status EXCEPT ![job[o]] = "outcome_unknown"]
          /\ event' = [event EXCEPT ![job[o]] = "interrupted"]
      BY <1>35, <2>2 DEF RecoverBegin
    <3> QED  BY <1>35, <2>1, <3>1 DEF RecoverBegin
  <2>3. CASE status[job[o]] # "running"
    BY <1>35, <2>1, <2>3 DEF RecoverBegin
  <2> QED  BY <2>2, <2>3
<1>36. ASSUME NEW o \in Operators, RecoverVerify(o)
      PROVE  TypeOK'
  BY <1>36 DEF RecoverVerify
<1>37. ASSUME NEW o \in Operators, RecoverRecord(o)
      PROVE  TypeOK'
  <2>1. job[o] \in Jobs /\ o \in Controllers
    BY <1>37 DEF RecoverRecord
  <2>2. CASE status[job[o]] = "review_required"
    BY <1>37, <2>1, <2>2 DEF RecoverRecord
  <2>3. CASE status[job[o]] # "review_required"
    <3>1. /\ status' = [status EXCEPT ![job[o]] = "review_required"]
          /\ event' = [event EXCEPT ![job[o]] = "recovered"]
          /\ result' = [result EXCEPT ![job[o]] = TRUE]
          /\ verified' = [verified EXCEPT ![job[o]] = TRUE]
      BY <1>37, <2>3 DEF RecoverRecord
    <3> QED  BY <1>37, <2>1, <3>1 DEF RecoverRecord
  <2> QED  BY <2>2, <2>3
<1>38. ASSUME NEW o \in Operators, RecoverRefused(o)
      PROVE  TypeOK'
  BY <1>38 DEF RecoverRefused
<1>39. ASSUME NEW o \in Operators, NEW j \in Jobs, OpenRecovery(o, j)
      PROVE  TypeOK'
  BY <1>39 DEF OpenRecovery
<1>40. ASSUME NEW p \in Controllers, Promote(p)
      PROVE  TypeOK'
  <2>1. job[p] \in Jobs
    BY <1>40 DEF Promote
  <2>2. promoted' = promoted \cup {job[p]}
    BY <1>40 DEF Promote
  <2>3. pc' = [pc EXCEPT ![p] = "promoted"]
    BY <1>40 DEF Promote
  <2>4. UNCHANGED <<ledger, folder, receipt, stage, catalog, foreign, job, op, world, child, spawns>>
    BY <1>40 DEF Promote
  <2>5. pc' \in [Controllers -> WorkerPcs \cup OperatorPcs]
    BY <2>3
  <2>6. promoted' \subseteq Jobs
    BY ONLY TypeOK, <2>1, <2>2, Zenon DEF TypeOK
  <2> QED  BY ONLY TypeOK, <2>4, <2>5, <2>6 DEF TypeOK, ledger, world
<1>41. ASSUME NEW p \in Controllers, AlreadyListed(p)
      PROVE  TypeOK'
  BY <1>41 DEF AlreadyListed
<1>42. ASSUME NEW p \in Controllers, Replace(p)
      PROVE  TypeOK'
  <2>1. job[p] \in Jobs
    BY <1>42 DEF Replace
  <2>2. catalog' = catalog \cup {job[p]}
    BY <1>42 DEF Replace
  <2>3. pc' = [pc EXCEPT ![p] = "cataloged"]
    BY <1>42 DEF Replace
  <2>4. UNCHANGED <<ledger, folder, receipt, stage, promoted, foreign, job, op, world, child, spawns>>
    BY <1>42 DEF Replace
  <2>5. pc' \in [Controllers -> WorkerPcs \cup OperatorPcs]
    BY <2>3
  <2>6. catalog' \subseteq Jobs
    BY ONLY TypeOK, <2>1, <2>2, Zenon DEF TypeOK
  <2> QED  BY ONLY TypeOK, <2>4, <2>5, <2>6 DEF TypeOK, ledger, world
<1>43. ASSUME NEW p \in Controllers, Crash(p)
      PROVE  TypeOK'
  BY <1>43 DEF Crash
<1>44. CASE UNCHANGED vars
  BY <1>44 DEF vars
<1>45. ASSUME NEW j \in Jobs, ChildArm(j)
      PROVE  TypeOK'
  BY <1>45 DEF ChildArm
<1>46. ASSUME NEW j \in Jobs, ChildAlarm(j)
      PROVE  TypeOK'
  BY <1>10, <1>46 DEF ChildAlarm, ChildFail
<1> QED
  BY <1>1, <1>2, <1>3, <1>4, <1>5, <1>6, <1>7, <1>8, <1>9, <1>10, <1>11, <1>12, <1>13, <1>14,
      <1>15, <1>16, <1>17, <1>18, <1>19, <1>20, <1>21, <1>22, <1>23, <1>24, <1>25, <1>26, <1>27,
      <1>28, <1>29, <1>30, <1>31, <1>32, <1>33, <1>34, <1>35, <1>36, <1>37, <1>38, <1>39, <1>40,
      <1>41, <1>42, <1>43, <1>44, <1>45, <1>46, ZenonT(60)
  DEF Next, Outside, ChildStep, WorkerStep, OperatorStep, Publish, Controllers

\* Every step keeps the ledger and the processes in agreement.
LEMMA StatusPreserved ==
  TypeOK /\ LockInv /\ OrphanExcluded /\ StatusInv /\ AtMostOneRunning /\ [Next]_vars
    => (StatusInv /\ AtMostOneRunning)'
<1> SUFFICES ASSUME TypeOK, LockInv, OrphanExcluded, StatusInv, AtMostOneRunning, [Next]_vars
             PROVE  (StatusInv /\ AtMostOneRunning)'
  OBVIOUS
<1> USE BoundsAssumption, ProcessAssumption DEF Jobs, Controllers, Restored, PrepPcs, SupervPcs, PublishPcs, ResultPcs, AttemptPcs, WorkerPcs,
       RecoverPcs, OperatorPcs, GatePcs,
       TypeOK, Statuses, Terminal, Events, Receipts, LockInv,
       Goto, Leave, End, Save, ledger, files, procs, world,
       OrphanExcluded, ChildAlive, MutatorFree, LeaseFree,
       StatusInv, AtMostOneRunning, NextQueued
<1>1. CASE Submit
  BY <1>1 DEF Submit
<1>2. CASE CliEnter
  BY <1>2 DEF CliEnter
<1>3. CASE CliRegister
  BY <1>3 DEF CliRegister
<1>4. CASE CliExit
  BY <1>4 DEF CliExit
<1>5. ASSUME NEW j \in Jobs, ReleaseRestored(j)
      PROVE  (StatusInv /\ AtMostOneRunning)'
  BY <1>5 DEF ReleaseRestored
<1>6. ASSUME NEW j \in Jobs, SourceChange(j)
      PROVE  (StatusInv /\ AtMostOneRunning)'
  BY <1>6 DEF SourceChange
<1>7. ASSUME NEW j \in Jobs, ChildStage(j)
      PROVE  (StatusInv /\ AtMostOneRunning)'
  BY <1>7 DEF ChildStage
<1>8. ASSUME NEW j \in Jobs, ChildComplete(j)
      PROVE  (StatusInv /\ AtMostOneRunning)'
  BY <1>8 DEF ChildComplete
<1>9. ASSUME NEW j \in Jobs, ChildExit(j)
      PROVE  (StatusInv /\ AtMostOneRunning)'
  BY <1>9 DEF ChildExit
<1>10. ASSUME NEW j \in Jobs, ChildFail(j)
      PROVE  (StatusInv /\ AtMostOneRunning)'
  BY <1>10 DEF ChildFail
<1>11. ASSUME NEW w \in Workers, WorkerStart(w)
      PROVE  (StatusInv /\ AtMostOneRunning)'
  BY <1>11 DEF WorkerStart
<1>12. ASSUME NEW w \in Workers, InterruptRunning(w)
      PROVE  (StatusInv /\ AtMostOneRunning)'
  BY <1>12 DEF InterruptRunning
<1>13. ASSUME NEW w \in Workers, StartRefused(w)
      PROVE  (StatusInv /\ AtMostOneRunning)'
  BY <1>13 DEF StartRefused
<1>14. ASSUME NEW w \in Workers, Claim(w)
      PROVE  (StatusInv /\ AtMostOneRunning)'
  <2>1. PICK j \in Jobs : NextQueued(j) /\ Save(j, "running", "claimed")
                           /\ job' = [job EXCEPT ![w] = j]
    BY <1>14 DEF Claim
  <2>2. w \in Controllers /\ \A p \in Controllers : p # w => pc[p] = "down"
    BY <1>14 DEF Claim
  <2>3. \A i \in Jobs : status'[i] = "running" <=> i = j
    BY <1>14, <2>1 DEF Claim
  <2> QED  BY <1>14, <2>1, <2>2, <2>3 DEF Claim
<1>15. ASSUME NEW w \in Workers, RefuseReused(w)
      PROVE  (StatusInv /\ AtMostOneRunning)'
  <2>1. /\ pc[w] \in AttemptPcs /\ count' = count /\ Leave(w, "idle")
        /\ status' = [status EXCEPT ![job[w]] = "outcome_unknown"]
    BY <1>15 DEF RefuseReused
  <2> QED  BY <2>1, AttemptClosed
<1>16. ASSUME NEW w \in Workers, SourceRefused(w)
      PROVE  (StatusInv /\ AtMostOneRunning)'
  <2>1. /\ pc[w] \in AttemptPcs /\ count' = count /\ Leave(w, "idle")
        /\ status' = [status EXCEPT ![job[w]] = "source_changed"]
    BY <1>16 DEF SourceRefused
  <2> QED  BY <2>1, AttemptClosed
<1>17. ASSUME NEW w \in Workers, StartCopy(w)
      PROVE  (StatusInv /\ AtMostOneRunning)'
  BY <1>17 DEF StartCopy
<1>18. ASSUME NEW w \in Workers, FinishCopy(w)
      PROVE  (StatusInv /\ AtMostOneRunning)'
  BY <1>18 DEF FinishCopy
<1>19. ASSUME NEW w \in Workers, MarkVerified(w)
      PROVE  (StatusInv /\ AtMostOneRunning)'
  BY <1>19 DEF MarkVerified
<1>20. ASSUME NEW w \in Workers, OpAdmit(w)
      PROVE  (StatusInv /\ AtMostOneRunning)'
  BY <1>20 DEF OpAdmit
<1>21. ASSUME NEW w \in Workers, OpSpawn(w)
      PROVE  (StatusInv /\ AtMostOneRunning)'
  BY <1>21 DEF OpSpawn
<1>22. ASSUME NEW w \in Workers, OpRunning(w)
      PROVE  (StatusInv /\ AtMostOneRunning)'
  BY <1>22 DEF OpRunning
<1>23. ASSUME NEW w \in Workers, OpReaped(w)
      PROVE  (StatusInv /\ AtMostOneRunning)'
  BY <1>23 DEF OpReaped
<1>24. ASSUME NEW w \in Workers, OpKill(w)
      PROVE  (StatusInv /\ AtMostOneRunning)'
  BY <1>24 DEF OpKill
<1>25. ASSUME NEW w \in Workers, OpReceipt(w)
      PROVE  (StatusInv /\ AtMostOneRunning)'
  BY <1>25 DEF OpReceipt
<1>26. ASSUME NEW w \in Workers, RecordOpFailure(w)
      PROVE  (StatusInv /\ AtMostOneRunning)'
  <2>1. pc[w] \in AttemptPcs /\ count' = count
    BY <1>26 DEF RecordOpFailure
  <2>2. PICK s \in {"failed", "outcome_unknown"} : status' = [status EXCEPT ![job[w]] = s]
    BY <1>26 DEF RecordOpFailure
  <2>3. PICK l \in {"down", "idle"} : Leave(w, l)
    BY <1>26 DEF RecordOpFailure
  <2>4. s \in Terminal
    OBVIOUS
  <2> QED  BY <2>1, <2>2, <2>3, <2>4, AttemptClosed, ZenonT(30)
<1>27. ASSUME NEW w \in Workers, Verify(w)
      PROVE  (StatusInv /\ AtMostOneRunning)'
  BY <1>27 DEF Verify
<1>28. ASSUME NEW w \in Workers, RecordPrepared(w)
      PROVE  (StatusInv /\ AtMostOneRunning)'
  BY <1>28 DEF RecordPrepared
<1>29. ASSUME NEW w \in Workers, Register(w)
      PROVE  (StatusInv /\ AtMostOneRunning)'
  <2>1. /\ pc[w] \in AttemptPcs /\ count' = count /\ Leave(w, "idle")
        /\ status' = [status EXCEPT ![job[w]] = "review_required"]
    BY <1>29 DEF Register
  <2> QED  BY <2>1, AttemptClosed
<1>30. ASSUME NEW w \in Workers, PreparationError(w)
      PROVE  (StatusInv /\ AtMostOneRunning)'
  <2>1. /\ pc[w] \in AttemptPcs /\ count' = count /\ Leave(w, "idle")
        /\ status' = [status EXCEPT ![job[w]] = "failed"]
    BY <1>30 DEF PreparationError
  <2> QED  BY <2>1, AttemptClosed
<1>31. ASSUME NEW w \in Workers, SupervisionError(w)
      PROVE  (StatusInv /\ AtMostOneRunning)'
  <2>1. /\ pc[w] \in AttemptPcs /\ count' = count /\ Leave(w, "idle")
        /\ status' = [status EXCEPT ![job[w]] = "outcome_unknown"]
    BY <1>31 DEF SupervisionError
  <2> QED  BY <2>1, AttemptClosed
<1>32. ASSUME NEW w \in Workers, DeliveryError(w)
      PROVE  (StatusInv /\ AtMostOneRunning)'
  <2>1. /\ pc[w] \in AttemptPcs /\ count' = count /\ Leave(w, "idle")
        /\ status' = [status EXCEPT ![job[w]] = "delivery_failed"]
    BY <1>32 DEF DeliveryError
  <2> QED  BY <2>1, AttemptClosed
<1>33. ASSUME NEW w \in Workers, Interrupt(w)
      PROVE  (StatusInv /\ AtMostOneRunning)'
  BY <1>33 DEF Interrupt
<1>34. ASSUME NEW w \in Workers, NEW why \in {"outcome_unknown", "cancelled"}, OpAbandon(w, why)
      PROVE  (StatusInv /\ AtMostOneRunning)'
  BY <1>34 DEF OpAbandon
<1>35. ASSUME NEW o \in Operators, RecoverBegin(o)
      PROVE  (StatusInv /\ AtMostOneRunning)'
  <2>1. job[o] \in Jobs /\ o \in Controllers /\ \A w \in Workers : pc[w] = "down"
    BY <1>35 DEF RecoverBegin
  <2>2. CASE status[job[o]] = "running"
    <3>1. /\ status' = [status EXCEPT ![job[o]] = "outcome_unknown"]
          /\ event' = [event EXCEPT ![job[o]] = "interrupted"]
      BY <1>35, <2>2 DEF RecoverBegin
    <3> QED  BY <1>35, <2>1, <3>1 DEF RecoverBegin
  <2>3. CASE status[job[o]] # "running"
    BY <1>35, <2>1, <2>3 DEF RecoverBegin
  <2> QED  BY <2>2, <2>3
<1>36. ASSUME NEW o \in Operators, RecoverVerify(o)
      PROVE  (StatusInv /\ AtMostOneRunning)'
  BY <1>36 DEF RecoverVerify
<1>37. ASSUME NEW o \in Operators, RecoverRecord(o)
      PROVE  (StatusInv /\ AtMostOneRunning)'
  <2>1. /\ job[o] \in Jobs /\ o \in Controllers
        /\ status[job[o]] \in {"outcome_unknown", "delivery_failed", "review_required"}
    BY <1>37 DEF RecoverRecord
  <2>2. \A p \in Controllers : pc'[p] = "down"
    BY <1>37, <2>1 DEF RecoverRecord
  <2>3. status' = [status EXCEPT ![job[o]] = "review_required"]
    BY <1>37, <2>1 DEF RecoverRecord
  <2>4. StatusInv'
    BY <1>37, <2>1, <2>2, <2>3 DEF RecoverRecord
  <2>5. AtMostOneRunning'
    BY <2>1, <2>3
  <2> QED  BY <2>4, <2>5
<1>38. ASSUME NEW o \in Operators, RecoverRefused(o)
      PROVE  (StatusInv /\ AtMostOneRunning)'
  BY <1>38 DEF RecoverRefused
<1>39. ASSUME NEW o \in Operators, NEW j \in Jobs, OpenRecovery(o, j)
      PROVE  (StatusInv /\ AtMostOneRunning)'
  BY <1>39 DEF OpenRecovery
<1>40. ASSUME NEW p \in Controllers, Promote(p)
      PROVE  (StatusInv /\ AtMostOneRunning)'
  BY <1>40 DEF Promote
<1>41. ASSUME NEW p \in Controllers, AlreadyListed(p)
      PROVE  (StatusInv /\ AtMostOneRunning)'
  BY <1>41 DEF AlreadyListed
<1>42. ASSUME NEW p \in Controllers, Replace(p)
      PROVE  (StatusInv /\ AtMostOneRunning)'
  BY <1>42 DEF Replace
<1>43. ASSUME NEW p \in Controllers, Crash(p)
      PROVE  (StatusInv /\ AtMostOneRunning)'
  BY <1>43 DEF Crash
<1>44. CASE UNCHANGED vars
  BY <1>44 DEF vars
<1>45. ASSUME NEW j \in Jobs, ChildArm(j)
      PROVE  (StatusInv /\ AtMostOneRunning)'
  BY <1>45 DEF ChildArm
<1>46. ASSUME NEW j \in Jobs, ChildAlarm(j)
      PROVE  (StatusInv /\ AtMostOneRunning)'
  BY <1>10, <1>46 DEF ChildAlarm, ChildFail
<1> QED
  BY <1>1, <1>2, <1>3, <1>4, <1>5, <1>6, <1>7, <1>8, <1>9, <1>10, <1>11, <1>12, <1>13, <1>14,
      <1>15, <1>16, <1>17, <1>18, <1>19, <1>20, <1>21, <1>22, <1>23, <1>24, <1>25, <1>26, <1>27,
      <1>28, <1>29, <1>30, <1>31, <1>32, <1>33, <1>34, <1>35, <1>36, <1>37, <1>38, <1>39, <1>40,
      <1>41, <1>42, <1>43, <1>44, <1>45, <1>46, ZenonT(60)
  DEF Next, Outside, ChildStep, WorkerStep, OperatorStep, Publish, Controllers

\* Every step keeps a second start impossible.
LEMMA DispatchPreserved ==
  TypeOK /\ LockInv /\ OrphanExcluded /\ StatusInv /\ SupervisorInv /\ DispatchInv /\ AtMostOneDispatch /\ HeldNotStarted /\ [Next]_vars
    => (DispatchInv /\ AtMostOneDispatch /\ HeldNotStarted)'
<1> SUFFICES ASSUME TypeOK, LockInv, OrphanExcluded, StatusInv, SupervisorInv, DispatchInv, AtMostOneDispatch, HeldNotStarted, [Next]_vars
             PROVE  (DispatchInv /\ AtMostOneDispatch /\ HeldNotStarted)'
  OBVIOUS
<1> USE BoundsAssumption, ProcessAssumption DEF Jobs, Controllers, Restored, PrepPcs, SupervPcs, PublishPcs, ResultPcs, AttemptPcs, WorkerPcs,
       RecoverPcs, OperatorPcs, GatePcs,
       TypeOK, Statuses, Terminal, Events, Receipts, LockInv,
       Goto, Leave, End, Save, ledger, files, procs, world,
       OrphanExcluded, ChildAlive, MutatorFree, LeaseFree, StatusInv, SupervisorInv,
       DispatchInv, AtMostOneDispatch, HeldNotStarted, NextQueued, Used, Registered, ReceiptOf
<1>1. CASE Submit
  BY <1>1 DEF Submit
<1>2. CASE CliEnter
  BY <1>2 DEF CliEnter
<1>3. CASE CliRegister
  BY <1>3 DEF CliRegister
<1>4. CASE CliExit
  BY <1>4 DEF CliExit
<1>5. ASSUME NEW j \in Jobs, ReleaseRestored(j)
      PROVE  (DispatchInv /\ AtMostOneDispatch /\ HeldNotStarted)'
  BY <1>5 DEF ReleaseRestored
<1>6. ASSUME NEW j \in Jobs, SourceChange(j)
      PROVE  (DispatchInv /\ AtMostOneDispatch /\ HeldNotStarted)'
  BY <1>6 DEF SourceChange
<1>7. ASSUME NEW j \in Jobs, ChildStage(j)
      PROVE  (DispatchInv /\ AtMostOneDispatch /\ HeldNotStarted)'
  BY <1>7 DEF ChildStage
<1>8. ASSUME NEW j \in Jobs, ChildComplete(j)
      PROVE  (DispatchInv /\ AtMostOneDispatch /\ HeldNotStarted)'
  BY <1>8 DEF ChildComplete
<1>9. ASSUME NEW j \in Jobs, ChildExit(j)
      PROVE  (DispatchInv /\ AtMostOneDispatch /\ HeldNotStarted)'
  BY <1>9 DEF ChildExit
<1>10. ASSUME NEW j \in Jobs, ChildFail(j)
      PROVE  (DispatchInv /\ AtMostOneDispatch /\ HeldNotStarted)'
  BY <1>10 DEF ChildFail
<1>11. ASSUME NEW w \in Workers, WorkerStart(w)
      PROVE  (DispatchInv /\ AtMostOneDispatch /\ HeldNotStarted)'
  BY <1>11 DEF WorkerStart
<1>12. ASSUME NEW w \in Workers, InterruptRunning(w)
      PROVE  (DispatchInv /\ AtMostOneDispatch /\ HeldNotStarted)'
  BY <1>12 DEF InterruptRunning
<1>13. ASSUME NEW w \in Workers, StartRefused(w)
      PROVE  (DispatchInv /\ AtMostOneDispatch /\ HeldNotStarted)'
  BY <1>13 DEF StartRefused
<1>14. ASSUME NEW w \in Workers, Claim(w)
      PROVE  (DispatchInv /\ AtMostOneDispatch /\ HeldNotStarted)'
  BY <1>14 DEF Claim
<1>15. ASSUME NEW w \in Workers, RefuseReused(w)
      PROVE  (DispatchInv /\ AtMostOneDispatch /\ HeldNotStarted)'
  BY <1>15 DEF RefuseReused
<1>16. ASSUME NEW w \in Workers, SourceRefused(w)
      PROVE  (DispatchInv /\ AtMostOneDispatch /\ HeldNotStarted)'
  BY <1>16 DEF SourceRefused
<1>17. ASSUME NEW w \in Workers, StartCopy(w)
      PROVE  (DispatchInv /\ AtMostOneDispatch /\ HeldNotStarted)'
  BY <1>17 DEF StartCopy
<1>18. ASSUME NEW w \in Workers, FinishCopy(w)
      PROVE  (DispatchInv /\ AtMostOneDispatch /\ HeldNotStarted)'
  BY <1>18 DEF FinishCopy
<1>19. ASSUME NEW w \in Workers, MarkVerified(w)
      PROVE  (DispatchInv /\ AtMostOneDispatch /\ HeldNotStarted)'
  BY <1>19 DEF MarkVerified
<1>20. ASSUME NEW w \in Workers, OpAdmit(w)
      PROVE  (DispatchInv /\ AtMostOneDispatch /\ HeldNotStarted)'
  BY <1>20 DEF OpAdmit
<1>21. ASSUME NEW w \in Workers, OpSpawn(w)
      PROVE  (DispatchInv /\ AtMostOneDispatch /\ HeldNotStarted)'
  <2>1. job[w] \in Jobs /\ w \in Controllers /\ spawns[job[w]] = 0
    BY <1>21 DEF OpSpawn
  <2>2. status[job[w]] = "running"
    BY <1>21 DEF OpSpawn
  <2>3. spawns' = [spawns EXCEPT ![job[w]] = 1]
    BY <1>21, <2>1 DEF OpSpawn
  <2>4. AtMostOneDispatch' /\ HeldNotStarted'
    BY <1>21, <2>1, <2>2, <2>3 DEF OpSpawn
  <2>5. \A v \in Workers : v # w => pc'[v] = "down"
    BY <1>21, <2>1 DEF OpSpawn
  <2>6. DispatchInv'
    BY <1>21, <2>1, <2>2, <2>3, <2>5 DEF OpSpawn
  <2> QED  BY <2>4, <2>6
<1>22. ASSUME NEW w \in Workers, OpRunning(w)
      PROVE  (DispatchInv /\ AtMostOneDispatch /\ HeldNotStarted)'
  BY <1>22 DEF OpRunning
<1>23. ASSUME NEW w \in Workers, OpReaped(w)
      PROVE  (DispatchInv /\ AtMostOneDispatch /\ HeldNotStarted)'
  BY <1>23 DEF OpReaped
<1>24. ASSUME NEW w \in Workers, OpKill(w)
      PROVE  (DispatchInv /\ AtMostOneDispatch /\ HeldNotStarted)'
  BY <1>24 DEF OpKill
<1>25. ASSUME NEW w \in Workers, OpReceipt(w)
      PROVE  (DispatchInv /\ AtMostOneDispatch /\ HeldNotStarted)'
  BY <1>25 DEF OpReceipt
<1>26. ASSUME NEW w \in Workers, RecordOpFailure(w)
      PROVE  (DispatchInv /\ AtMostOneDispatch /\ HeldNotStarted)'
  BY <1>26 DEF RecordOpFailure
<1>27. ASSUME NEW w \in Workers, Verify(w)
      PROVE  (DispatchInv /\ AtMostOneDispatch /\ HeldNotStarted)'
  BY <1>27 DEF Verify
<1>28. ASSUME NEW w \in Workers, RecordPrepared(w)
      PROVE  (DispatchInv /\ AtMostOneDispatch /\ HeldNotStarted)'
  BY <1>28 DEF RecordPrepared
<1>29. ASSUME NEW w \in Workers, Register(w)
      PROVE  (DispatchInv /\ AtMostOneDispatch /\ HeldNotStarted)'
  BY <1>29 DEF Register
<1>30. ASSUME NEW w \in Workers, PreparationError(w)
      PROVE  (DispatchInv /\ AtMostOneDispatch /\ HeldNotStarted)'
  BY <1>30 DEF PreparationError
<1>31. ASSUME NEW w \in Workers, SupervisionError(w)
      PROVE  (DispatchInv /\ AtMostOneDispatch /\ HeldNotStarted)'
  BY <1>31 DEF SupervisionError
<1>32. ASSUME NEW w \in Workers, DeliveryError(w)
      PROVE  (DispatchInv /\ AtMostOneDispatch /\ HeldNotStarted)'
  BY <1>32 DEF DeliveryError
<1>33. ASSUME NEW w \in Workers, Interrupt(w)
      PROVE  (DispatchInv /\ AtMostOneDispatch /\ HeldNotStarted)'
  BY <1>33 DEF Interrupt
<1>34. ASSUME NEW w \in Workers, NEW why \in {"outcome_unknown", "cancelled"}, OpAbandon(w, why)
      PROVE  (DispatchInv /\ AtMostOneDispatch /\ HeldNotStarted)'
  BY <1>34 DEF OpAbandon
<1>35. ASSUME NEW o \in Operators, RecoverBegin(o)
      PROVE  (DispatchInv /\ AtMostOneDispatch /\ HeldNotStarted)'
  BY <1>35 DEF RecoverBegin
<1>36. ASSUME NEW o \in Operators, RecoverVerify(o)
      PROVE  (DispatchInv /\ AtMostOneDispatch /\ HeldNotStarted)'
  BY <1>36 DEF RecoverVerify
<1>37. ASSUME NEW o \in Operators, RecoverRecord(o)
      PROVE  (DispatchInv /\ AtMostOneDispatch /\ HeldNotStarted)'
  <2>1. /\ job[o] \in Jobs /\ o \in Controllers
        /\ status[job[o]] \in {"outcome_unknown", "delivery_failed", "review_required"}
    BY <1>37 DEF RecoverRecord
  <2>2. \A p \in Controllers : pc'[p] = "down"
    BY <1>37, <2>1 DEF RecoverRecord
  <2>3. status' = [status EXCEPT ![job[o]] = "review_required"]
    BY <1>37, <2>1 DEF RecoverRecord
  <2>4. UNCHANGED <<spawns, held, folder, receipt, catalog>>
    BY <1>37 DEF RecoverRecord
  <2> QED  BY <2>1, <2>2, <2>3, <2>4
<1>38. ASSUME NEW o \in Operators, RecoverRefused(o)
      PROVE  (DispatchInv /\ AtMostOneDispatch /\ HeldNotStarted)'
  BY <1>38 DEF RecoverRefused
<1>39. ASSUME NEW o \in Operators, NEW j \in Jobs, OpenRecovery(o, j)
      PROVE  (DispatchInv /\ AtMostOneDispatch /\ HeldNotStarted)'
  BY <1>39 DEF OpenRecovery
<1>40. ASSUME NEW p \in Controllers, Promote(p)
      PROVE  (DispatchInv /\ AtMostOneDispatch /\ HeldNotStarted)'
  BY <1>40 DEF Promote
<1>41. ASSUME NEW p \in Controllers, AlreadyListed(p)
      PROVE  (DispatchInv /\ AtMostOneDispatch /\ HeldNotStarted)'
  BY <1>41 DEF AlreadyListed
<1>42. ASSUME NEW p \in Controllers, Replace(p)
      PROVE  (DispatchInv /\ AtMostOneDispatch /\ HeldNotStarted)'
  BY <1>42 DEF Replace
<1>43. ASSUME NEW p \in Controllers, Crash(p)
      PROVE  (DispatchInv /\ AtMostOneDispatch /\ HeldNotStarted)'
  BY <1>43 DEF Crash
<1>44. CASE UNCHANGED vars
  BY <1>44 DEF vars
<1>45. ASSUME NEW j \in Jobs, ChildArm(j)
      PROVE  (DispatchInv /\ AtMostOneDispatch /\ HeldNotStarted)'
  BY <1>45 DEF ChildArm
<1>46. ASSUME NEW j \in Jobs, ChildAlarm(j)
      PROVE  (DispatchInv /\ AtMostOneDispatch /\ HeldNotStarted)'
  BY <1>10, <1>46 DEF ChildAlarm, ChildFail
<1> QED
  BY <1>1, <1>2, <1>3, <1>4, <1>5, <1>6, <1>7, <1>8, <1>9, <1>10, <1>11, <1>12, <1>13, <1>14,
      <1>15, <1>16, <1>17, <1>18, <1>19, <1>20, <1>21, <1>22, <1>23, <1>24, <1>25, <1>26, <1>27,
      <1>28, <1>29, <1>30, <1>31, <1>32, <1>33, <1>34, <1>35, <1>36, <1>37, <1>38, <1>39, <1>40,
      <1>41, <1>42, <1>43, <1>44, <1>45, <1>46, ZenonT(60)
  DEF Next, Outside, ChildStep, WorkerStep, OperatorStep, Publish, Controllers

\* Every step keeps what the supervisor concluded and the files it rests on.
LEMMA SupervisorPreserved ==
  TypeOK /\ LockInv /\ StatusInv /\ DispatchInv /\ SupervisorInv /\ PublishInv /\ DeliveryRecoverable /\ [Next]_vars
    => (SupervisorInv /\ DeliveryRecoverable)'
<1> SUFFICES ASSUME TypeOK, LockInv, StatusInv, DispatchInv, SupervisorInv, PublishInv, DeliveryRecoverable, [Next]_vars
             PROVE  (SupervisorInv /\ DeliveryRecoverable)'
  OBVIOUS
<1> USE BoundsAssumption, ProcessAssumption DEF Jobs, Controllers, Restored, PrepPcs, SupervPcs, PublishPcs, ResultPcs, AttemptPcs, WorkerPcs,
       RecoverPcs, OperatorPcs, GatePcs,
       TypeOK, Statuses, Terminal, Events, Receipts, LockInv,
       Goto, Leave, End, Save, ledger, files, procs, world,
       StatusInv, DispatchInv, SupervisorInv, PublishInv, DeliveryRecoverable,
       Evidence, Used, ReceiptOf
<1>1. CASE Submit
  BY <1>1 DEF Submit
<1>2. CASE CliEnter
  BY <1>2 DEF CliEnter
<1>3. CASE CliRegister
  BY <1>3 DEF CliRegister
<1>4. CASE CliExit
  BY <1>4 DEF CliExit
<1>5. ASSUME NEW j \in Jobs, ReleaseRestored(j)
      PROVE  (SupervisorInv /\ DeliveryRecoverable)'
  BY <1>5 DEF ReleaseRestored
<1>6. ASSUME NEW j \in Jobs, SourceChange(j)
      PROVE  (SupervisorInv /\ DeliveryRecoverable)'
  BY <1>6 DEF SourceChange
<1>7. ASSUME NEW j \in Jobs, ChildStage(j)
      PROVE  (SupervisorInv /\ DeliveryRecoverable)'
  BY <1>7 DEF ChildStage
<1>8. ASSUME NEW j \in Jobs, ChildComplete(j)
      PROVE  (SupervisorInv /\ DeliveryRecoverable)'
  BY <1>8 DEF ChildComplete
<1>9. ASSUME NEW j \in Jobs, ChildExit(j)
      PROVE  (SupervisorInv /\ DeliveryRecoverable)'
  BY <1>9 DEF ChildExit
<1>10. ASSUME NEW j \in Jobs, ChildFail(j)
      PROVE  (SupervisorInv /\ DeliveryRecoverable)'
  BY <1>10 DEF ChildFail
<1>11. ASSUME NEW w \in Workers, WorkerStart(w)
      PROVE  (SupervisorInv /\ DeliveryRecoverable)'
  BY <1>11 DEF WorkerStart
<1>12. ASSUME NEW w \in Workers, InterruptRunning(w)
      PROVE  (SupervisorInv /\ DeliveryRecoverable)'
  BY <1>12 DEF InterruptRunning
<1>13. ASSUME NEW w \in Workers, StartRefused(w)
      PROVE  (SupervisorInv /\ DeliveryRecoverable)'
  BY <1>13 DEF StartRefused
<1>14. ASSUME NEW w \in Workers, Claim(w)
      PROVE  (SupervisorInv /\ DeliveryRecoverable)'
  BY <1>14 DEF Claim
<1>15. ASSUME NEW w \in Workers, RefuseReused(w)
      PROVE  (SupervisorInv /\ DeliveryRecoverable)'
  BY <1>15 DEF RefuseReused
<1>16. ASSUME NEW w \in Workers, SourceRefused(w)
      PROVE  (SupervisorInv /\ DeliveryRecoverable)'
  BY <1>16 DEF SourceRefused
<1>17. ASSUME NEW w \in Workers, StartCopy(w)
      PROVE  (SupervisorInv /\ DeliveryRecoverable)'
  BY <1>17 DEF StartCopy
<1>18. ASSUME NEW w \in Workers, FinishCopy(w)
      PROVE  (SupervisorInv /\ DeliveryRecoverable)'
  BY <1>18 DEF FinishCopy
<1>19. ASSUME NEW w \in Workers, MarkVerified(w)
      PROVE  (SupervisorInv /\ DeliveryRecoverable)'
  BY <1>19 DEF MarkVerified
<1>20. ASSUME NEW w \in Workers, OpAdmit(w)
      PROVE  (SupervisorInv /\ DeliveryRecoverable)'
  BY <1>20 DEF OpAdmit
<1>21. ASSUME NEW w \in Workers, OpSpawn(w)
      PROVE  (SupervisorInv /\ DeliveryRecoverable)'
  BY <1>21 DEF OpSpawn
<1>22. ASSUME NEW w \in Workers, OpRunning(w)
      PROVE  (SupervisorInv /\ DeliveryRecoverable)'
  <2>1. job[w] \in Jobs /\ w \in Controllers /\ receipt[job[w]] \in {"admitted", "running"}
    BY <1>22 DEF OpRunning
  <2>2. \A v \in Workers : v # w => pc'[v] = "down"
    BY <1>22, <2>1 DEF OpRunning
  <2>3. SupervisorInv'
    BY <1>22, <2>1, <2>2 DEF OpRunning
  <2>4. DeliveryRecoverable'
    BY <1>22, <2>1 DEF OpRunning
  <2> QED  BY <2>3, <2>4
<1>23. ASSUME NEW w \in Workers, OpReaped(w)
      PROVE  (SupervisorInv /\ DeliveryRecoverable)'
  BY <1>23 DEF OpReaped
<1>24. ASSUME NEW w \in Workers, OpKill(w)
      PROVE  (SupervisorInv /\ DeliveryRecoverable)'
  BY <1>24 DEF OpKill
<1>25. ASSUME NEW w \in Workers, OpReceipt(w)
      PROVE  (SupervisorInv /\ DeliveryRecoverable)'
  <2>1. job[w] \in Jobs /\ w \in Controllers /\ receipt[job[w]] \in {"admitted", "running"}
    BY <1>25 DEF OpReceipt
  <2>2. \A v \in Workers : v # w => pc'[v] = "down"
    BY <1>25, <2>1 DEF OpReceipt
  <2>3. SupervisorInv'
    <3>1. /\ pc[w] = "stopped" /\ pc' = [pc EXCEPT ![w] = "finished"]
          /\ receipt' = [receipt EXCEPT ![job[w]] = IF op[w] = "cancelled" THEN "outcome_unknown"
                                                   ELSE op[w]]
          /\ UNCHANGED <<verified, folder, job, op, spawns>>
      BY <1>25 DEF OpReceipt
    <3>2. \A v \in Workers : pc'[v] \in AttemptPcs => v = w /\ pc'[v] = "finished"
      BY <2>1, <2>2, <3>1
    <3>3. op[w] # "none" /\ folder[job[w]] = "ready" /\ verified[job[w]]
      BY <2>1, <3>1
    <3>4. \A j \in Jobs : receipt'[j] = "review_required" => spawns[j] = 1
      BY <2>1, <3>1
    <3>5. \A j \in Jobs \ Restored : receipt'[j] # "none" => verified[j]
      BY <2>1, <3>1, <3>3
    <3> QED  BY ONLY <3>1, <3>2, <3>3, <3>4, <3>5, <2>1
             DEF SupervisorInv, AttemptPcs, PrepPcs, SupervPcs, ResultPcs, PublishPcs
  <2>4. DeliveryRecoverable'
    BY <1>25, <2>1 DEF OpReceipt
  <2> QED  BY <2>3, <2>4
<1>26. ASSUME NEW w \in Workers, RecordOpFailure(w)
      PROVE  (SupervisorInv /\ DeliveryRecoverable)'
  BY <1>26 DEF RecordOpFailure
<1>27. ASSUME NEW w \in Workers, Verify(w)
      PROVE  (SupervisorInv /\ DeliveryRecoverable)'
  BY <1>27 DEF Verify
<1>28. ASSUME NEW w \in Workers, RecordPrepared(w)
      PROVE  (SupervisorInv /\ DeliveryRecoverable)'
  <2>1. job[w] \in Jobs /\ w \in Controllers /\ Evidence(job[w])
    BY <1>28 DEF RecordPrepared
  <2>2. \A v \in Controllers : v # w => pc'[v] = "down"
    BY <1>28, <2>1 DEF RecordPrepared
  <2>3. SupervisorInv'
    BY <1>28, <2>1, <2>2 DEF RecordPrepared
  <2>4. DeliveryRecoverable'
    BY <1>28, <2>1 DEF RecordPrepared
  <2> QED  BY <2>3, <2>4
<1>29. ASSUME NEW w \in Workers, Register(w)
      PROVE  (SupervisorInv /\ DeliveryRecoverable)'
  BY <1>29 DEF Register
<1>30. ASSUME NEW w \in Workers, PreparationError(w)
      PROVE  (SupervisorInv /\ DeliveryRecoverable)'
  BY <1>30 DEF PreparationError
<1>31. ASSUME NEW w \in Workers, SupervisionError(w)
      PROVE  (SupervisorInv /\ DeliveryRecoverable)'
  BY <1>31 DEF SupervisionError
<1>32. ASSUME NEW w \in Workers, DeliveryError(w)
      PROVE  (SupervisorInv /\ DeliveryRecoverable)'
  BY <1>32 DEF DeliveryError
<1>33. ASSUME NEW w \in Workers, Interrupt(w)
      PROVE  (SupervisorInv /\ DeliveryRecoverable)'
  BY <1>33 DEF Interrupt
<1>34. ASSUME NEW w \in Workers, NEW why \in {"outcome_unknown", "cancelled"}, OpAbandon(w, why)
      PROVE  (SupervisorInv /\ DeliveryRecoverable)'
  BY <1>34 DEF OpAbandon
<1>35. ASSUME NEW o \in Operators, RecoverBegin(o)
      PROVE  (SupervisorInv /\ DeliveryRecoverable)'
  BY <1>35 DEF RecoverBegin
<1>36. ASSUME NEW o \in Operators, RecoverVerify(o)
      PROVE  (SupervisorInv /\ DeliveryRecoverable)'
  BY <1>36 DEF RecoverVerify
<1>37. ASSUME NEW o \in Operators, RecoverRecord(o)
      PROVE  (SupervisorInv /\ DeliveryRecoverable)'
  <2>1. job[o] \in Jobs /\ o \in Controllers /\ \A w \in Workers : pc'[w] = "down"
    BY <1>37 DEF RecoverRecord
  <2>2. Evidence(job[o])
    BY <1>37, <2>1 DEF RecoverRecord
  <2>3. CASE status[job[o]] = "review_required"
    BY <1>37, <2>1, <2>3 DEF RecoverRecord
  <2>4. CASE status[job[o]] # "review_required"
    <3>1. /\ status' = [status EXCEPT ![job[o]] = "review_required"]
          /\ result' = [result EXCEPT ![job[o]] = TRUE]
          /\ verified' = [verified EXCEPT ![job[o]] = TRUE]
      BY <1>37, <2>4 DEF RecoverRecord
    <3> QED  BY <1>37, <2>1, <2>2, <3>1 DEF RecoverRecord
  <2> QED  BY <2>3, <2>4
<1>38. ASSUME NEW o \in Operators, RecoverRefused(o)
      PROVE  (SupervisorInv /\ DeliveryRecoverable)'
  BY <1>38 DEF RecoverRefused
<1>39. ASSUME NEW o \in Operators, NEW j \in Jobs, OpenRecovery(o, j)
      PROVE  (SupervisorInv /\ DeliveryRecoverable)'
  BY <1>39 DEF OpenRecovery
<1>40. ASSUME NEW p \in Controllers, Promote(p)
      PROVE  (SupervisorInv /\ DeliveryRecoverable)'
  BY <1>40 DEF Promote
<1>41. ASSUME NEW p \in Controllers, AlreadyListed(p)
      PROVE  (SupervisorInv /\ DeliveryRecoverable)'
  BY <1>41 DEF AlreadyListed
<1>42. ASSUME NEW p \in Controllers, Replace(p)
      PROVE  (SupervisorInv /\ DeliveryRecoverable)'
  BY <1>42 DEF Replace
<1>43. ASSUME NEW p \in Controllers, Crash(p)
      PROVE  (SupervisorInv /\ DeliveryRecoverable)'
  BY <1>43 DEF Crash
<1>44. CASE UNCHANGED vars
  BY <1>44 DEF vars
<1>45. ASSUME NEW j \in Jobs, ChildArm(j)
      PROVE  (SupervisorInv /\ DeliveryRecoverable)'
  BY <1>45 DEF ChildArm
<1>46. ASSUME NEW j \in Jobs, ChildAlarm(j)
      PROVE  (SupervisorInv /\ DeliveryRecoverable)'
  BY <1>10, <1>46 DEF ChildAlarm, ChildFail
<1> QED
  BY <1>1, <1>2, <1>3, <1>4, <1>5, <1>6, <1>7, <1>8, <1>9, <1>10, <1>11, <1>12, <1>13, <1>14,
      <1>15, <1>16, <1>17, <1>18, <1>19, <1>20, <1>21, <1>22, <1>23, <1>24, <1>25, <1>26, <1>27,
      <1>28, <1>29, <1>30, <1>31, <1>32, <1>33, <1>34, <1>35, <1>36, <1>37, <1>38, <1>39, <1>40,
      <1>41, <1>42, <1>43, <1>44, <1>45, <1>46, ZenonT(60)
  DEF Next, Outside, ChildStep, WorkerStep, OperatorStep, Publish, Controllers

\* Every step keeps the catalogue and the ledger in agreement.
LEMMA PublishPreserved ==
  TypeOK /\ LockInv /\ StatusInv /\ DispatchInv /\ SupervisorInv /\ PublishInv /\ VisibleReport /\ DeliveredIsListed /\ [Next]_vars
    => (PublishInv /\ VisibleReport /\ DeliveredIsListed)'
<1> SUFFICES ASSUME TypeOK, LockInv, StatusInv, DispatchInv, SupervisorInv, PublishInv, VisibleReport, DeliveredIsListed, [Next]_vars
             PROVE  (PublishInv /\ VisibleReport /\ DeliveredIsListed)'
  OBVIOUS
<1> USE BoundsAssumption, ProcessAssumption DEF Jobs, Controllers, Restored, PrepPcs, SupervPcs, PublishPcs, ResultPcs, AttemptPcs, WorkerPcs,
       RecoverPcs, OperatorPcs, GatePcs,
       TypeOK, Statuses, Terminal, Events, Receipts, LockInv,
       Goto, Leave, End, Save, ledger, files, procs, world,
       StatusInv, DispatchInv, SupervisorInv, PublishInv, VisibleReport, DeliveredIsListed,
       Evidence, ProofHolds, SourceHolds, NextQueued, Used, Registered, ReceiptOf
<1>1. CASE Submit
  BY <1>1 DEF Submit
<1>2. CASE CliEnter
  BY <1>2 DEF CliEnter
<1>3. CASE CliRegister
  BY <1>3 DEF CliRegister
<1>4. CASE CliExit
  BY <1>4 DEF CliExit
<1>5. ASSUME NEW j \in Jobs, ReleaseRestored(j)
      PROVE  (PublishInv /\ VisibleReport /\ DeliveredIsListed)'
  BY <1>5 DEF ReleaseRestored
<1>6. ASSUME NEW j \in Jobs, SourceChange(j)
      PROVE  (PublishInv /\ VisibleReport /\ DeliveredIsListed)'
  BY <1>6 DEF SourceChange
<1>7. ASSUME NEW j \in Jobs, ChildStage(j)
      PROVE  (PublishInv /\ VisibleReport /\ DeliveredIsListed)'
  BY <1>7 DEF ChildStage
<1>8. ASSUME NEW j \in Jobs, ChildComplete(j)
      PROVE  (PublishInv /\ VisibleReport /\ DeliveredIsListed)'
  BY <1>8 DEF ChildComplete
<1>9. ASSUME NEW j \in Jobs, ChildExit(j)
      PROVE  (PublishInv /\ VisibleReport /\ DeliveredIsListed)'
  BY <1>9 DEF ChildExit
<1>10. ASSUME NEW j \in Jobs, ChildFail(j)
      PROVE  (PublishInv /\ VisibleReport /\ DeliveredIsListed)'
  BY <1>10 DEF ChildFail
<1>11. ASSUME NEW w \in Workers, WorkerStart(w)
      PROVE  (PublishInv /\ VisibleReport /\ DeliveredIsListed)'
  BY <1>11 DEF WorkerStart
<1>12. ASSUME NEW w \in Workers, InterruptRunning(w)
      PROVE  (PublishInv /\ VisibleReport /\ DeliveredIsListed)'
  BY <1>12 DEF InterruptRunning
<1>13. ASSUME NEW w \in Workers, StartRefused(w)
      PROVE  (PublishInv /\ VisibleReport /\ DeliveredIsListed)'
  BY <1>13 DEF StartRefused
<1>14. ASSUME NEW w \in Workers, Claim(w)
      PROVE  (PublishInv /\ VisibleReport /\ DeliveredIsListed)'
  <2>1. PICK j \in Jobs : NextQueued(j) /\ Save(j, "running", "claimed")
                           /\ job' = [job EXCEPT ![w] = j]
    BY <1>14 DEF Claim
  <2>2. w \in Controllers /\ \A v \in Controllers : v # w => pc'[v] = "down"
    BY <1>14 DEF Claim
  <2>3. j \in catalog => j \in Restored
    BY <2>1
  <2> QED  BY <1>14, <2>1, <2>2, <2>3 DEF Claim
<1>15. ASSUME NEW w \in Workers, RefuseReused(w)
      PROVE  (PublishInv /\ VisibleReport /\ DeliveredIsListed)'
  BY <1>15 DEF RefuseReused
<1>16. ASSUME NEW w \in Workers, SourceRefused(w)
      PROVE  (PublishInv /\ VisibleReport /\ DeliveredIsListed)'
  BY <1>16 DEF SourceRefused
<1>17. ASSUME NEW w \in Workers, StartCopy(w)
      PROVE  (PublishInv /\ VisibleReport /\ DeliveredIsListed)'
  BY <1>17 DEF StartCopy
<1>18. ASSUME NEW w \in Workers, FinishCopy(w)
      PROVE  (PublishInv /\ VisibleReport /\ DeliveredIsListed)'
  BY <1>18 DEF FinishCopy
<1>19. ASSUME NEW w \in Workers, MarkVerified(w)
      PROVE  (PublishInv /\ VisibleReport /\ DeliveredIsListed)'
  BY <1>19 DEF MarkVerified
<1>20. ASSUME NEW w \in Workers, OpAdmit(w)
      PROVE  (PublishInv /\ VisibleReport /\ DeliveredIsListed)'
  BY <1>20 DEF OpAdmit
<1>21. ASSUME NEW w \in Workers, OpSpawn(w)
      PROVE  (PublishInv /\ VisibleReport /\ DeliveredIsListed)'
  BY <1>21 DEF OpSpawn
<1>22. ASSUME NEW w \in Workers, OpRunning(w)
      PROVE  (PublishInv /\ VisibleReport /\ DeliveredIsListed)'
  BY <1>22 DEF OpRunning
<1>23. ASSUME NEW w \in Workers, OpReaped(w)
      PROVE  (PublishInv /\ VisibleReport /\ DeliveredIsListed)'
  BY <1>23 DEF OpReaped
<1>24. ASSUME NEW w \in Workers, OpKill(w)
      PROVE  (PublishInv /\ VisibleReport /\ DeliveredIsListed)'
  BY <1>24 DEF OpKill
<1>25. ASSUME NEW w \in Workers, OpReceipt(w)
      PROVE  (PublishInv /\ VisibleReport /\ DeliveredIsListed)'
  BY <1>25 DEF OpReceipt
<1>26. ASSUME NEW w \in Workers, RecordOpFailure(w)
      PROVE  (PublishInv /\ VisibleReport /\ DeliveredIsListed)'
  <2>1. job[w] \in Jobs /\ w \in Controllers /\ (job[w] \in catalog => job[w] \in Restored)
    BY <1>26 DEF RecordOpFailure
  <2>2. PICK s \in {"failed", "outcome_unknown"} : status' = [status EXCEPT ![job[w]] = s]
    BY <1>26 DEF RecordOpFailure
  <2>3. \A v \in Controllers : pc'[v] \in {"down", "idle"}
    BY <1>26, <2>1 DEF RecordOpFailure
  <2> QED  BY <1>26, <2>1, <2>2, <2>3 DEF RecordOpFailure
<1>27. ASSUME NEW w \in Workers, Verify(w)
      PROVE  (PublishInv /\ VisibleReport /\ DeliveredIsListed)'
  <2>1. /\ pc[w] = "finished" /\ pc' = [pc EXCEPT ![w] = "checked"]
        /\ UNCHANGED <<ledger, files, job, op, world, child, spawns>>
        /\ w \in Controllers /\ Evidence(job[w])
    BY <1>27 DEF Verify, ProofHolds
  <2>2. PublishInv'
    <3>1. \A p \in Controllers : pc'[p] = IF p = w THEN "checked" ELSE pc[p]
      BY <2>1
    <3>2. Evidence(job[w])' /\ \A p \in Controllers : Evidence(job[p]) => Evidence(job[p])'
      BY ONLY <2>1 DEF Evidence, files
    <3> QED  BY ONLY PublishInv, <2>1, <3>1, <3>2
             DEF PublishInv, Controllers, AttemptPcs, PrepPcs, SupervPcs, ResultPcs, PublishPcs,
                 ledger, files
  <2>3. (VisibleReport /\ DeliveredIsListed)'
    BY <2>1
  <2> QED  BY <2>2, <2>3
<1>28. ASSUME NEW w \in Workers, RecordPrepared(w)
      PROVE  (PublishInv /\ VisibleReport /\ DeliveredIsListed)'
  BY <1>28 DEF RecordPrepared
<1>29. ASSUME NEW w \in Workers, Register(w)
      PROVE  (PublishInv /\ VisibleReport /\ DeliveredIsListed)'
  <2>1. /\ job[w] \in Jobs /\ w \in Controllers
        /\ job[w] \in catalog /\ Evidence(job[w])
    BY <1>29 DEF Register
  <2>2. \A v \in Controllers : v # w => pc'[v] = "down"
    BY <1>29, <2>1 DEF Register
  <2>3. pc'[w] = "idle"
    BY <1>29, <2>1 DEF Register
  <2>4. result[job[w]]
    BY <1>29, <2>1 DEF Register
  <2> QED  BY <1>29, <2>1, <2>2, <2>3, <2>4 DEF Register
<1>30. ASSUME NEW w \in Workers, PreparationError(w)
      PROVE  (PublishInv /\ VisibleReport /\ DeliveredIsListed)'
  BY <1>30 DEF PreparationError
<1>31. ASSUME NEW w \in Workers, SupervisionError(w)
      PROVE  (PublishInv /\ VisibleReport /\ DeliveredIsListed)'
  BY <1>31 DEF SupervisionError
<1>32. ASSUME NEW w \in Workers, DeliveryError(w)
      PROVE  (PublishInv /\ VisibleReport /\ DeliveredIsListed)'
  BY <1>32 DEF DeliveryError
<1>33. ASSUME NEW w \in Workers, Interrupt(w)
      PROVE  (PublishInv /\ VisibleReport /\ DeliveredIsListed)'
  <2>1. \A p \in Controllers : pc'[p] = "down"
    BY <1>33 DEF Interrupt
  <2>2. CASE pc[w] \in AttemptPcs
    <3>1. status' = [status EXCEPT ![job[w]] = "outcome_unknown"]
      BY <1>33, <2>2 DEF Interrupt
    <3>2. job[w] \in Jobs /\ status[job[w]] = "running"
      BY <1>33, <2>2 DEF Interrupt
    <3> QED  BY <1>33, <2>1, <3>1, <3>2 DEF Interrupt
  <2>3. CASE pc[w] \notin AttemptPcs
    BY <1>33, <2>1, <2>3 DEF Interrupt
  <2> QED  BY <2>2, <2>3
<1>34. ASSUME NEW w \in Workers, NEW why \in {"outcome_unknown", "cancelled"}, OpAbandon(w, why)
      PROVE  (PublishInv /\ VisibleReport /\ DeliveredIsListed)'
  BY <1>34 DEF OpAbandon
<1>35. ASSUME NEW o \in Operators, RecoverBegin(o)
      PROVE  (PublishInv /\ VisibleReport /\ DeliveredIsListed)'
  BY <1>35 DEF RecoverBegin
<1>36. ASSUME NEW o \in Operators, RecoverVerify(o)
      PROVE  (PublishInv /\ VisibleReport /\ DeliveredIsListed)'
  BY <1>36 DEF RecoverVerify
<1>37. ASSUME NEW o \in Operators, RecoverRecord(o)
      PROVE  (PublishInv /\ VisibleReport /\ DeliveredIsListed)'
  <2>1. /\ job[o] \in Jobs /\ o \in Controllers
        /\ job[o] \in catalog /\ Evidence(job[o])
    BY <1>37 DEF RecoverRecord
  <2>2. \A p \in Controllers : pc'[p] = "down"
    BY <1>37, <2>1 DEF RecoverRecord
  <2>3. CASE status[job[o]] = "review_required"
    BY <1>37, <2>1, <2>2, <2>3 DEF RecoverRecord
  <2>4. CASE status[job[o]] # "review_required"
    <3>1. /\ status' = [status EXCEPT ![job[o]] = "review_required"]
          /\ result' = [result EXCEPT ![job[o]] = TRUE]
          /\ verified' = [verified EXCEPT ![job[o]] = TRUE]
      BY <1>37, <2>4 DEF RecoverRecord
    <3> QED  BY <1>37, <2>1, <2>2, <3>1 DEF RecoverRecord
  <2> QED  BY <2>3, <2>4
<1>38. ASSUME NEW o \in Operators, RecoverRefused(o)
      PROVE  (PublishInv /\ VisibleReport /\ DeliveredIsListed)'
  BY <1>38 DEF RecoverRefused
<1>39. ASSUME NEW o \in Operators, NEW j \in Jobs, OpenRecovery(o, j)
      PROVE  (PublishInv /\ VisibleReport /\ DeliveredIsListed)'
  BY <1>39 DEF OpenRecovery
<1>40. ASSUME NEW p \in Controllers, Promote(p)
      PROVE  (PublishInv /\ VisibleReport /\ DeliveredIsListed)'
  BY <1>40 DEF Promote
<1>41. ASSUME NEW p \in Controllers, AlreadyListed(p)
      PROVE  (PublishInv /\ VisibleReport /\ DeliveredIsListed)'
  BY <1>41 DEF AlreadyListed
<1>42. ASSUME NEW p \in Controllers, Replace(p)
      PROVE  (PublishInv /\ VisibleReport /\ DeliveredIsListed)'
  <2>1. /\ job[p] \in Jobs /\ Evidence(job[p]) /\ job[p] \in promoted
        /\ spawns[job[p]] = 1
    BY <1>42 DEF Replace
  <2>2. \A v \in Controllers : v # p => pc'[v] = "down"
    BY <1>42 DEF Replace
  <2>3. PublishInv' /\ DeliveredIsListed'
    BY <1>42, <2>1, <2>2 DEF Replace
  <2>4. job[p] \notin Restored => verified[job[p]]
    BY <2>1
  <2>5. status[job[p]] \in {"running", "outcome_unknown", "delivery_failed", "review_required"}
    BY <1>42 DEF Replace
  <2>6. VisibleReport'
    BY <1>42, <2>1, <2>4, <2>5 DEF Replace
  <2> QED  BY <2>3, <2>6
<1>43. ASSUME NEW p \in Controllers, Crash(p)
      PROVE  (PublishInv /\ VisibleReport /\ DeliveredIsListed)'
  BY <1>43 DEF Crash
<1>44. CASE UNCHANGED vars
  BY <1>44 DEF vars
<1>45. ASSUME NEW j \in Jobs, ChildArm(j)
      PROVE  (PublishInv /\ VisibleReport /\ DeliveredIsListed)'
  BY <1>45 DEF ChildArm
<1>46. ASSUME NEW j \in Jobs, ChildAlarm(j)
      PROVE  (PublishInv /\ VisibleReport /\ DeliveredIsListed)'
  BY <1>10, <1>46 DEF ChildAlarm, ChildFail
<1> QED
  BY <1>1, <1>2, <1>3, <1>4, <1>5, <1>6, <1>7, <1>8, <1>9, <1>10, <1>11, <1>12, <1>13, <1>14,
      <1>15, <1>16, <1>17, <1>18, <1>19, <1>20, <1>21, <1>22, <1>23, <1>24, <1>25, <1>26, <1>27,
      <1>28, <1>29, <1>30, <1>31, <1>32, <1>33, <1>34, <1>35, <1>36, <1>37, <1>38, <1>39, <1>40,
      <1>41, <1>42, <1>43, <1>44, <1>45, <1>46, ZenonT(60)
  DEF Next, Outside, ChildStep, WorkerStep, OperatorStep, Publish, Controllers

\* Every step keeps the locks exclusive, an orphaned child's included.
LEMMA LockPreserved ==
  TypeOK /\ LockInv /\ OrphanExcluded /\ StatusInv /\ [Next]_vars
    => (LockInv /\ OrphanExcluded)'
<1> SUFFICES ASSUME TypeOK, LockInv, OrphanExcluded, StatusInv, [Next]_vars
             PROVE  (LockInv /\ OrphanExcluded)'
  OBVIOUS
<1> USE BoundsAssumption, ProcessAssumption DEF Jobs, Controllers, Restored, PrepPcs, SupervPcs, PublishPcs, ResultPcs, AttemptPcs, WorkerPcs,
       RecoverPcs, OperatorPcs, GatePcs,
       TypeOK, Statuses, Terminal, Events, Receipts, LockInv,
       Goto, Leave, End, Save, ledger, files, procs, world,
       OrphanExcluded, ChildAlive, MutatorFree, LeaseFree, StatusInv
<1>1. CASE Submit
  BY <1>1 DEF Submit
<1>2. CASE CliEnter
  BY <1>2 DEF CliEnter
<1>3. CASE CliRegister
  BY <1>3 DEF CliRegister
<1>4. CASE CliExit
  BY <1>4 DEF CliExit
<1>5. ASSUME NEW j \in Jobs, ReleaseRestored(j)
      PROVE  (LockInv /\ OrphanExcluded)'
  BY <1>5 DEF ReleaseRestored
<1>6. ASSUME NEW j \in Jobs, SourceChange(j)
      PROVE  (LockInv /\ OrphanExcluded)'
  BY <1>6 DEF SourceChange
<1>7. ASSUME NEW j \in Jobs, ChildStage(j)
      PROVE  (LockInv /\ OrphanExcluded)'
  BY <1>7 DEF ChildStage
<1>8. ASSUME NEW j \in Jobs, ChildComplete(j)
      PROVE  (LockInv /\ OrphanExcluded)'
  BY <1>8 DEF ChildComplete
<1>9. ASSUME NEW j \in Jobs, ChildExit(j)
      PROVE  (LockInv /\ OrphanExcluded)'
  BY <1>9 DEF ChildExit
<1>10. ASSUME NEW j \in Jobs, ChildFail(j)
      PROVE  (LockInv /\ OrphanExcluded)'
  BY <1>10 DEF ChildFail
<1>11. ASSUME NEW w \in Workers, WorkerStart(w)
      PROVE  (LockInv /\ OrphanExcluded)'
  BY <1>11 DEF WorkerStart
<1>12. ASSUME NEW w \in Workers, InterruptRunning(w)
      PROVE  (LockInv /\ OrphanExcluded)'
  BY <1>12 DEF InterruptRunning
<1>13. ASSUME NEW w \in Workers, StartRefused(w)
      PROVE  (LockInv /\ OrphanExcluded)'
  BY <1>13 DEF StartRefused
<1>14. ASSUME NEW w \in Workers, Claim(w)
      PROVE  (LockInv /\ OrphanExcluded)'
  BY <1>14 DEF Claim
<1>15. ASSUME NEW w \in Workers, RefuseReused(w)
      PROVE  (LockInv /\ OrphanExcluded)'
  BY <1>15 DEF RefuseReused
<1>16. ASSUME NEW w \in Workers, SourceRefused(w)
      PROVE  (LockInv /\ OrphanExcluded)'
  BY <1>16 DEF SourceRefused
<1>17. ASSUME NEW w \in Workers, StartCopy(w)
      PROVE  (LockInv /\ OrphanExcluded)'
  BY <1>17 DEF StartCopy
<1>18. ASSUME NEW w \in Workers, FinishCopy(w)
      PROVE  (LockInv /\ OrphanExcluded)'
  BY <1>18 DEF FinishCopy
<1>19. ASSUME NEW w \in Workers, MarkVerified(w)
      PROVE  (LockInv /\ OrphanExcluded)'
  BY <1>19 DEF MarkVerified
<1>20. ASSUME NEW w \in Workers, OpAdmit(w)
      PROVE  (LockInv /\ OrphanExcluded)'
  BY <1>20 DEF OpAdmit
<1>21. ASSUME NEW w \in Workers, OpSpawn(w)
      PROVE  (LockInv /\ OrphanExcluded)'
  BY <1>21 DEF OpSpawn
<1>22. ASSUME NEW w \in Workers, OpRunning(w)
      PROVE  (LockInv /\ OrphanExcluded)'
  BY <1>22 DEF OpRunning
<1>23. ASSUME NEW w \in Workers, OpReaped(w)
      PROVE  (LockInv /\ OrphanExcluded)'
  BY <1>23 DEF OpReaped
<1>24. ASSUME NEW w \in Workers, OpKill(w)
      PROVE  (LockInv /\ OrphanExcluded)'
  BY <1>24 DEF OpKill
<1>25. ASSUME NEW w \in Workers, OpReceipt(w)
      PROVE  (LockInv /\ OrphanExcluded)'
  BY <1>25 DEF OpReceipt
<1>26. ASSUME NEW w \in Workers, RecordOpFailure(w)
      PROVE  (LockInv /\ OrphanExcluded)'
  BY <1>26 DEF RecordOpFailure
<1>27. ASSUME NEW w \in Workers, Verify(w)
      PROVE  (LockInv /\ OrphanExcluded)'
  BY <1>27 DEF Verify
<1>28. ASSUME NEW w \in Workers, RecordPrepared(w)
      PROVE  (LockInv /\ OrphanExcluded)'
  BY <1>28 DEF RecordPrepared
<1>29. ASSUME NEW w \in Workers, Register(w)
      PROVE  (LockInv /\ OrphanExcluded)'
  BY <1>29 DEF Register
<1>30. ASSUME NEW w \in Workers, PreparationError(w)
      PROVE  (LockInv /\ OrphanExcluded)'
  BY <1>30 DEF PreparationError
<1>31. ASSUME NEW w \in Workers, SupervisionError(w)
      PROVE  (LockInv /\ OrphanExcluded)'
  BY <1>31 DEF SupervisionError
<1>32. ASSUME NEW w \in Workers, DeliveryError(w)
      PROVE  (LockInv /\ OrphanExcluded)'
  BY <1>32 DEF DeliveryError
<1>33. ASSUME NEW w \in Workers, Interrupt(w)
      PROVE  (LockInv /\ OrphanExcluded)'
  BY <1>33 DEF Interrupt
<1>34. ASSUME NEW w \in Workers, NEW why \in {"outcome_unknown", "cancelled"}, OpAbandon(w, why)
      PROVE  (LockInv /\ OrphanExcluded)'
  BY <1>34 DEF OpAbandon
<1>35. ASSUME NEW o \in Operators, RecoverBegin(o)
      PROVE  (LockInv /\ OrphanExcluded)'
  BY <1>35 DEF RecoverBegin
<1>36. ASSUME NEW o \in Operators, RecoverVerify(o)
      PROVE  (LockInv /\ OrphanExcluded)'
  BY <1>36 DEF RecoverVerify
<1>37. ASSUME NEW o \in Operators, RecoverRecord(o)
      PROVE  (LockInv /\ OrphanExcluded)'
  <2>0. /\ o \in Controllers /\ pc[o] = "cataloged"
        /\ pc' = [pc EXCEPT ![o] = "down"]
    BY <1>37 DEF RecoverRecord
  <2>1. /\ ~ChildAlive
        /\ \A p \in Controllers : pc'[p] = "down"
    <3>1. \A p \in Controllers : p # o => pc[p] = "down"
      BY <2>0
    <3>2. \A p \in Controllers : pc'[p] = "down"
      BY <2>0, <3>1
    <3>3. ~ChildAlive
      BY <2>0
    <3> QED  BY <3>2, <3>3
  <2>2. UNCHANGED <<child, cli>>
    BY <1>37 DEF RecoverRecord
  <2>3. ~ChildAlive'
    BY <2>1, <2>2 DEF ChildAlive
  <2>4. LockInv'
    BY ONLY <2>1, <2>3 DEF LockInv, Controllers, GatePcs, AttemptPcs, RecoverPcs, PrepPcs,
         SupervPcs, ResultPcs, PublishPcs, WorkerPcs, OperatorPcs
  <2>5. OrphanExcluded'
    BY ONLY <2>3 DEF OrphanExcluded, ChildAlive
  <2> QED  BY <2>4, <2>5
<1>38. ASSUME NEW o \in Operators, RecoverRefused(o)
      PROVE  (LockInv /\ OrphanExcluded)'
  BY <1>38 DEF RecoverRefused
<1>39. ASSUME NEW o \in Operators, NEW j \in Jobs, OpenRecovery(o, j)
      PROVE  (LockInv /\ OrphanExcluded)'
  BY <1>39 DEF OpenRecovery
<1>40. ASSUME NEW p \in Controllers, Promote(p)
      PROVE  (LockInv /\ OrphanExcluded)'
  BY <1>40 DEF Promote
<1>41. ASSUME NEW p \in Controllers, AlreadyListed(p)
      PROVE  (LockInv /\ OrphanExcluded)'
  BY <1>41 DEF AlreadyListed
<1>42. ASSUME NEW p \in Controllers, Replace(p)
      PROVE  (LockInv /\ OrphanExcluded)'
  BY <1>42 DEF Replace
<1>43. ASSUME NEW p \in Controllers, Crash(p)
      PROVE  (LockInv /\ OrphanExcluded)'
  BY <1>43 DEF Crash
<1>44. CASE UNCHANGED vars
  BY <1>44 DEF vars
<1>45. ASSUME NEW j \in Jobs, ChildArm(j)
      PROVE  (LockInv /\ OrphanExcluded)'
  BY <1>45 DEF ChildArm
<1>46. ASSUME NEW j \in Jobs, ChildAlarm(j)
      PROVE  (LockInv /\ OrphanExcluded)'
  BY <1>10, <1>46 DEF ChildAlarm, ChildFail
<1> QED
  BY <1>1, <1>2, <1>3, <1>4, <1>5, <1>6, <1>7, <1>8, <1>9, <1>10, <1>11, <1>12, <1>13, <1>14,
      <1>15, <1>16, <1>17, <1>18, <1>19, <1>20, <1>21, <1>22, <1>23, <1>24, <1>25, <1>26, <1>27,
      <1>28, <1>29, <1>30, <1>31, <1>32, <1>33, <1>34, <1>35, <1>36, <1>37, <1>38, <1>39, <1>40,
      <1>41, <1>42, <1>43, <1>44, <1>45, <1>46, ZenonT(60)
  DEF Next, Outside, ChildStep, WorkerStep, OperatorStep, Publish, Controllers

LEMMA IInvPreserved == IInv /\ [Next]_vars => IInv'
  BY TypePreserved, LockPreserved, StatusPreserved, DispatchPreserved, SupervisorPreserved,
     PublishPreserved DEF IInv

\* The invariant holds in every reachable state.
THEOREM IInvariant == Spec => []IInv
  BY InitIInv, IInvPreserved, PTL DEF Spec

\* Every variable keeps its type, for any number of jobs and processes.
THEOREM TypeCorrect == Spec => []TypeOK
<1>1. IInv => TypeOK
  BY DEF IInv
<1> QED  BY <1>1, IInvariant, PTL

\* worker.py:1: no crash, restart, recovery or put-back ledger makes any
\* worker start a process for the same job a second time.
THEOREM NeverDispatchedTwice == Spec => []AtMostOneDispatch
<1>1. IInv => AtMostOneDispatch
  BY DEF IInv
<1> QED  BY <1>1, IInvariant, PTL

\* The descriptors passed to the child (operation.py:159-162) exclude every
\* other worker and command for as long as it lives.
THEOREM OrphansAreExcluded == Spec => []OrphanExcluded
<1>1. IInv => OrphanExcluded
  BY DEF IInv
<1> QED  BY <1>1, IInvariant, PTL

\* The ledger never shows two attempts in progress.
THEOREM AttemptsSerialize == Spec => []AtMostOneRunning
<1>1. IInv => AtMostOneRunning
  BY DEF IInv
<1> QED  BY <1>1, IInvariant, PTL

\* A restored request starts only after its release (recovery.py:138-153).
THEOREM HeldStaysUnstarted == Spec => []HeldNotStarted
<1>1. IInv => HeldNotStarted
  BY DEF IInv
<1> QED  BY <1>1, IInvariant, PTL

\* What readers see in the catalogue is complete and accounted for.
THEOREM VisibleIsProven == Spec => []VisibleReport
<1>1. IInv => VisibleReport
  BY DEF IInv
<1> QED  BY <1>1, IInvariant, PTL

\* A delivered job's link leads to its complete run.
THEOREM DeliveredLinks == Spec => []DeliveredIsListed
<1>1. IInv => DeliveredIsListed
  BY DEF IInv
<1> QED  BY <1>1, IInvariant, PTL

\* A held delivery keeps what recover-job verifies.
THEOREM HeldDeliveryRecovers == Spec => []DeliveryRecoverable
<1>1. IInv => DeliveryRecoverable
  BY DEF IInv
<1> QED  BY <1>1, IInvariant, PTL

\* How the phase an operator sees follows the status.
LEMMA PhaseBecomes ==
  ASSUME TypeOK, NEW j \in Jobs, NEW s \in Statuses, status' = [status EXCEPT ![j] = s]
  PROVE  Promise!Become(j, PhaseOf(s))
  BY DEF Promise!Become, phase, TypeOK

LEMMA PhaseStays ==
  ASSUME status' = status, catalog' = catalog
  PROVE  [Promise!PromiseNext]_<<phase, catalog>>
  BY DEF phase

\* Every way out of an attempt is a Hold, a Close or a Deliver of the promise.
LEMMA AttemptConcludes ==
  ASSUME IInv, NEW w \in Workers, pc[w] \in AttemptPcs, catalog' = catalog,
         NEW s \in Terminal, status' = [status EXCEPT ![job[w]] = s],
         s = "review_required" => job[w] \in catalog,
         s \in {"failed", "source_changed"} => pc[w] # "cataloged"
  PROVE  [Promise!PromiseNext]_<<phase, catalog>>
<1> DEFINE j == job[w]
<1> USE DEF IInv
<1>1. j \in Jobs /\ status[j] = "running"
  BY DEF LockInv, StatusInv, GatePcs, Controllers
<1>2. phase[j] = "attempting"
  BY <1>1 DEF phase, PhaseOf
<1>3. Promise!Become(j, PhaseOf(s))
  BY <1>1, PhaseBecomes DEF Terminal
<1>4. CASE s \in {"outcome_unknown", "delivery_failed"}
  BY <1>1, <1>2, <1>3, <1>4 DEF Promise!PromiseNext, Promise!Hold, PhaseOf
<1>5. CASE s \in {"failed", "source_changed"}
  <2>1. j \in catalog => j \in Restored
    BY <1>5 DEF PublishInv
  <2>2. Promise!Close(j)
    BY <1>2, <1>3, <1>5, <2>1 DEF Promise!Close, PhaseOf
  <2> QED  BY <1>1, <2>2 DEF Promise!PromiseNext
<1>6. CASE s = "review_required"
  <2>1. Promise!Deliver(j)
    BY <1>2, <1>3, <1>6 DEF Promise!Deliver, PhaseOf
  <2> QED  BY <1>1, <2>1 DEF Promise!PromiseNext
<1> QED  BY <1>4, <1>5, <1>6 DEF Terminal, Statuses

\* Every step of the system is a step of the promise, or none.
LEMMA PromiseStep ==
  IInv /\ [Next]_vars => [Promise!PromiseNext]_<<phase, catalog>>
<1> SUFFICES ASSUME IInv, [Next]_vars
             PROVE  [Promise!PromiseNext]_<<phase, catalog>>
  OBVIOUS
<1> USE BoundsAssumption, ProcessAssumption DEF IInv, Statuses, Terminal
<1>1. CASE Submit
  <2>1. count + 1 \in Jobs /\ phase[count + 1] = "none"
    <3>1. count < MaxRetained /\ count \in Nat
      BY <1>1 DEF Submit, TypeOK
    <3>2. count + 1 \in Jobs
      BY <3>1 DEF Jobs
    <3>3. status[count + 1] = "absent"
      BY <3>1, <3>2 DEF StatusInv
    <3> QED  BY <3>2, <3>3 DEF phase, PhaseOf
  <2>2. Promise!Become(count + 1, PhaseOf("queued")) /\ UNCHANGED catalog
    BY <1>1, <2>1, PhaseBecomes DEF Submit, Save, files
  <2>3. Promise!Admit(count + 1)
    BY <2>1, <2>2 DEF Promise!Admit, PhaseOf
  <2> QED  BY <2>1, <2>3 DEF Promise!PromiseNext
<1>2. CASE CliEnter
  BY <1>2, PhaseStays DEF CliEnter, ledger, files
<1>3. CASE CliRegister
  BY <1>3, PhaseStays DEF CliRegister, ledger, files
<1>4. CASE CliExit
  BY <1>4, PhaseStays DEF CliExit, ledger, files
<1>5. ASSUME NEW j \in Jobs, ReleaseRestored(j)
      PROVE  [Promise!PromiseNext]_<<phase, catalog>>
  BY <1>5, PhaseStays DEF ReleaseRestored, ledger, files
<1>6. ASSUME NEW j \in Jobs, SourceChange(j)
      PROVE  [Promise!PromiseNext]_<<phase, catalog>>
  BY <1>6, PhaseStays DEF SourceChange, ledger, files
<1>7. ASSUME NEW j \in Jobs, ChildStage(j)
      PROVE  [Promise!PromiseNext]_<<phase, catalog>>
  BY <1>7, PhaseStays DEF ChildStage, ledger, files
<1>8. ASSUME NEW j \in Jobs, ChildComplete(j)
      PROVE  [Promise!PromiseNext]_<<phase, catalog>>
  BY <1>8, PhaseStays DEF ChildComplete, ledger, files
<1>9. ASSUME NEW j \in Jobs, ChildExit(j)
      PROVE  [Promise!PromiseNext]_<<phase, catalog>>
  BY <1>9, PhaseStays DEF ChildExit, ledger, files
<1>10. ASSUME NEW j \in Jobs, ChildFail(j)
      PROVE  [Promise!PromiseNext]_<<phase, catalog>>
  BY <1>10, PhaseStays DEF ChildFail, ledger, files
<1>11. ASSUME NEW w \in Workers, WorkerStart(w)
      PROVE  [Promise!PromiseNext]_<<phase, catalog>>
  BY <1>11, PhaseStays DEF WorkerStart, ledger, files
<1>12. ASSUME NEW w \in Workers, InterruptRunning(w)
      PROVE  [Promise!PromiseNext]_<<phase, catalog>>
  <2>1. CASE \E j \in Jobs : status[j] = "running"
    <3>1. PICK j \in Jobs : status[j] = "running"
      BY <2>1
    <3>2. status' = [status EXCEPT ![j] = "outcome_unknown"]
      BY <1>12, <3>1 DEF InterruptRunning, AtMostOneRunning, TypeOK
    <3>3. Promise!Become(j, PhaseOf("outcome_unknown")) /\ UNCHANGED catalog
      BY <1>12, <3>2, PhaseBecomes DEF InterruptRunning, files
    <3>4. Promise!Hold(j)
      BY <3>1, <3>3 DEF Promise!Hold, PhaseOf, phase
    <3> QED  BY <3>4 DEF Promise!PromiseNext
  <2>2. CASE \A j \in Jobs : status[j] # "running"
    <3>1. status' = status
      BY <1>12, <2>2 DEF InterruptRunning, TypeOK
    <3> QED  BY <1>12, <3>1, PhaseStays DEF InterruptRunning, files
  <2> QED  BY <2>1, <2>2
<1>13. ASSUME NEW w \in Workers, StartRefused(w)
      PROVE  [Promise!PromiseNext]_<<phase, catalog>>
  BY <1>13, PhaseStays DEF StartRefused, ledger, files
<1>14. ASSUME NEW w \in Workers, Claim(w)
      PROVE  [Promise!PromiseNext]_<<phase, catalog>>
  <2>1. PICK j \in Jobs : NextQueued(j) /\ status' = [status EXCEPT ![j] = "running"]
    BY <1>14 DEF Claim, Save
  <2>2. phase[j] = "waiting" /\ \A i \in Jobs : phase[i] # "attempting"
    BY <1>14, <2>1 DEF Claim, NextQueued, StatusInv, phase, PhaseOf
  <2>3. Promise!Become(j, PhaseOf("running")) /\ UNCHANGED catalog
    BY <1>14, <2>1, PhaseBecomes DEF Claim, files
  <2>4. Promise!Attempt(j)
    BY <2>2, <2>3 DEF Promise!Attempt, PhaseOf
  <2> QED  BY <2>4 DEF Promise!PromiseNext
<1>15. ASSUME NEW w \in Workers, RefuseReused(w)
      PROVE  [Promise!PromiseNext]_<<phase, catalog>>
  <2>1. /\ pc[w] \in AttemptPcs /\ catalog' = catalog
        /\ status' = [status EXCEPT ![job[w]] = "outcome_unknown"]
    BY <1>15
    DEF RefuseReused, End, Save, files, AttemptPcs, PrepPcs, SupervPcs, ResultPcs, PublishPcs,
              PublishInv, Controllers
  <2> QED  BY <2>1, AttemptConcludes
<1>16. ASSUME NEW w \in Workers, SourceRefused(w)
      PROVE  [Promise!PromiseNext]_<<phase, catalog>>
  <2>1. /\ pc[w] \in AttemptPcs /\ catalog' = catalog
        /\ status' = [status EXCEPT ![job[w]] = "source_changed"]
        /\ pc[w] # "cataloged"
    BY <1>16
    DEF SourceRefused, End, Save, files, AttemptPcs, PrepPcs, SupervPcs, ResultPcs, PublishPcs,
              PublishInv, Controllers
  <2> QED  BY <2>1, AttemptConcludes
<1>17. ASSUME NEW w \in Workers, StartCopy(w)
      PROVE  [Promise!PromiseNext]_<<phase, catalog>>
  BY <1>17, PhaseStays DEF StartCopy, ledger, files
<1>18. ASSUME NEW w \in Workers, FinishCopy(w)
      PROVE  [Promise!PromiseNext]_<<phase, catalog>>
  BY <1>18, PhaseStays DEF FinishCopy, ledger, files
<1>19. ASSUME NEW w \in Workers, MarkVerified(w)
      PROVE  [Promise!PromiseNext]_<<phase, catalog>>
  <2>1. status' = status
    BY <1>19 DEF MarkVerified, Save, StatusInv, TypeOK, AttemptPcs, PrepPcs
  <2> QED  BY <1>19, <2>1, PhaseStays DEF MarkVerified, files
<1>20. ASSUME NEW w \in Workers, OpAdmit(w)
      PROVE  [Promise!PromiseNext]_<<phase, catalog>>
  BY <1>20, PhaseStays DEF OpAdmit, ledger, files
<1>21. ASSUME NEW w \in Workers, OpSpawn(w)
      PROVE  [Promise!PromiseNext]_<<phase, catalog>>
  BY <1>21, PhaseStays DEF OpSpawn, ledger, files
<1>22. ASSUME NEW w \in Workers, OpRunning(w)
      PROVE  [Promise!PromiseNext]_<<phase, catalog>>
  BY <1>22, PhaseStays DEF OpRunning, ledger, files
<1>23. ASSUME NEW w \in Workers, OpReaped(w)
      PROVE  [Promise!PromiseNext]_<<phase, catalog>>
  BY <1>23, PhaseStays DEF OpReaped, ledger, files
<1>24. ASSUME NEW w \in Workers, OpKill(w)
      PROVE  [Promise!PromiseNext]_<<phase, catalog>>
  BY <1>24, PhaseStays DEF OpKill, ledger, files
<1>25. ASSUME NEW w \in Workers, OpReceipt(w)
      PROVE  [Promise!PromiseNext]_<<phase, catalog>>
  BY <1>25, PhaseStays DEF OpReceipt, ledger, files
<1>26. ASSUME NEW w \in Workers, RecordOpFailure(w)
      PROVE  [Promise!PromiseNext]_<<phase, catalog>>
  <2>1. PICK s \in {"failed", "outcome_unknown"} : status' = [status EXCEPT ![job[w]] = s]
    BY <1>26 DEF RecordOpFailure, Save
  <2>2. pc[w] = "finished" /\ catalog' = catalog
    BY <1>26 DEF RecordOpFailure, files
  <2> QED  BY <2>1, <2>2, AttemptConcludes DEF AttemptPcs
<1>27. ASSUME NEW w \in Workers, Verify(w)
      PROVE  [Promise!PromiseNext]_<<phase, catalog>>
  BY <1>27, PhaseStays DEF Verify, ledger, files
<1>28. ASSUME NEW w \in Workers, RecordPrepared(w)
      PROVE  [Promise!PromiseNext]_<<phase, catalog>>
  <2>1. status' = status
    BY <1>28 DEF RecordPrepared, Save, StatusInv, TypeOK, AttemptPcs, ResultPcs
  <2> QED  BY <1>28, <2>1, PhaseStays DEF RecordPrepared, files
<1>29. ASSUME NEW w \in Workers, Register(w)
      PROVE  [Promise!PromiseNext]_<<phase, catalog>>
  <2>1. /\ pc[w] \in AttemptPcs /\ catalog' = catalog
        /\ status' = [status EXCEPT ![job[w]] = "review_required"]
        /\ job[w] \in catalog
    BY <1>29
    DEF Register, End, Save, files, AttemptPcs, PrepPcs, SupervPcs, ResultPcs, PublishPcs,
              PublishInv, Controllers
  <2> QED  BY <2>1, AttemptConcludes
<1>30. ASSUME NEW w \in Workers, PreparationError(w)
      PROVE  [Promise!PromiseNext]_<<phase, catalog>>
  <2>1. /\ pc[w] \in AttemptPcs /\ catalog' = catalog
        /\ status' = [status EXCEPT ![job[w]] = "failed"]
        /\ pc[w] # "cataloged"
    BY <1>30
    DEF PreparationError, End, Save, files, AttemptPcs, PrepPcs, SupervPcs, ResultPcs,
        PublishPcs,
              PublishInv, Controllers
  <2> QED  BY <2>1, AttemptConcludes
<1>31. ASSUME NEW w \in Workers, SupervisionError(w)
      PROVE  [Promise!PromiseNext]_<<phase, catalog>>
  <2>1. /\ pc[w] \in AttemptPcs /\ catalog' = catalog
        /\ status' = [status EXCEPT ![job[w]] = "outcome_unknown"]
    BY <1>31
    DEF SupervisionError, End, Save, files, AttemptPcs, PrepPcs, SupervPcs, ResultPcs,
        PublishPcs,
              PublishInv, Controllers
  <2> QED  BY <2>1, AttemptConcludes
<1>32. ASSUME NEW w \in Workers, DeliveryError(w)
      PROVE  [Promise!PromiseNext]_<<phase, catalog>>
  <2>1. /\ pc[w] \in AttemptPcs /\ catalog' = catalog
        /\ status' = [status EXCEPT ![job[w]] = "delivery_failed"]
    BY <1>32
    DEF DeliveryError, End, Save, files, AttemptPcs, PrepPcs, SupervPcs, ResultPcs, PublishPcs,
              PublishInv, Controllers
  <2> QED  BY <2>1, AttemptConcludes
<1>33. ASSUME NEW w \in Workers, Interrupt(w)
      PROVE  [Promise!PromiseNext]_<<phase, catalog>>
  <2>1. catalog' = catalog
    BY <1>33 DEF Interrupt, files
  <2>2. CASE pc[w] \in AttemptPcs
    <3>1. status' = [status EXCEPT ![job[w]] = "outcome_unknown"]
      BY <1>33, <2>2 DEF Interrupt, Save
    <3> QED  BY <2>1, <2>2, <3>1, AttemptConcludes
  <2>3. CASE pc[w] \notin AttemptPcs
    BY <1>33, <2>1, <2>3, PhaseStays DEF Interrupt
  <2> QED  BY <2>2, <2>3
<1>34. ASSUME NEW w \in Workers, NEW why \in {"outcome_unknown", "cancelled"}, OpAbandon(w, why)
      PROVE  [Promise!PromiseNext]_<<phase, catalog>>
  BY <1>34, PhaseStays DEF OpAbandon, ledger, files
<1>35. ASSUME NEW o \in Operators, RecoverBegin(o)
      PROVE  [Promise!PromiseNext]_<<phase, catalog>>
  <2>1. job[o] \in Jobs /\ catalog' = catalog
    BY <1>35 DEF RecoverBegin, LockInv, GatePcs, Controllers, files
  <2>2. CASE status[job[o]] = "running"
    <3>1. status' = [status EXCEPT ![job[o]] = "outcome_unknown"]
      BY <1>35, <2>2 DEF RecoverBegin, Save
    <3>2. Promise!Become(job[o], PhaseOf("outcome_unknown"))
      BY <2>1, <3>1, PhaseBecomes
    <3>3. Promise!Hold(job[o])
      BY <2>1, <2>2, <3>2 DEF Promise!Hold, PhaseOf, phase
    <3> QED  BY <2>1, <3>3 DEF Promise!PromiseNext
  <2>3. CASE status[job[o]] # "running"
    BY <1>35, <2>1, <2>3, PhaseStays DEF RecoverBegin
  <2> QED  BY <2>2, <2>3
<1>36. ASSUME NEW o \in Operators, RecoverVerify(o)
      PROVE  [Promise!PromiseNext]_<<phase, catalog>>
  BY <1>36, PhaseStays DEF RecoverVerify, ledger, files
<1>37. ASSUME NEW o \in Operators, RecoverRecord(o)
      PROVE  [Promise!PromiseNext]_<<phase, catalog>>
  <2>1. /\ job[o] \in Jobs /\ job[o] \in catalog /\ catalog' = catalog
        /\ status[job[o]] \in {"outcome_unknown", "delivery_failed", "review_required"}
    BY <1>37 DEF RecoverRecord, LockInv, StatusInv, PublishInv, GatePcs, RecoverPcs, PublishPcs,
              Controllers, files
  <2>2. CASE status[job[o]] = "review_required"
    BY <1>37, <2>1, <2>2, PhaseStays DEF RecoverRecord
  <2>3. CASE status[job[o]] # "review_required"
    <3>1. status' = [status EXCEPT ![job[o]] = "review_required"]
      BY <1>37, <2>3 DEF RecoverRecord, Save
    <3>2. Promise!Become(job[o], PhaseOf("review_required"))
      BY <2>1, <3>1, PhaseBecomes
    <3>3. Promise!Deliver(job[o])
      BY <2>1, <2>3, <3>2 DEF Promise!Deliver, PhaseOf, phase
    <3> QED  BY <2>1, <3>3 DEF Promise!PromiseNext
  <2> QED  BY <2>2, <2>3
<1>38. ASSUME NEW o \in Operators, RecoverRefused(o)
      PROVE  [Promise!PromiseNext]_<<phase, catalog>>
  BY <1>38, PhaseStays DEF RecoverRefused, ledger, files
<1>39. ASSUME NEW o \in Operators, NEW j \in Jobs, OpenRecovery(o, j)
      PROVE  [Promise!PromiseNext]_<<phase, catalog>>
  BY <1>39, PhaseStays DEF OpenRecovery, ledger, files
<1>40. ASSUME NEW p \in Controllers, Promote(p)
      PROVE  [Promise!PromiseNext]_<<phase, catalog>>
  BY <1>40, PhaseStays DEF Promote, ledger, files
<1>41. ASSUME NEW p \in Controllers, AlreadyListed(p)
      PROVE  [Promise!PromiseNext]_<<phase, catalog>>
  BY <1>41, PhaseStays DEF AlreadyListed, ledger, files
<1>42. ASSUME NEW p \in Controllers, Replace(p)
      PROVE  [Promise!PromiseNext]_<<phase, catalog>>
  <2>1. /\ job[p] \in Jobs /\ catalog' = catalog \cup {job[p]} /\ status' = status
        /\ status[job[p]] \in {"running", "outcome_unknown", "delivery_failed", "review_required"}
    BY <1>42 DEF Replace, LockInv, StatusInv, GatePcs, AttemptPcs, ResultPcs, PublishPcs,
              Controllers, ledger
  <2>2. CASE status[job[p]] = "review_required"
    <3>1. catalog' = catalog
      BY <2>1, <2>2 DEF DeliveredIsListed
    <3> QED  BY <2>1, <3>1, PhaseStays
  <2>3. CASE status[job[p]] # "review_required"
    <3>1. Promise!Publish(job[p])
      BY <2>1, <2>3 DEF Promise!Publish, PhaseOf, phase
    <3> QED  BY <2>1, <3>1 DEF Promise!PromiseNext
  <2> QED  BY <2>2, <2>3
<1>43. ASSUME NEW p \in Controllers, Crash(p)
      PROVE  [Promise!PromiseNext]_<<phase, catalog>>
  BY <1>43, PhaseStays DEF Crash, ledger, files
<1>44. CASE UNCHANGED vars
  BY <1>44, PhaseStays DEF vars, ledger, files
<1>45. ASSUME NEW j \in Jobs, ChildArm(j)
      PROVE  [Promise!PromiseNext]_<<phase, catalog>>
  BY <1>45, PhaseStays DEF ChildArm, ledger, files
<1>46. ASSUME NEW j \in Jobs, ChildAlarm(j)
      PROVE  [Promise!PromiseNext]_<<phase, catalog>>
  BY <1>10, <1>46 DEF ChildAlarm, ChildFail
<1> QED
  BY <1>1, <1>2, <1>3, <1>4, <1>5, <1>6, <1>7, <1>8, <1>9, <1>10, <1>11, <1>12, <1>13, <1>14,
      <1>15, <1>16, <1>17, <1>18, <1>19, <1>20, <1>21, <1>22, <1>23, <1>24, <1>25, <1>26, <1>27,
      <1>28, <1>29, <1>30, <1>31, <1>32, <1>33, <1>34, <1>35, <1>36, <1>37, <1>38, <1>39, <1>40,
      <1>41, <1>42, <1>43, <1>44, <1>45, <1>46, ZenonT(60)
  DEF Next, Outside, ChildStep, WorkerStep, OperatorStep, Publish, Controllers

LEMMA PromiseStart == Init => Promise!PromiseInit
<1> SUFFICES ASSUME Init PROVE Promise!PromiseInit
  OBVIOUS
<1>1. phase = [j \in Jobs |-> IF j \in Restored THEN "waiting" ELSE "none"]
  BY DEF Init, phase, PhaseOf
<1>2. catalog \in SUBSET Restored
  <2>1. PICK t \in [Jobs -> Traces] :
          /\ \A j \in Jobs : j \notin Restored \/ j \in Dataset => t[j] = NoTrace
          /\ catalog = {j \in Jobs : t[j].listed}
    BY DEF Init
  <2> QED  BY <2>1 DEF NoTrace
<1> QED  BY <1>1, <1>2 DEF Promise!PromiseInit

\* Every behaviour of the detailed system is one of the abstract promise.
THEOREM PromiseIsKept == Spec => KeepsPromise
<1>1. Init => Promise!PromiseInit
  BY PromiseStart
<1>2. IInv /\ [Next]_vars => [Promise!PromiseNext]_<<phase, catalog>>
  BY PromiseStep
<1> QED  BY <1>1, <1>2, IInvariant, PTL DEF Spec, KeepsPromise, Promise!PromiseSpec

\* What the promise comes to for the clients of a workspace, of this system or
\* of any other that keeps it.
Held ==
  /\ phase \in [Jobs -> Promise!Phases]
  /\ Promise!PromiseKept

LEMMA HeldInit == Promise!PromiseInit => Held
  BY DEF Promise!PromiseInit, Held, Promise!PromiseKept, Promise!Phases

\* Every step keeps what is delivered visible and what is given up unseen.
LEMMA HeldNext == Held /\ [Promise!PromiseNext]_<<phase, catalog>> => Held'
<1> SUFFICES ASSUME Held, [Promise!PromiseNext]_<<phase, catalog>> PROVE Held'
  OBVIOUS
<1> USE DEF Held, Promise!PromiseKept, Promise!Phases, Promise!Become
<1>1. ASSUME NEW j \in Jobs, Promise!Admit(j) PROVE Held'
  BY <1>1 DEF Promise!Admit
<1>2. ASSUME NEW j \in Jobs, Promise!Attempt(j) PROVE Held'
  BY <1>2 DEF Promise!Attempt
<1>3. ASSUME NEW j \in Jobs, Promise!Publish(j) PROVE Held'
  BY <1>3 DEF Promise!Publish
<1>4. ASSUME NEW j \in Jobs, Promise!Deliver(j) PROVE Held'
  BY <1>4 DEF Promise!Deliver
<1>5. ASSUME NEW j \in Jobs, Promise!Hold(j) PROVE Held'
  BY <1>5 DEF Promise!Hold
<1>6. ASSUME NEW j \in Jobs, Promise!Close(j) PROVE Held'
  BY <1>6 DEF Promise!Close
<1>7. CASE UNCHANGED <<phase, catalog>>
  BY <1>7
<1> QED  BY <1>1, <1>2, <1>3, <1>4, <1>5, <1>6, <1>7 DEF Promise!PromiseNext

\* A delivered job has a visible run and a job that was given up shows none:
\* what a client of public_job may conclude from a status alone
\* (jobs.py:81-87), for every system that keeps the promise.
THEOREM PromiseSafety == Promise!PromiseSpec => []Promise!PromiseKept
<1>1. Held => Promise!PromiseKept
  BY DEF Held
<1> QED  BY HeldInit, HeldNext, <1>1, PTL DEF Promise!PromiseSpec

\* So a client of this system may: of every job but the restored ones.
THEOREM ClientsMayConclude == Spec => []Promise!PromiseKept
BY PromiseIsKept, PromiseSafety, PTL DEF KeepsPromise

-----------------------------------------------------------------------------
(* The rows of the ledger and the room in the catalogue, on top of IInv.   *)

\* The table of _execution: the events a record in each status may end with.
EventsOf(s) ==
  CASE s = "queued"  -> {"admitted"}
    [] s = "running" -> {"claimed", "inputs_verified", "prepared"}
    [] s = "review_required" -> {"registered", "recovered"}
    [] s = "outcome_unknown" -> {"interrupted"}
    [] OTHER -> {s}

\* A row that is not yet there holds nothing; every other can be read.
RecordInv ==
  \A j \in Jobs : /\ status[j] = "absent" => ~verified[j] /\ ~result[j]
                  /\ status[j] # "absent" => EventAgrees(j) /\ PhaseAgrees(j)

\* Between the count and the new list, nobody else lists a run.
RoomInv ==
  /\ Listed <= MaxRuns
  /\ \A p \in Controllers : pc[p] = "promoted" => Listed < MaxRuns

\* A record saved with an event of its status, and a phase that allows it.
LEMMA RowSaved ==
  ASSUME TypeOK, RecordInv, NEW j \in Jobs,
         NEW s \in Statuses \ {"absent", "queued"}, NEW e \in EventsOf(s), Save(j, s, e),
         verified' \in {verified, [verified EXCEPT ![j] = TRUE]},
         result' \in {result, [result EXCEPT ![j] = TRUE]},
         s \in {"review_required", "delivery_failed"} => result'[j],
         result'[j] => verified'[j]
  PROVE  RecordInv'
<1>1. status'[j] = s /\ event'[j] = e
  BY DEF Save, TypeOK
<1>2. ASSUME NEW i \in Jobs, i # j
      PROVE  /\ status'[i] = status[i] /\ event'[i] = event[i]
             /\ verified'[i] = verified[i] /\ result'[i] = result[i]
  BY <1>2 DEF Save, TypeOK
<1>3. EventAgrees(j)' /\ PhaseAgrees(j)'
  BY <1>1 DEF EventAgrees, PhaseAgrees, EventsOf
<1>4. ASSUME NEW i \in Jobs, i # j
      PROVE  /\ status'[i] = "absent" => ~verified'[i] /\ ~result'[i]
             /\ (status[i] # "absent" => EventAgrees(i) /\ PhaseAgrees(i))'
  BY <1>2, <1>4 DEF RecordInv, EventAgrees, PhaseAgrees
<1> QED
  BY <1>1, <1>3, <1>4 DEF RecordInv

\* Every step leaves every row readable.
LEMMA RecordPreserved ==
  ASSUME IInv, RecordInv, [Next]_vars
  PROVE  RecordInv'
<1>a. TypeOK /\ RecordInv /\ IInv
  BY DEF IInv
<1>b. \A w \in Workers : w \in Controllers /\ (pc[w] \in AttemptPcs => job[w] \in Jobs)
  BY DEF IInv, LockInv, Controllers, GatePcs
<1>c. \A j \in Jobs : /\ result[j] => verified[j]
                      /\ status[j] # "absent" => PhaseAgrees(j)
  BY DEF RecordInv, PhaseAgrees
<1>d. UNCHANGED <<status, event, verified, result>> => RecordInv'
  BY DEF RecordInv, EventAgrees, PhaseAgrees
<1>1. CASE Submit
  <2>1. count + 1 \in Jobs /\ status[count + 1] = "absent"
    BY <1>1, <1>a, BoundsAssumption DEF Submit, IInv, TypeOK, StatusInv, Jobs
  <2>2. /\ status' = [status EXCEPT ![count + 1] = "queued"] /\ verified' = verified
        /\ event' = [event EXCEPT ![count + 1] = "admitted"] /\ result' = result
    BY <1>1 DEF Submit, Save
  <2>3. ~verified[count + 1] /\ ~result[count + 1]
    BY <2>1, <1>a DEF RecordInv
  <2>4. ASSUME NEW i \in Jobs
        PROVE  /\ status'[i] = "absent" => ~verified'[i] /\ ~result'[i]
               /\ (status[i] # "absent" => EventAgrees(i) /\ PhaseAgrees(i))'
    <3>1. CASE i = count + 1
      BY <2>1, <2>2, <2>3, <3>1, <1>a DEF TypeOK, EventAgrees, PhaseAgrees
    <3>2. CASE i # count + 1
      BY <2>2, <3>2, <1>a DEF TypeOK, RecordInv, EventAgrees, PhaseAgrees
    <3> QED
      BY <3>1, <3>2
  <2> QED
    BY <2>4 DEF RecordInv
<1>2. CASE CliEnter
  BY <1>2, <1>d DEF CliEnter, ledger, vars
<1>3. CASE CliRegister
  BY <1>3, <1>d DEF CliRegister, ledger, vars
<1>4. CASE CliExit
  BY <1>4, <1>d DEF CliExit, ledger, vars
<1>5. ASSUME NEW j \in Jobs, ReleaseRestored(j)
      PROVE  RecordInv'
  BY <1>5, <1>d DEF ReleaseRestored, ledger, vars
<1>6. ASSUME NEW j \in Jobs, SourceChange(j)
      PROVE  RecordInv'
  BY <1>6, <1>d DEF SourceChange, ledger, vars
<1>7. ASSUME NEW j \in Jobs, ChildStage(j)
      PROVE  RecordInv'
  BY <1>7, <1>d DEF ChildStage, ledger, vars
<1>8. ASSUME NEW j \in Jobs, ChildComplete(j)
      PROVE  RecordInv'
  BY <1>8, <1>d DEF ChildComplete, ledger, vars
<1>9. ASSUME NEW j \in Jobs, ChildExit(j)
      PROVE  RecordInv'
  BY <1>9, <1>d DEF ChildExit, ledger, vars
<1>10. ASSUME NEW j \in Jobs, ChildFail(j)
      PROVE  RecordInv'
  BY <1>10, <1>d DEF ChildFail, ledger, vars
<1>11. ASSUME NEW w \in Workers, WorkerStart(w)
      PROVE  RecordInv'
  BY <1>11, <1>d DEF WorkerStart, ledger, vars
<1>12. ASSUME NEW w \in Workers, InterruptRunning(w)
      PROVE  RecordInv'
  <2>1. verified' = verified /\ result' = result
    BY <1>12 DEF InterruptRunning
  <2>2. ASSUME NEW i \in Jobs
        PROVE  /\ status'[i] = IF status[i] = "running" THEN "outcome_unknown" ELSE status[i]
               /\ event'[i] = IF status[i] = "running" THEN "interrupted" ELSE event[i]
    BY <1>12 DEF InterruptRunning
  <2>3. ASSUME NEW i \in Jobs
        PROVE  /\ status'[i] = "absent" => ~verified'[i] /\ ~result'[i]
               /\ (status[i] # "absent" => EventAgrees(i) /\ PhaseAgrees(i))'
    BY <2>1, <2>2, <1>a DEF RecordInv, EventAgrees, PhaseAgrees
  <2> QED
    BY <2>3 DEF RecordInv
<1>13. ASSUME NEW w \in Workers, StartRefused(w)
      PROVE  RecordInv'
  BY <1>13, <1>d DEF StartRefused, ledger, vars
<1>14. ASSUME NEW w \in Workers, Claim(w)
      PROVE  RecordInv'
  <2>1. PICK j \in Jobs : NextQueued(j) /\ Save(j, "running", "claimed")
    BY <1>14 DEF Claim
  <2>2. verified' = verified /\ result' = result
    BY <1>14 DEF Claim
  <2> QED
    BY <2>1, <2>2, <1>c, RowSaved, <1>a DEF EventsOf, Statuses
<1>15. ASSUME NEW w \in Workers, RefuseReused(w)
      PROVE  RecordInv'
  <2>1. w \in Controllers /\ job[w] \in Jobs
    BY <1>15, <1>b DEF RefuseReused, AttemptPcs, PrepPcs, SupervPcs, ResultPcs, PublishPcs
  <2>2. Save(job[w], "outcome_unknown", "interrupted") /\ verified' = verified /\ result' = result
    BY <1>15 DEF RefuseReused, End
  <2>3. result[job[w]] => verified[job[w]]
    BY <2>1, <1>c
  <2> QED
    BY <2>1, <2>2, <2>3, RowSaved, <1>a DEF EventsOf, Statuses
<1>16. ASSUME NEW w \in Workers, SourceRefused(w)
      PROVE  RecordInv'
  <2>1. w \in Controllers /\ job[w] \in Jobs
    BY <1>16, <1>b DEF SourceRefused, AttemptPcs, PrepPcs, SupervPcs, ResultPcs, PublishPcs
  <2>2. Save(job[w], "source_changed", "source_changed") /\ verified' = verified /\ result' = result
    BY <1>16 DEF SourceRefused, End
  <2>3. result[job[w]] => verified[job[w]]
    BY <2>1, <1>c
  <2> QED
    BY <2>1, <2>2, <2>3, RowSaved, <1>a DEF EventsOf, Statuses
<1>17. ASSUME NEW w \in Workers, StartCopy(w)
      PROVE  RecordInv'
  BY <1>17, <1>d DEF StartCopy, ledger, vars
<1>18. ASSUME NEW w \in Workers, FinishCopy(w)
      PROVE  RecordInv'
  BY <1>18, <1>d DEF FinishCopy, ledger, vars
<1>19. ASSUME NEW w \in Workers, MarkVerified(w)
      PROVE  RecordInv'
  <2>1. w \in Controllers /\ job[w] \in Jobs
    BY <1>19, <1>b DEF MarkVerified, AttemptPcs, PrepPcs, SupervPcs, ResultPcs, PublishPcs
  <2>2. Save(job[w], "running", "inputs_verified") /\ result' = result
        /\ verified' = [verified EXCEPT ![job[w]] = TRUE]
    BY <1>19 DEF MarkVerified
  <2>3. verified'[job[w]]
    BY <2>1, <2>2, <1>a DEF TypeOK
  <2> QED
    BY <2>1, <2>2, <2>3, RowSaved, <1>a DEF EventsOf, Statuses
<1>20. ASSUME NEW w \in Workers, OpAdmit(w)
      PROVE  RecordInv'
  BY <1>20, <1>d DEF OpAdmit, ledger, vars
<1>21. ASSUME NEW w \in Workers, OpSpawn(w)
      PROVE  RecordInv'
  BY <1>21, <1>d DEF OpSpawn, ledger, vars
<1>22. ASSUME NEW w \in Workers, OpRunning(w)
      PROVE  RecordInv'
  BY <1>22, <1>d DEF OpRunning, ledger, vars
<1>23. ASSUME NEW w \in Workers, OpReaped(w)
      PROVE  RecordInv'
  BY <1>23, <1>d DEF OpReaped, ledger, vars
<1>24. ASSUME NEW w \in Workers, OpKill(w)
      PROVE  RecordInv'
  BY <1>24, <1>d DEF OpKill, ledger, vars
<1>25. ASSUME NEW w \in Workers, OpReceipt(w)
      PROVE  RecordInv'
  BY <1>25, <1>d DEF OpReceipt, ledger, vars
<1>26. ASSUME NEW w \in Workers, RecordOpFailure(w)
      PROVE  RecordInv'
  <2>1. w \in Controllers /\ job[w] \in Jobs
    BY <1>26, <1>b DEF RecordOpFailure, AttemptPcs, PrepPcs, SupervPcs, ResultPcs, PublishPcs
  <2>2. verified' = verified /\ result' = result /\ (result[job[w]] => verified[job[w]])
    BY <1>26, <2>1, <1>c DEF RecordOpFailure
  <2>3. CASE Save(job[w], "failed", "failed")
    BY <2>1, <2>2, <2>3, RowSaved, <1>a DEF EventsOf, Statuses
  <2>4. CASE Save(job[w], "outcome_unknown", "interrupted")
    BY <2>1, <2>2, <2>4, RowSaved, <1>a DEF EventsOf, Statuses
  <2> QED
    BY <1>26, <2>3, <2>4 DEF RecordOpFailure
<1>27. ASSUME NEW w \in Workers, Verify(w)
      PROVE  RecordInv'
  BY <1>27, <1>d DEF Verify, ledger, vars
<1>28. ASSUME NEW w \in Workers, RecordPrepared(w)
      PROVE  RecordInv'
  <2>1. w \in Controllers /\ job[w] \in Jobs
    BY <1>28, <1>b DEF RecordPrepared, AttemptPcs, PrepPcs, SupervPcs, ResultPcs, PublishPcs
  <2>2. Save(job[w], "running", "prepared") /\ verified' = verified
        /\ result' = [result EXCEPT ![job[w]] = TRUE]
    BY <1>28 DEF RecordPrepared, End
  <2>3. verified[job[w]]
    BY <1>28, <2>1, <1>a
    DEF RecordPrepared, IInv, SupervisorInv, AttemptPcs, PrepPcs, SupervPcs, ResultPcs,
        PublishPcs
  <2>4. result'[job[w]]
    BY <2>1, <2>2, <1>a DEF TypeOK
  <2> QED
    BY <2>1, <2>2, <2>3, <2>4, RowSaved, <1>a DEF EventsOf, Statuses
<1>29. ASSUME NEW w \in Workers, Register(w)
      PROVE  RecordInv'
  <2>1. w \in Controllers /\ job[w] \in Jobs
    BY <1>29, <1>b DEF Register, AttemptPcs, PrepPcs, SupervPcs, ResultPcs, PublishPcs
  <2>2. Save(job[w], "review_required", "registered") /\ verified' = verified /\ result' = result
    BY <1>29 DEF Register, End
  <2>4. result[job[w]]
    BY <1>29, <1>a DEF Register, IInv, PublishInv, PublishPcs
  <2>3. result[job[w]] => verified[job[w]]
    BY <2>1, <1>c
  <2> QED
    BY <2>1, <2>2, <2>3, RowSaved, <2>4, <1>a DEF EventsOf, Statuses
<1>30. ASSUME NEW w \in Workers, PreparationError(w)
      PROVE  RecordInv'
  <2>1. w \in Controllers /\ job[w] \in Jobs
    BY <1>30, <1>b DEF PreparationError, AttemptPcs, PrepPcs, SupervPcs, ResultPcs, PublishPcs
  <2>2. Save(job[w], "failed", "failed") /\ verified' = verified /\ result' = result
    BY <1>30 DEF PreparationError, End
  <2>3. result[job[w]] => verified[job[w]]
    BY <2>1, <1>c
  <2> QED
    BY <2>1, <2>2, <2>3, RowSaved, <1>a DEF EventsOf, Statuses
<1>31. ASSUME NEW w \in Workers, SupervisionError(w)
      PROVE  RecordInv'
  <2>1. w \in Controllers /\ job[w] \in Jobs
    BY <1>31, <1>b DEF SupervisionError, AttemptPcs, PrepPcs, SupervPcs, ResultPcs, PublishPcs
  <2>2. Save(job[w], "outcome_unknown", "interrupted") /\ verified' = verified /\ result' = result
    BY <1>31 DEF SupervisionError, End
  <2>3. result[job[w]] => verified[job[w]]
    BY <2>1, <1>c
  <2> QED
    BY <2>1, <2>2, <2>3, RowSaved, <1>a DEF EventsOf, Statuses
<1>32. ASSUME NEW w \in Workers, DeliveryError(w)
      PROVE  RecordInv'
  <2>1. w \in Controllers /\ job[w] \in Jobs
    BY <1>32, <1>b DEF DeliveryError, AttemptPcs, PrepPcs, SupervPcs, ResultPcs, PublishPcs
  <2>2. Save(job[w], "delivery_failed", "delivery_failed") /\ verified' = verified
        /\ result' = [result EXCEPT ![job[w]] = TRUE]
    BY <1>32 DEF DeliveryError, End
  <2>3. verified[job[w]]
    BY <1>32, <2>1, <1>a
    DEF DeliveryError, IInv, SupervisorInv, AttemptPcs, PrepPcs, SupervPcs, ResultPcs,
        PublishPcs
  <2>4. result'[job[w]]
    BY <2>1, <2>2, <1>a DEF TypeOK
  <2> QED
    BY <2>1, <2>2, <2>3, <2>4, RowSaved, <1>a DEF EventsOf, Statuses
<1>33. ASSUME NEW w \in Workers, Interrupt(w)
      PROVE  RecordInv'
  <2>1. verified' = verified /\ result' = result
    BY <1>33 DEF Interrupt
  <2>2. CASE pc[w] \in AttemptPcs
    <3>1. w \in Controllers /\ job[w] \in Jobs
      BY <2>2, <1>b
    <3>2. Save(job[w], "outcome_unknown", "interrupted")
      BY <1>33, <2>2 DEF Interrupt
    <3>3. result[job[w]] => verified[job[w]]
      BY <3>1, <1>c
    <3> QED
      BY <2>1, <3>1, <3>2, <3>3, RowSaved, <1>a DEF EventsOf, Statuses
  <2>3. CASE pc[w] \notin AttemptPcs
    BY <1>33, <2>1, <2>3, <1>d DEF Interrupt
  <2> QED
    BY <2>2, <2>3
<1>34. ASSUME NEW w \in Workers, NEW why \in {"outcome_unknown", "cancelled"}, OpAbandon(w, why)
      PROVE  RecordInv'
  BY <1>34, <1>d DEF OpAbandon, ledger, vars
<1>35. ASSUME NEW o \in Operators, RecoverBegin(o)
      PROVE  RecordInv'
  <2>1. verified' = verified /\ result' = result /\ job[o] \in Jobs
    BY <1>35, <1>a, ProcessAssumption DEF RecoverBegin, IInv, LockInv, Controllers
  <2>2. CASE Save(job[o], "outcome_unknown", "interrupted")
    BY <2>1, <2>2, <1>c, RowSaved, <1>a DEF EventsOf, Statuses
  <2>3. CASE UNCHANGED <<status, event>>
    BY <2>1, <2>3, <1>d
  <2> QED
    BY <1>35, <2>2, <2>3 DEF RecoverBegin
<1>36. ASSUME NEW o \in Operators, RecoverVerify(o)
      PROVE  RecordInv'
  BY <1>36, <1>d DEF RecoverVerify, ledger, vars
<1>37. ASSUME NEW o \in Operators, RecoverRecord(o)
      PROVE  RecordInv'
  <2>1. job[o] \in Jobs
    BY <1>37, <1>a
    DEF RecoverRecord, IInv, LockInv, Controllers, GatePcs, RecoverPcs, PublishPcs
  <2>2. CASE UNCHANGED <<status, event, verified, result>>
    BY <2>2, <1>d
  <2>3. CASE /\ Save(job[o], "review_required", "recovered")
             /\ result' = [result EXCEPT ![job[o]] = TRUE]
             /\ verified' = [verified EXCEPT ![job[o]] = TRUE]
    <3>1. result'[job[o]] /\ verified'[job[o]]
      BY <2>1, <2>3, <1>a DEF TypeOK
    <3> QED
      BY <2>1, <2>3, <3>1, RowSaved, <1>a DEF EventsOf, Statuses
  <2> QED
    BY <1>37, <2>2, <2>3 DEF RecoverRecord
<1>38. ASSUME NEW o \in Operators, RecoverRefused(o)
      PROVE  RecordInv'
  BY <1>38, <1>d DEF RecoverRefused, ledger, vars
<1>39. ASSUME NEW o \in Operators, NEW j \in Jobs, OpenRecovery(o, j)
      PROVE  RecordInv'
  BY <1>39, <1>d DEF OpenRecovery, ledger, vars
<1>40. ASSUME NEW p \in Controllers, Promote(p)
      PROVE  RecordInv'
  BY <1>40, <1>d DEF Promote, ledger, vars
<1>41. ASSUME NEW p \in Controllers, AlreadyListed(p)
      PROVE  RecordInv'
  BY <1>41, <1>d DEF AlreadyListed, ledger, vars
<1>42. ASSUME NEW p \in Controllers, Replace(p)
      PROVE  RecordInv'
  BY <1>42, <1>d DEF Replace, ledger, vars
<1>43. ASSUME NEW p \in Controllers, Crash(p)
      PROVE  RecordInv'
  BY <1>43, <1>d DEF Crash, ledger, vars
<1>44. CASE UNCHANGED vars
  BY <1>44, <1>d DEF vars, ledger, vars
<1>45. ASSUME NEW j \in Jobs, ChildArm(j)
      PROVE  RecordInv'
  BY <1>45, <1>d DEF ChildArm, ledger, vars
<1>46. ASSUME NEW j \in Jobs, ChildAlarm(j)
      PROVE  RecordInv'
  BY <1>10, <1>46 DEF ChildAlarm, ChildFail
<1> QED
  BY <1>1, <1>2, <1>3, <1>4, <1>5, <1>6, <1>7, <1>8, <1>9, <1>10, <1>11, <1>12, <1>13, <1>14,
      <1>15, <1>16, <1>17, <1>18, <1>19, <1>20, <1>21, <1>22, <1>23, <1>24, <1>25, <1>26, <1>27,
      <1>28, <1>29, <1>30, <1>31, <1>32, <1>33, <1>34, <1>35, <1>36, <1>37, <1>38, <1>39, <1>40,
      <1>41, <1>42, <1>43, <1>44, <1>45, <1>46, ZenonT(60)
  DEF Next, Outside, ChildStep, WorkerStep, OperatorStep, Publish, Controllers

\* One run more in the catalogue counts at most once.
LEMMA ListedGrows ==
  ASSUME TypeOK, NEW j \in Jobs, catalog' = catalog \cup {j}, foreign' = foreign
  PROVE  Listed' <= Listed + 1 /\ Listed \in Nat
<1>1. IsFiniteSet(Jobs)
  BY BoundsAssumption, FS_Interval DEF Jobs
<1>2. IsFiniteSet(catalog)
  BY <1>1, FS_Subset DEF TypeOK
<1>3. Cardinality(catalog) \in Nat
  BY <1>2, FS_CardinalityType
<1>4. Cardinality(catalog \cup {j}) <= Cardinality(catalog) + 1
  BY <1>2, <1>3, FS_AddElement
<1>5. Cardinality(catalog \cup {j}) \in Nat
  BY <1>2, FS_AddElement, FS_CardinalityType
<1> QED
  BY <1>3, <1>4, <1>5 DEF Listed, TypeOK

\* Every step keeps the catalogue loadable.
LEMMA RoomPreserved ==
  ASSUME IInv, RoomInv, [Next]_vars
  PROVE  RoomInv'
<1>a. TypeOK /\ LockInv /\ RoomInv
  BY DEF IInv
<1>b. catalog' = catalog /\ foreign' = foreign => Listed' = Listed
  BY DEF Listed
<1>1. CASE Submit
  BY <1>1, <1>a, <1>b DEF Submit, RoomInv, TypeOK, Goto, Leave, End, ledger, files, procs, vars
<1>2. CASE CliEnter
  BY <1>2, <1>a, <1>b
  DEF CliEnter, RoomInv, TypeOK, Goto, Leave, End, ledger, files, procs, vars
<1>3. CASE CliRegister
  <2>1. Listed < MaxRuns /\ foreign' = foreign + 1 /\ catalog' = catalog /\ pc' = pc /\ cli
    BY <1>3 DEF CliRegister, CatalogRoom, procs
  <2>2. Listed' = Listed + 1 /\ Listed \in Int
    <3>1. IsFiniteSet(Jobs)
      BY BoundsAssumption, FS_Interval DEF Jobs
    <3>2. Cardinality(catalog) \in Nat
      BY <3>1, FS_Subset, FS_CardinalityType, <1>a DEF TypeOK
    <3> QED
      BY <2>1, <3>2, <1>a DEF Listed, TypeOK
  <2>3. \A p \in Controllers : pc[p] # "promoted"
    BY <2>1, <1>a DEF LockInv, GatePcs, RecoverPcs, PublishPcs
  <2> QED
    BY <2>1, <2>2, <2>3, BoundsAssumption DEF RoomInv
<1>4. CASE CliExit
  BY <1>4, <1>a, <1>b DEF CliExit, RoomInv, TypeOK, Goto, Leave, End, ledger, files, procs, vars
<1>5. ASSUME NEW j \in Jobs, ReleaseRestored(j)
      PROVE  RoomInv'
  BY <1>5, <1>a, <1>b
  DEF ReleaseRestored, RoomInv, TypeOK, Goto, Leave, End, ledger, files, procs, vars
<1>6. ASSUME NEW j \in Jobs, SourceChange(j)
      PROVE  RoomInv'
  BY <1>6, <1>a, <1>b
  DEF SourceChange, RoomInv, TypeOK, Goto, Leave, End, ledger, files, procs, vars
<1>7. ASSUME NEW j \in Jobs, ChildStage(j)
      PROVE  RoomInv'
  BY <1>7, <1>a, <1>b
  DEF ChildStage, RoomInv, TypeOK, Goto, Leave, End, ledger, files, procs, vars
<1>8. ASSUME NEW j \in Jobs, ChildComplete(j)
      PROVE  RoomInv'
  BY <1>8, <1>a, <1>b
  DEF ChildComplete, RoomInv, TypeOK, Goto, Leave, End, ledger, files, procs, vars
<1>9. ASSUME NEW j \in Jobs, ChildExit(j)
      PROVE  RoomInv'
  BY <1>9, <1>a, <1>b
  DEF ChildExit, RoomInv, TypeOK, Goto, Leave, End, ledger, files, procs, vars
<1>10. ASSUME NEW j \in Jobs, ChildFail(j)
      PROVE  RoomInv'
  BY <1>10, <1>a, <1>b
  DEF ChildFail, RoomInv, TypeOK, Goto, Leave, End, ledger, files, procs, vars
<1>11. ASSUME NEW w \in Workers, WorkerStart(w)
      PROVE  RoomInv'
  BY <1>11, <1>a, <1>b
  DEF WorkerStart, RoomInv, TypeOK, Goto, Leave, End, ledger, files, procs, vars
<1>12. ASSUME NEW w \in Workers, InterruptRunning(w)
      PROVE  RoomInv'
  BY <1>12, <1>a, <1>b
  DEF InterruptRunning, RoomInv, TypeOK, Goto, Leave, End, ledger, files, procs, vars
<1>13. ASSUME NEW w \in Workers, StartRefused(w)
      PROVE  RoomInv'
  BY <1>13, <1>a, <1>b
  DEF StartRefused, RoomInv, TypeOK, Goto, Leave, End, ledger, files, procs, vars
<1>14. ASSUME NEW w \in Workers, Claim(w)
      PROVE  RoomInv'
  BY <1>14, <1>a, <1>b DEF Claim, RoomInv, TypeOK, Goto, Leave, End, ledger, files, procs, vars
<1>15. ASSUME NEW w \in Workers, RefuseReused(w)
      PROVE  RoomInv'
  BY <1>15, <1>a, <1>b
  DEF RefuseReused, RoomInv, TypeOK, Goto, Leave, End, ledger, files, procs, vars
<1>16. ASSUME NEW w \in Workers, SourceRefused(w)
      PROVE  RoomInv'
  BY <1>16, <1>a, <1>b
  DEF SourceRefused, RoomInv, TypeOK, Goto, Leave, End, ledger, files, procs, vars
<1>17. ASSUME NEW w \in Workers, StartCopy(w)
      PROVE  RoomInv'
  BY <1>17, <1>a, <1>b
  DEF StartCopy, RoomInv, TypeOK, Goto, Leave, End, ledger, files, procs, vars
<1>18. ASSUME NEW w \in Workers, FinishCopy(w)
      PROVE  RoomInv'
  BY <1>18, <1>a, <1>b
  DEF FinishCopy, RoomInv, TypeOK, Goto, Leave, End, ledger, files, procs, vars
<1>19. ASSUME NEW w \in Workers, MarkVerified(w)
      PROVE  RoomInv'
  BY <1>19, <1>a, <1>b
  DEF MarkVerified, RoomInv, TypeOK, Goto, Leave, End, ledger, files, procs, vars
<1>20. ASSUME NEW w \in Workers, OpAdmit(w)
      PROVE  RoomInv'
  BY <1>20, <1>a, <1>b
  DEF OpAdmit, RoomInv, TypeOK, Goto, Leave, End, ledger, files, procs, vars
<1>21. ASSUME NEW w \in Workers, OpSpawn(w)
      PROVE  RoomInv'
  BY <1>21, <1>a, <1>b
  DEF OpSpawn, RoomInv, TypeOK, Goto, Leave, End, ledger, files, procs, vars
<1>22. ASSUME NEW w \in Workers, OpRunning(w)
      PROVE  RoomInv'
  BY <1>22, <1>a, <1>b
  DEF OpRunning, RoomInv, TypeOK, Goto, Leave, End, ledger, files, procs, vars
<1>23. ASSUME NEW w \in Workers, OpReaped(w)
      PROVE  RoomInv'
  BY <1>23, <1>a, <1>b
  DEF OpReaped, RoomInv, TypeOK, Goto, Leave, End, ledger, files, procs, vars
<1>24. ASSUME NEW w \in Workers, OpKill(w)
      PROVE  RoomInv'
  BY <1>24, <1>a, <1>b DEF OpKill, RoomInv, TypeOK, Goto, Leave, End, ledger, files, procs, vars
<1>25. ASSUME NEW w \in Workers, OpReceipt(w)
      PROVE  RoomInv'
  BY <1>25, <1>a, <1>b
  DEF OpReceipt, RoomInv, TypeOK, Goto, Leave, End, ledger, files, procs, vars
<1>26. ASSUME NEW w \in Workers, RecordOpFailure(w)
      PROVE  RoomInv'
  BY <1>26, <1>a, <1>b
  DEF RecordOpFailure, RoomInv, TypeOK, Goto, Leave, End, ledger, files, procs, vars
<1>27. ASSUME NEW w \in Workers, Verify(w)
      PROVE  RoomInv'
  BY <1>27, <1>a, <1>b DEF Verify, RoomInv, TypeOK, Goto, Leave, End, ledger, files, procs, vars
<1>28. ASSUME NEW w \in Workers, RecordPrepared(w)
      PROVE  RoomInv'
  BY <1>28, <1>a, <1>b
  DEF RecordPrepared, RoomInv, TypeOK, Goto, Leave, End, ledger, files, procs, vars
<1>29. ASSUME NEW w \in Workers, Register(w)
      PROVE  RoomInv'
  BY <1>29, <1>a, <1>b
  DEF Register, RoomInv, TypeOK, Goto, Leave, End, ledger, files, procs, vars
<1>30. ASSUME NEW w \in Workers, PreparationError(w)
      PROVE  RoomInv'
  BY <1>30, <1>a, <1>b
  DEF PreparationError, RoomInv, TypeOK, Goto, Leave, End, ledger, files, procs, vars
<1>31. ASSUME NEW w \in Workers, SupervisionError(w)
      PROVE  RoomInv'
  BY <1>31, <1>a, <1>b
  DEF SupervisionError, RoomInv, TypeOK, Goto, Leave, End, ledger, files, procs, vars
<1>32. ASSUME NEW w \in Workers, DeliveryError(w)
      PROVE  RoomInv'
  BY <1>32, <1>a, <1>b
  DEF DeliveryError, RoomInv, TypeOK, Goto, Leave, End, ledger, files, procs, vars
<1>33. ASSUME NEW w \in Workers, Interrupt(w)
      PROVE  RoomInv'
  BY <1>33, <1>a, <1>b
  DEF Interrupt, RoomInv, TypeOK, Goto, Leave, End, ledger, files, procs, vars
<1>34. ASSUME NEW w \in Workers, NEW why \in {"outcome_unknown", "cancelled"}, OpAbandon(w, why)
      PROVE  RoomInv'
  BY <1>34, <1>a, <1>b
  DEF OpAbandon, RoomInv, TypeOK, Goto, Leave, End, ledger, files, procs, vars
<1>35. ASSUME NEW o \in Operators, RecoverBegin(o)
      PROVE  RoomInv'
  BY <1>35, <1>a, <1>b
  DEF RecoverBegin, RoomInv, TypeOK, Goto, Leave, End, ledger, files, procs, vars
<1>36. ASSUME NEW o \in Operators, RecoverVerify(o)
      PROVE  RoomInv'
  BY <1>36, <1>a, <1>b
  DEF RecoverVerify, RoomInv, TypeOK, Goto, Leave, End, ledger, files, procs, vars
<1>37. ASSUME NEW o \in Operators, RecoverRecord(o)
      PROVE  RoomInv'
  BY <1>37, <1>a, <1>b
  DEF RecoverRecord, RoomInv, TypeOK, Goto, Leave, End, ledger, files, procs, vars
<1>38. ASSUME NEW o \in Operators, RecoverRefused(o)
      PROVE  RoomInv'
  BY <1>38, <1>a, <1>b
  DEF RecoverRefused, RoomInv, TypeOK, Goto, Leave, End, ledger, files, procs, vars
<1>39. ASSUME NEW o \in Operators, NEW j \in Jobs, OpenRecovery(o, j)
      PROVE  RoomInv'
  BY <1>39, <1>a, <1>b
  DEF OpenRecovery, RoomInv, TypeOK, Goto, Leave, End, ledger, files, procs, vars
<1>40. ASSUME NEW p \in Controllers, Promote(p)
      PROVE  RoomInv'
  <2>1. Listed < MaxRuns /\ Listed' = Listed
    BY <1>40, <1>b DEF Promote, PublishRoom
  <2> QED
    BY <2>1, <1>a DEF RoomInv
<1>41. ASSUME NEW p \in Controllers, AlreadyListed(p)
      PROVE  RoomInv'
  BY <1>41, <1>a, <1>b
  DEF AlreadyListed, RoomInv, TypeOK, Goto, Leave, End, ledger, files, procs, vars
<1>42. ASSUME NEW p \in Controllers, Replace(p)
      PROVE  RoomInv'
  <2>1. pc[p] = "promoted" /\ job[p] \in Jobs /\ p \in Controllers
    BY <1>42, <1>a DEF Replace, LockInv, GatePcs, RecoverPcs, PublishPcs
  <2>2. catalog' = catalog \cup {job[p]} /\ foreign' = foreign
    BY <1>42 DEF Replace
  <2>3. Listed' <= Listed + 1 /\ Listed \in Nat /\ Listed < MaxRuns
    BY <2>1, <2>2, ListedGrows, <1>a DEF RoomInv
  <2>4. \A q \in Controllers : pc'[q] # "promoted"
    BY <1>42, <2>1, <1>a DEF Replace, Goto, TypeOK, LockInv
  <2>5. Listed' \in Int
    <3>1. IsFiniteSet(Jobs)
      BY BoundsAssumption, FS_Interval DEF Jobs
    <3>2. Cardinality(catalog \cup {job[p]}) \in Nat
      BY <2>1, <3>1, FS_Subset, FS_CardinalityType, <1>a DEF TypeOK
    <3> QED
      BY <2>2, <3>2, <1>a DEF Listed, TypeOK
  <2> QED
    BY <2>3, <2>4, <2>5, BoundsAssumption DEF RoomInv
<1>43. ASSUME NEW p \in Controllers, Crash(p)
      PROVE  RoomInv'
  BY <1>43, <1>a, <1>b DEF Crash, RoomInv, TypeOK, Goto, Leave, End, ledger, files, procs, vars
<1>44. CASE UNCHANGED vars
  BY <1>44, <1>a, <1>b DEF vars, RoomInv, TypeOK, Goto, Leave, End, ledger, files, procs, vars
<1>45. ASSUME NEW j \in Jobs, ChildArm(j)
      PROVE  RoomInv'
  BY <1>45, <1>a, <1>b
  DEF ChildArm, RoomInv, TypeOK, Goto, Leave, End, ledger, files, procs, vars
<1>46. ASSUME NEW j \in Jobs, ChildAlarm(j)
      PROVE  RoomInv'
  BY <1>10, <1>46 DEF ChildAlarm, ChildFail
<1> QED
  BY <1>1, <1>2, <1>3, <1>4, <1>5, <1>6, <1>7, <1>8, <1>9, <1>10, <1>11, <1>12, <1>13, <1>14,
      <1>15, <1>16, <1>17, <1>18, <1>19, <1>20, <1>21, <1>22, <1>23, <1>24, <1>25, <1>26, <1>27,
      <1>28, <1>29, <1>30, <1>31, <1>32, <1>33, <1>34, <1>35, <1>36, <1>37, <1>38, <1>39, <1>40,
      <1>41, <1>42, <1>43, <1>44, <1>45, <1>46, ZenonT(60)
  DEF Next, Outside, ChildStep, WorkerStep, OperatorStep, Publish, Controllers

\* The first state, also over an older ledger.
LEMMA InitRecords == Init => RecordInv /\ RoomInv
<1> SUFFICES ASSUME Init PROVE RecordInv /\ RoomInv
  OBVIOUS
<1>1. RecordInv
  BY BoundsAssumption DEF Init, RecordInv, EventAgrees, PhaseAgrees, Restored
<1>2. RoomInv
  BY DEF Init, RoomInv
<1> QED
  BY <1>1, <1>2

\* Both hold in every reachable state.
THEOREM RecordsAndRoom == Spec => [](RecordInv /\ RoomInv)
<1>1. IInv /\ RecordInv /\ RoomInv /\ [Next]_vars => (RecordInv /\ RoomInv)'
  BY RecordPreserved, RoomPreserved
<1> QED
  BY <1>1, InitRecords, IInvariant, PTL DEF Spec

\* job_store.py:307-312: no sequence of attempts, failures and recoveries leaves
\* a row that the readers of the ledger refuse.
THEOREM RecordsStayReadable == Spec => []RecordReadable
<1>1. IInv /\ RecordInv => RecordReadable
  BY DEF IInv, HeldNotStarted, RecordInv, RecordReadable, Legible, HoldAgrees
<1> QED
  BY <1>1, IInvariant, RecordsAndRoom, PTL

\* job_delivery.py:108-114: whoever appends to the catalogue counts again, and
\* no other command gets between the count and the new list.
THEOREM CatalogStaysLoadable == Spec => []CatalogWithinBound
<1>1. RoomInv => CatalogWithinBound
  BY DEF RoomInv, CatalogWithinBound
<1> QED
  BY <1>1, RecordsAndRoom, PTL
=============================================================================
