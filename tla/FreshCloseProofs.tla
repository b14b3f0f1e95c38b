-------------------------- MODULE FreshCloseProofs -------------------------
(***************************************************************************)
(* Proofs about FreshClose for every number of close requests.  IInv is    *)
(* the inductive invariant: what the hand's step says of its job, where a  *)
(* child may still be alive, when an intent exists, and what stands behind *)
(* a proof, a listing and a journal.  The last part shows that the jobs    *)
(* implement CloseLine.                                                    *)
(***************************************************************************)
EXTENDS FreshClose, TLAPS

Early    == {"absent", "validated", "checked", "queued"}
Failures == {"failed", "outcome_unknown", "delivery_failed"}
Statuses == Early \cup {"running", "review_required", "source_changed"} \cup Failures
Children == Alive \cup {"none", "succeeded", "failed"}
Steps    == Working \cup {"down", "idle", "registered"} \cup Recovery

\* Types; the hand has a job unless it rests.
TypeOK ==
  /\ commits \in Seq(Jobs) /\ wal \in BOOLEAN /\ db \in BOOLEAN
  /\ pin \in [Jobs -> Int] /\ permitted \subseteq Jobs
  /\ status \in [Jobs -> Statuses]
  /\ intent \subseteq Jobs /\ proof \subseteq Jobs
  /\ resolution \in [Jobs -> {"none", "delivered", "no_commit"}]
  /\ folder \subseteq Jobs /\ stage \subseteq Jobs /\ listed \subseteq Jobs
  /\ child \in [Jobs -> Children]
  /\ step \in Steps /\ (step \notin {"down", "idle"} => on \in Jobs)

\* The record of the job in hand.
HandInv ==
  /\ step \in Working => status[on] = "running"
  /\ step \in {"registered", "rerecorded", "reopened"} => status[on] = "review_required"
  /\ step \in {"recovering", "recommitted", "restaged", "relisted"} => status[on] \in Failures

\* A child lives under its waiting worker or, after a crash, under nobody: its
\* job is running still, and once it has opened the accounts they stay as pinned.
ChildInv ==
  /\ \A j \in Jobs : child[j] \in Alive =>
       /\ step = "down" \/ (step = "waiting" /\ on = j)
       /\ status[j] = "running" /\ resolution[j] = "none"
  /\ \A j \in Jobs : child[j] = "open" => pin[j] = Generation
  /\ \A j \in Jobs : child[j] # "none" => j \in intent
  /\ step \in PrepSteps => child[on] = "none"
  /\ \A j \in Jobs : child[j] \in {"committed", "remembered"} => j \in Committed
  /\ \A j \in Committed : child[j] \notin {"none", "started", "open"}

\* The intent comes once, after every earlier one has been resolved, and before
\* all that the attempt leaves behind.
IntentInv ==
  /\ \A j \in intent : status[j] \notin Early
  /\ \A j \in Jobs \ intent : resolution[j] = "none" /\ status[j] # "review_required"
  /\ step \in {"claimed", "creating"} => on \notin intent
  /\ step \in Steps \ {"down", "idle", "claimed", "creating"} => on \in intent
  /\ step = "creating" => Unresolved(on) = {} /\ commits = <<>>
  /\ \A j \in Jobs : resolution[j] = "no_commit" =>
       status[j] \in {"failed", "outcome_unknown", "source_changed"}
  /\ folder \subseteq intent

\* What is behind each stage of a delivery.
DeliveryInv ==
  /\ proof \subseteq Committed
  /\ step \in {"proven", "prepared", "published", "registered",
               "recommitted", "restaged", "relisted", "rerecorded"} => on \in proof
  /\ step \in {"published", "registered", "relisted", "rerecorded"} => on \in listed

\* Where no journal can be left.
JournalInv ==
  /\ step = "creating" \/ intent # {} => db
  /\ step \in {"proven", "prepared", "published", "registered",
               "recommitted", "restaged", "relisted"} => ~wal
  /\ \A j \in Jobs : status[j] = "review_required" /\ resolution[j] = "none" => ~wal

IInv ==
  /\ TypeOK /\ HandInv /\ ChildInv /\ IntentInv /\ DeliveryInv /\ JournalInv
  /\ CommitsFollowPins /\ OneOpenIntent /\ ResolutionTruthful
  /\ ListedIsCommitted /\ JournalHasOwner

\* The committed versions are the elements of the sequence of commits.
LEMMA CommitsTyped ==
  ASSUME TypeOK
  PROVE  /\ Committed \subseteq Jobs /\ Generation \in Nat /\ DOMAIN commits = 1..Generation
         /\ \A n \in DOMAIN commits : commits[n] \in Committed
         /\ \A j \in Committed : \E n \in 1..Generation : commits[n] = j
         /\ Committed = {} => commits = <<>>
<1>1. /\ Generation \in Nat /\ DOMAIN commits = 1..Generation
      /\ \A n \in 1..Generation : commits[n] \in Jobs
  BY DEF TypeOK, Generation
<1>2. Generation = 0 => commits = <<>>
  BY DEF TypeOK, Generation
<1>3. Generation # 0 => commits[1] \in Committed
  BY <1>1 DEF Committed
<1> QED
  BY <1>1, <1>2, <1>3 DEF Committed

\* A commit adds one version behind all the others.
LEMMA CommitAppends ==
  ASSUME TypeOK, NEW j \in Jobs, commits' = Append(commits, j)
  PROVE  /\ Committed' = Committed \cup {j}
         /\ Generation' = Generation + 1
         /\ commits' # <<>>
         /\ \A n \in DOMAIN commits' : n = Generation + 1 \/ n \in DOMAIN commits
         /\ \A n \in DOMAIN commits' :
              commits'[n] = IF n = Generation + 1 THEN j ELSE commits[n]
<1>1. /\ Generation \in Nat /\ Generation' = Generation + 1
      /\ DOMAIN commits = 1..Generation /\ DOMAIN commits' = 1..(Generation + 1)
      /\ \A n \in 1..Generation : commits'[n] = commits[n]
      /\ commits'[Generation + 1] = j
  BY DEF TypeOK, Generation
<1>2. Committed' = Committed \cup {j}
  BY <1>1 DEF Committed
<1> QED
  BY <1>1, <1>2 DEF Generation

\* No step leaves the types, and every step that takes up a job has one.
LEMMA TypePreserved ==
  ASSUME TypeOK, HandInv, [Next]_vars
  PROVE  TypeOK'
<1> USE DEF Steps, Working, PrepSteps, ProofSteps, SendSteps, Recovery,
            Statuses, Early, Failures, Children, Alive,
            accounts, inputs, objects, output, hand
<1> USE DEF TypeOK, HandInv
<1>11. CASE Start
  BY <1>11 DEF Start, Done
<1>12. CASE PrepareRefused
  BY <1>12 DEF PrepareRefused, End, Become, Done
<1>13. CASE CreateAccounts
  BY <1>13 DEF CreateAccounts, Go
<1>14. CASE Begin
  BY <1>14 DEF Begin, Go
<1>15. CASE CopyInputs
  BY <1>15 DEF CopyInputs, Go
<1>16. CASE Dispatch
  BY <1>16 DEF Dispatch, Go, Child
<1>17. CASE Reap
  BY <1>17 DEF Reap, Go
<1>18. CASE ReapFailed
  BY <1>18 DEF ReapFailed, End, Become, Done
<1>19. CASE Abandon
  BY <1>19 DEF Abandon, Kill, Become, Done
<1>20. CASE Prove
  BY <1>20 DEF Prove, Go
<1>21. CASE RecordPrepared
  BY <1>21 DEF RecordPrepared, Go
<1>22. CASE SourceRefused
  BY <1>22 DEF SourceRefused, End, Become, Done
<1>23. CASE Publish
  BY <1>23 DEF Publish, Go
<1>24. CASE Register
  BY <1>24 DEF Register, Become, Go
<1>25. CASE Resolve
  BY <1>25 DEF Resolve, Done
<1>26. CASE Fails
  BY <1>26 DEF Fails, End, Become, Done
<1>27. CASE SendFails
  BY <1>27 DEF SendFails, End, Become, Done
<1>28. CASE Recommit
  <2>1. wal' \in BOOLEAN /\ proof' \subseteq Jobs
    BY <1>28 DEF Recommit
  <2>2. step' \in Steps /\ (step' \notin {"down", "idle"} => on' \in Jobs)
    BY <1>28 DEF Recommit, Go, Done
  <2> QED
    BY <1>28, <2>1, <2>2 DEF Recommit
<1>29. CASE Restage
  BY <1>29 DEF Restage, Go
<1>30. CASE Relist
  BY <1>30 DEF Relist, Go
<1>31. CASE RecordRecovered
  BY <1>31 DEF RecordRecovered, Become, Go
<1>32. CASE Reopen
  BY <1>32 DEF Reopen, Go
<1>33. CASE ResolveRecovered
  BY <1>33 DEF ResolveRecovered, Done
<1>34. CASE Interrupt
  BY <1>34 DEF Interrupt, Become, Done
<1>35. CASE Crash
  BY <1>35 DEF Crash, Done
<1>36. CASE PowerLoss
  BY <1>36 DEF PowerLoss, Kill, Done
<1>37. ASSUME NEW j \in Jobs, Recover(j) PROVE TypeOK'
  BY <1>37 DEF Recover, Become
<1>38. ASSUME NEW j \in Jobs, Release(j) PROVE TypeOK'
  BY <1>38 DEF Release
<1>39. ASSUME NEW j \in Jobs, Validate(j) PROVE TypeOK'
  BY <1>39 DEF Validate, Become, ValidationCopy, Generation
<1>40. ASSUME NEW j \in Jobs, AdmitCheck(j) PROVE TypeOK'
  BY <1>40 DEF AdmitCheck, Become
<1>41. ASSUME NEW j \in Jobs, Admit(j) PROVE TypeOK'
  BY <1>41 DEF Admit, Become
<1>42. ASSUME NEW j \in Jobs, SourceChange(j) PROVE TypeOK'
  BY <1>42 DEF SourceChange
<1>43. ASSUME NEW j \in Jobs, Open(j) PROVE TypeOK'
  BY <1>43 DEF Open, Child
<1>44. ASSUME NEW j \in Jobs, Commit(j) PROVE TypeOK'
  BY <1>44 DEF Commit, Child
<1>45. ASSUME NEW j \in Jobs, Remember(j) PROVE TypeOK'
  BY <1>45 DEF Remember, Child
<1>46. ASSUME NEW j \in Jobs, Stage(j) PROVE TypeOK'
  BY <1>46 DEF Stage, Child
<1>47. ASSUME NEW j \in Jobs, ChildExit(j) PROVE TypeOK'
  BY <1>47 DEF ChildExit, Child
<1>48. ASSUME NEW j \in Jobs, ChildFail(j) PROVE TypeOK'
  BY <1>48 DEF ChildFail, Child
<1>49. ASSUME NEW j \in Jobs, ChildKilled(j) PROVE TypeOK'
  BY <1>49 DEF ChildKilled, Kill
<1>50. ASSUME NEW j \in Jobs, Claim(j) PROVE TypeOK'
  BY <1>50 DEF Claim, Become
<1>51. CASE UNCHANGED vars
  BY <1>51 DEF vars
<1> QED
  BY <1>11, <1>12, <1>13, <1>14, <1>15, <1>16, <1>17, <1>18, <1>19, <1>20, <1>21, <1>22, <1>23,
      <1>24, <1>25, <1>26, <1>27, <1>28, <1>29, <1>30, <1>31, <1>32, <1>33, <1>34, <1>35, <1>36,
      <1>37, <1>38, <1>39, <1>40, <1>41, <1>42, <1>43, <1>44, <1>45, <1>46, <1>47, <1>48, <1>49,
      <1>50, <1>51
  DEF Next, Attempt, Operator, Intake, Calculation

\* Only the hand changes the record of the job it holds: a running job is closed
\* by others only when nobody has a hand on it.
LEMMA HandPreserved ==
  ASSUME TypeOK, TypeOK', HandInv, ChildInv, [Next]_vars
  PROVE  HandInv'
<1> USE DEF Steps, Working, PrepSteps, ProofSteps, SendSteps, Recovery,
            Statuses, Early, Failures, Children, Alive,
            accounts, inputs, objects, output, hand
<1> USE DEF TypeOK, HandInv
<1>11. CASE Start
  BY <1>11 DEF Start, Done, LeaseFree, ChildInv
<1>12. CASE PrepareRefused
  BY <1>12 DEF PrepareRefused, End, Become, Done
<1>13. CASE CreateAccounts
  BY <1>13 DEF CreateAccounts, Go
<1>14. CASE Begin
  BY <1>14 DEF Begin, Go
<1>15. CASE CopyInputs
  BY <1>15 DEF CopyInputs, Go
<1>16. CASE Dispatch
  BY <1>16 DEF Dispatch, Go, Child
<1>17. CASE Reap
  BY <1>17 DEF Reap, Go
<1>18. CASE ReapFailed
  BY <1>18 DEF ReapFailed, End, Become, Done
<1>19. CASE Abandon
  BY <1>19 DEF Abandon, Kill, Become, Done
<1>20. CASE Prove
  BY <1>20 DEF Prove, Go
<1>21. CASE RecordPrepared
  BY <1>21 DEF RecordPrepared, Go
<1>22. CASE SourceRefused
  BY <1>22 DEF SourceRefused, End, Become, Done
<1>23. CASE Publish
  BY <1>23 DEF Publish, Go
<1>24. CASE Register
  BY <1>24 DEF Register, Become, Go
<1>25. CASE Resolve
  BY <1>25 DEF Resolve, Done
<1>26. CASE Fails
  BY <1>26 DEF Fails, End, Become, Done
<1>27. CASE SendFails
  BY <1>27 DEF SendFails, End, Become, Done
<1>28. CASE Recommit
  BY <1>28 DEF Recommit, Go, Done
<1>29. CASE Restage
  BY <1>29 DEF Restage, Go
<1>30. CASE Relist
  BY <1>30 DEF Relist, Go
<1>31. CASE RecordRecovered
  BY <1>31 DEF RecordRecovered, Become, Go
<1>32. CASE Reopen
  BY <1>32 DEF Reopen, Go
<1>33. CASE ResolveRecovered
  BY <1>33 DEF ResolveRecovered, Done
<1>34. CASE Interrupt
  BY <1>34 DEF Interrupt, Become, Done
<1>35. CASE Crash
  BY <1>35 DEF Crash, Done
<1>36. CASE PowerLoss
  BY <1>36 DEF PowerLoss, Kill, Done
<1>37. ASSUME NEW j \in Jobs, Recover(j) PROVE HandInv'
  BY <1>37 DEF Recover, Become, LeaseFree, ChildInv
<1>38. ASSUME NEW j \in Jobs, Release(j) PROVE HandInv'
  BY <1>38 DEF Release, LeaseFree, ChildInv
<1>39. ASSUME NEW j \in Jobs, Validate(j) PROVE HandInv'
  BY <1>39 DEF Validate, Become, ValidationCopy
<1>40. ASSUME NEW j \in Jobs, AdmitCheck(j) PROVE HandInv'
  BY <1>40 DEF AdmitCheck, Become
<1>41. ASSUME NEW j \in Jobs, Admit(j) PROVE HandInv'
  BY <1>41 DEF Admit, Become
<1>42. ASSUME NEW j \in Jobs, SourceChange(j) PROVE HandInv'
  BY <1>42 DEF SourceChange
<1>43. ASSUME NEW j \in Jobs, Open(j) PROVE HandInv'
  BY <1>43 DEF Open, Child
<1>44. ASSUME NEW j \in Jobs, Commit(j) PROVE HandInv'
  BY <1>44 DEF Commit, Child
<1>45. ASSUME NEW j \in Jobs, Remember(j) PROVE HandInv'
  BY <1>45 DEF Remember, Child
<1>46. ASSUME NEW j \in Jobs, Stage(j) PROVE HandInv'
  BY <1>46 DEF Stage, Child
<1>47. ASSUME NEW j \in Jobs, ChildExit(j) PROVE HandInv'
  BY <1>47 DEF ChildExit, Child
<1>48. ASSUME NEW j \in Jobs, ChildFail(j) PROVE HandInv'
  BY <1>48 DEF ChildFail, Child
<1>49. ASSUME NEW j \in Jobs, ChildKilled(j) PROVE HandInv'
  BY <1>49 DEF ChildKilled, Kill
<1>50. ASSUME NEW j \in Jobs, Claim(j) PROVE HandInv'
  BY <1>50 DEF Claim, Become
<1>51. CASE UNCHANGED vars
  BY <1>51 DEF vars
<1> QED
  BY <1>11, <1>12, <1>13, <1>14, <1>15, <1>16, <1>17, <1>18, <1>19, <1>20, <1>21, <1>22, <1>23,
      <1>24, <1>25, <1>26, <1>27, <1>28, <1>29, <1>30, <1>31, <1>32, <1>33, <1>34, <1>35, <1>36,
      <1>37, <1>38, <1>39, <1>40, <1>41, <1>42, <1>43, <1>44, <1>45, <1>46, <1>47, <1>48, <1>49,
      <1>50, <1>51
  DEF Next, Attempt, Operator, Intake, Calculation

\* A child starts under a waiting worker, ends before anybody else takes over, and
\* is the only writer of the accounts it has compared with its pin.
LEMMA ChildPreserved ==
  ASSUME IInv, TypeOK', [Next]_vars
  PROVE  ChildInv'
<1> USE DEF Steps, Working, PrepSteps, ProofSteps, SendSteps, Recovery,
            Statuses, Early, Failures, Children, Alive,
            accounts, inputs, objects, output, hand
<1> USE CommitsTyped DEF IInv, TypeOK, HandInv, IntentInv, ChildInv
<1>c. UNCHANGED commits => Committed' = Committed /\ Generation' = Generation
  BY DEF Committed, Generation
<1>11. CASE Start
  BY <1>11, <1>c DEF Start, Done, LeaseFree, NoChild
<1>12. CASE PrepareRefused
  BY <1>12, <1>c DEF PrepareRefused, End, Become, Done
<1>13. CASE CreateAccounts
  BY <1>13, <1>c DEF CreateAccounts, Go
<1>14. CASE Begin
  BY <1>14, <1>c DEF Begin, Go, Unresolved
<1>15. CASE CopyInputs
  BY <1>15, <1>c DEF CopyInputs, Go
<1>16. CASE Dispatch
  <2>1. on \in Jobs /\ on \in intent /\ status[on] = "running" /\ child[on] = "none"
    BY <1>16 DEF Dispatch, Child
  <2>2. resolution[on] = "none"
    BY <2>1 DEF ResolutionTruthful
  <2> QED
    BY <1>16, <1>c, <2>1, <2>2 DEF Dispatch, Go, Child
<1>17. CASE Reap
  BY <1>17, <1>c DEF Reap, Go
<1>18. CASE ReapFailed
  BY <1>18, <1>c DEF ReapFailed, End, Become, Done
<1>19. CASE Abandon
  BY <1>19, <1>c DEF Abandon, Kill, Become, Done
<1>20. CASE Prove
  BY <1>20, <1>c DEF Prove, Go
<1>21. CASE RecordPrepared
  BY <1>21, <1>c DEF RecordPrepared, Go
<1>22. CASE SourceRefused
  BY <1>22, <1>c DEF SourceRefused, End, Become, Done
<1>23. CASE Publish
  BY <1>23, <1>c DEF Publish, Go
<1>24. CASE Register
  BY <1>24, <1>c DEF Register, Become, Go
<1>25. CASE Resolve
  BY <1>25, <1>c DEF Resolve, Done
<1>26. CASE Fails
  BY <1>26, <1>c DEF Fails, End, Become, Done
<1>27. CASE SendFails
  BY <1>27, <1>c DEF SendFails, End, Become, Done
<1>28. CASE Recommit
  BY <1>28, <1>c DEF Recommit, Go, Done
<1>29. CASE Restage
  BY <1>29, <1>c DEF Restage, Go
<1>30. CASE Relist
  BY <1>30, <1>c DEF Relist, Go
<1>31. CASE RecordRecovered
  BY <1>31, <1>c DEF RecordRecovered, Become, Go
<1>32. CASE Reopen
  BY <1>32, <1>c DEF Reopen, Go
<1>33. CASE ResolveRecovered
  BY <1>33, <1>c DEF ResolveRecovered, Done
<1>34. CASE Interrupt
  BY <1>34, <1>c DEF Interrupt, Become, Done
<1>35. CASE Crash
  BY <1>35, <1>c DEF Crash, Done
<1>36. CASE PowerLoss
  BY <1>36, <1>c DEF PowerLoss, Kill, Done
<1>37. ASSUME NEW j \in Jobs, Recover(j) PROVE ChildInv'
  BY <1>37, <1>c DEF Recover, Become, LeaseFree, NoChild
<1>38. ASSUME NEW j \in Jobs, Release(j) PROVE ChildInv'
  BY <1>38, <1>c DEF Release, LeaseFree, NoChild
<1>39. ASSUME NEW j \in Jobs, Validate(j) PROVE ChildInv'
  BY <1>39, <1>c DEF Validate, Become, ValidationCopy, GateFree, NoChild
<1>40. ASSUME NEW j \in Jobs, AdmitCheck(j) PROVE ChildInv'
  BY <1>40, <1>c DEF AdmitCheck, Become
<1>41. ASSUME NEW j \in Jobs, Admit(j) PROVE ChildInv'
  BY <1>41, <1>c DEF Admit, Become
<1>42. ASSUME NEW j \in Jobs, SourceChange(j) PROVE ChildInv'
  BY <1>42, <1>c DEF SourceChange
<1>43. ASSUME NEW j \in Jobs, Open(j) PROVE ChildInv'
  BY <1>43, <1>c DEF Open, Child, Current, CurrentUnlessStale, GenerationIs
<1>44. ASSUME NEW j \in Jobs, Commit(j) PROVE ChildInv'
  BY <1>44, <1>c, CommitAppends DEF Commit, Child, OneOpenIntent
<1>45. ASSUME NEW j \in Jobs, Remember(j) PROVE ChildInv'
  BY <1>45, <1>c DEF Remember, Child
<1>46. ASSUME NEW j \in Jobs, Stage(j) PROVE ChildInv'
  BY <1>46, <1>c DEF Stage, Child
<1>47. ASSUME NEW j \in Jobs, ChildExit(j) PROVE ChildInv'
  BY <1>47, <1>c DEF ChildExit, Child
<1>48. ASSUME NEW j \in Jobs, ChildFail(j) PROVE ChildInv'
  BY <1>48, <1>c DEF ChildFail, Child
<1>49. ASSUME NEW j \in Jobs, ChildKilled(j) PROVE ChildInv'
  BY <1>49, <1>c DEF ChildKilled, Kill
<1>50. ASSUME NEW j \in Jobs, Claim(j) PROVE ChildInv'
  BY <1>50, <1>c DEF Claim, Become, GateFree, NoChild
<1>51. CASE UNCHANGED vars
  BY <1>51, <1>c DEF vars
<1> QED
  BY <1>11, <1>12, <1>13, <1>14, <1>15, <1>16, <1>17, <1>18, <1>19, <1>20, <1>21, <1>22, <1>23,
      <1>24, <1>25, <1>26, <1>27, <1>28, <1>29, <1>30, <1>31, <1>32, <1>33, <1>34, <1>35, <1>36,
      <1>37, <1>38, <1>39, <1>40, <1>41, <1>42, <1>43, <1>44, <1>45, <1>46, <1>47, <1>48, <1>49,
      <1>50, <1>51
  DEF Next, Attempt, Operator, Intake, Calculation

\* An intent is entered before anything it covers, and given up only for attempts
\* that are over.
LEMMA IntentPreserved ==
  ASSUME IInv, TypeOK', [Next]_vars
  PROVE  IntentInv'
<1> USE DEF Steps, Working, PrepSteps, ProofSteps, SendSteps, Recovery,
            Statuses, Early, Failures, Children, Alive,
            accounts, inputs, objects, output, hand
<1> USE CommitsTyped DEF IInv, TypeOK, HandInv, IntentInv
<1>c. UNCHANGED commits => Committed' = Committed /\ Generation' = Generation
  BY DEF Committed, Generation
<1>u. UNCHANGED <<on, intent, resolution>> => (Unresolved(on))' = Unresolved(on)
  BY DEF Unresolved
<1>11. CASE Start
  BY <1>11, <1>c, <1>u DEF Start, Done, LeaseFree, NoChild, ResolutionTruthful
<1>12. CASE PrepareRefused
  BY <1>12, <1>c, <1>u DEF PrepareRefused, End, Become, Done
<1>13. CASE CreateAccounts
  BY <1>13, <1>c, <1>u DEF CreateAccounts, Go, Current, JournalInv, ChildInv
<1>14. CASE Begin
  BY <1>14, <1>c, <1>u DEF Begin, Go
<1>15. CASE CopyInputs
  BY <1>15, <1>c, <1>u DEF CopyInputs, Go
<1>16. CASE Dispatch
  BY <1>16, <1>c, <1>u DEF Dispatch, Go, Child
<1>17. CASE Reap
  BY <1>17, <1>c, <1>u DEF Reap, Go
<1>18. CASE ReapFailed
  BY <1>18, <1>c, <1>u DEF ReapFailed, End, Become, Done
<1>19. CASE Abandon
  BY <1>19, <1>c, <1>u DEF Abandon, Kill, Become, Done
<1>20. CASE Prove
  BY <1>20, <1>c, <1>u DEF Prove, Go
<1>21. CASE RecordPrepared
  BY <1>21, <1>c, <1>u DEF RecordPrepared, Go
<1>22. CASE SourceRefused
  BY <1>22, <1>c, <1>u DEF SourceRefused, End, Become, Done
<1>23. CASE Publish
  BY <1>23, <1>c, <1>u DEF Publish, Go
<1>24. CASE Register
  BY <1>24, <1>c, <1>u DEF Register, Become, Go
<1>25. CASE Resolve
  BY <1>25, <1>c, <1>u DEF Resolve, Done
<1>26. CASE Fails
  BY <1>26, <1>c, <1>u DEF Fails, End, Become, Done
<1>27. CASE SendFails
  BY <1>27, <1>c, <1>u DEF SendFails, End, Become, Done
<1>28. CASE Recommit
  BY <1>28, <1>c, <1>u DEF Recommit, Go, Done
<1>29. CASE Restage
  BY <1>29, <1>c, <1>u DEF Restage, Go
<1>30. CASE Relist
  BY <1>30, <1>c, <1>u DEF Relist, Go
<1>31. CASE RecordRecovered
  BY <1>31, <1>c, <1>u DEF RecordRecovered, Become, Go, DeliveryInv, ResolutionTruthful
<1>32. CASE Reopen
  BY <1>32, <1>c, <1>u DEF Reopen, Go
<1>33. CASE ResolveRecovered
  BY <1>33, <1>c, <1>u DEF ResolveRecovered, Done
<1>34. CASE Interrupt
  BY <1>34, <1>c, <1>u DEF Interrupt, Become, Done
<1>35. CASE Crash
  BY <1>35, <1>c, <1>u DEF Crash, Done
<1>36. CASE PowerLoss
  BY <1>36, <1>c, <1>u DEF PowerLoss, Kill, Done
<1>37. ASSUME NEW j \in Jobs, Recover(j) PROVE IntentInv'
  BY <1>37, <1>c, <1>u DEF Recover, Become, LeaseFree, NoChild, ResolutionTruthful
<1>38. ASSUME NEW j \in Jobs, Release(j) PROVE IntentInv'
  BY <1>38, <1>c, <1>u DEF Release, LeaseFree, NoChild, ResolutionTruthful
<1>39. ASSUME NEW j \in Jobs, Validate(j) PROVE IntentInv'
  BY <1>39, <1>c, <1>u DEF Validate, Become, ValidationCopy, GateFree, NoChild
<1>40. ASSUME NEW j \in Jobs, AdmitCheck(j) PROVE IntentInv'
  BY <1>40, <1>c, <1>u DEF AdmitCheck, Become
<1>41. ASSUME NEW j \in Jobs, Admit(j) PROVE IntentInv'
  BY <1>41, <1>c, <1>u DEF Admit, Become
<1>42. ASSUME NEW j \in Jobs, SourceChange(j) PROVE IntentInv'
  BY <1>42, <1>c, <1>u DEF SourceChange
<1>43. ASSUME NEW j \in Jobs, Open(j) PROVE IntentInv'
  BY <1>43, <1>c, <1>u DEF Open, Child
<1>44. ASSUME NEW j \in Jobs, Commit(j) PROVE IntentInv'
  BY <1>44, <1>c, <1>u DEF Commit, Child, ChildInv
<1>45. ASSUME NEW j \in Jobs, Remember(j) PROVE IntentInv'
  BY <1>45, <1>c, <1>u DEF Remember, Child
<1>46. ASSUME NEW j \in Jobs, Stage(j) PROVE IntentInv'
  BY <1>46, <1>c, <1>u DEF Stage, Child
<1>47. ASSUME NEW j \in Jobs, ChildExit(j) PROVE IntentInv'
  BY <1>47, <1>c, <1>u DEF ChildExit, Child
<1>48. ASSUME NEW j \in Jobs, ChildFail(j) PROVE IntentInv'
  BY <1>48, <1>c, <1>u DEF ChildFail, Child
<1>49. ASSUME NEW j \in Jobs, ChildKilled(j) PROVE IntentInv'
  BY <1>49, <1>c, <1>u DEF ChildKilled, Kill
<1>50. ASSUME NEW j \in Jobs, Claim(j) PROVE IntentInv'
  BY <1>50, <1>c, <1>u DEF Claim, Become, GateFree, NoChild
<1>51. CASE UNCHANGED vars
  BY <1>51, <1>c, <1>u DEF vars
<1> QED
  BY <1>11, <1>12, <1>13, <1>14, <1>15, <1>16, <1>17, <1>18, <1>19, <1>20, <1>21, <1>22, <1>23,
      <1>24, <1>25, <1>26, <1>27, <1>28, <1>29, <1>30, <1>31, <1>32, <1>33, <1>34, <1>35, <1>36,
      <1>37, <1>38, <1>39, <1>40, <1>41, <1>42, <1>43, <1>44, <1>45, <1>46, <1>47, <1>48, <1>49,
      <1>50, <1>51
  DEF Next, Attempt, Operator, Intake, Calculation

\* A delivery proceeds from the commit to its proof and from there to the listing.
LEMMA DeliveryPreserved ==
  ASSUME IInv, TypeOK', [Next]_vars
  PROVE  DeliveryInv'
<1> USE DEF Steps, Working, PrepSteps, ProofSteps, SendSteps, Recovery,
            Statuses, Early, Failures, Children, Alive,
            accounts, inputs, objects, output, hand
<1> USE CommitsTyped DEF IInv, TypeOK, HandInv, IntentInv, DeliveryInv
<1>c. UNCHANGED commits => Committed' = Committed /\ Generation' = Generation
  BY DEF Committed, Generation
<1>11. CASE Start
  BY <1>11, <1>c DEF Start, Done
<1>12. CASE PrepareRefused
  BY <1>12, <1>c DEF PrepareRefused, End, Become, Done
<1>13. CASE CreateAccounts
  BY <1>13, <1>c DEF CreateAccounts, Go
<1>14. CASE Begin
  BY <1>14, <1>c DEF Begin, Go
<1>15. CASE CopyInputs
  BY <1>15, <1>c DEF CopyInputs, Go
<1>16. CASE Dispatch
  BY <1>16, <1>c DEF Dispatch, Go, Child
<1>17. CASE Reap
  BY <1>17, <1>c DEF Reap, Go
<1>18. CASE ReapFailed
  BY <1>18, <1>c DEF ReapFailed, End, Become, Done
<1>19. CASE Abandon
  BY <1>19, <1>c DEF Abandon, Kill, Become, Done
<1>20. CASE Prove
  BY <1>20, <1>c DEF Prove, Go
<1>21. CASE RecordPrepared
  BY <1>21, <1>c DEF RecordPrepared, Go, Verified, RegistryProof
<1>22. CASE SourceRefused
  BY <1>22, <1>c DEF SourceRefused, End, Become, Done
<1>23. CASE Publish
  BY <1>23, <1>c DEF Publish, Go, Verified, RegistryProof
<1>24. CASE Register
  BY <1>24, <1>c DEF Register, Become, Go
<1>25. CASE Resolve
  BY <1>25, <1>c DEF Resolve, Done
<1>26. CASE Fails
  BY <1>26, <1>c DEF Fails, End, Become, Done
<1>27. CASE SendFails
  BY <1>27, <1>c DEF SendFails, End, Become, Done
<1>28. CASE Recommit
  BY <1>28, <1>c DEF Recommit, Go, Done
<1>29. CASE Restage
  BY <1>29, <1>c DEF Restage, Go
<1>30. CASE Relist
  BY <1>30, <1>c DEF Relist, Go, Verified, RegistryProof
<1>31. CASE RecordRecovered
  BY <1>31, <1>c DEF RecordRecovered, Become, Go
<1>32. CASE Reopen
  BY <1>32, <1>c DEF Reopen, Go, Verified, RegistryProof
<1>33. CASE ResolveRecovered
  BY <1>33, <1>c DEF ResolveRecovered, Done
<1>34. CASE Interrupt
  BY <1>34, <1>c DEF Interrupt, Become, Done
<1>35. CASE Crash
  BY <1>35, <1>c DEF Crash, Done
<1>36. CASE PowerLoss
  BY <1>36, <1>c DEF PowerLoss, Kill, Done
<1>37. ASSUME NEW j \in Jobs, Recover(j) PROVE DeliveryInv'
  BY <1>37, <1>c DEF Recover, Become
<1>38. ASSUME NEW j \in Jobs, Release(j) PROVE DeliveryInv'
  BY <1>38, <1>c DEF Release
<1>39. ASSUME NEW j \in Jobs, Validate(j) PROVE DeliveryInv'
  BY <1>39, <1>c DEF Validate, Become, ValidationCopy
<1>40. ASSUME NEW j \in Jobs, AdmitCheck(j) PROVE DeliveryInv'
  BY <1>40, <1>c DEF AdmitCheck, Become
<1>41. ASSUME NEW j \in Jobs, Admit(j) PROVE DeliveryInv'
  BY <1>41, <1>c DEF Admit, Become
<1>42. ASSUME NEW j \in Jobs, SourceChange(j) PROVE DeliveryInv'
  BY <1>42, <1>c DEF SourceChange
<1>43. ASSUME NEW j \in Jobs, Open(j) PROVE DeliveryInv'
  BY <1>43, <1>c DEF Open, Child
<1>44. ASSUME NEW j \in Jobs, Commit(j) PROVE DeliveryInv'
  BY <1>44, <1>c, CommitAppends DEF Commit, Child
<1>45. ASSUME NEW j \in Jobs, Remember(j) PROVE DeliveryInv'
  BY <1>45, <1>c DEF Remember, Child, ChildInv
<1>46. ASSUME NEW j \in Jobs, Stage(j) PROVE DeliveryInv'
  BY <1>46, <1>c DEF Stage, Child
<1>47. ASSUME NEW j \in Jobs, ChildExit(j) PROVE DeliveryInv'
  BY <1>47, <1>c DEF ChildExit, Child
<1>48. ASSUME NEW j \in Jobs, ChildFail(j) PROVE DeliveryInv'
  BY <1>48, <1>c DEF ChildFail, Child
<1>49. ASSUME NEW j \in Jobs, ChildKilled(j) PROVE DeliveryInv'
  BY <1>49, <1>c DEF ChildKilled, Kill
<1>50. ASSUME NEW j \in Jobs, Claim(j) PROVE DeliveryInv'
  BY <1>50, <1>c DEF Claim, Become
<1>51. CASE UNCHANGED vars
  BY <1>51, <1>c DEF vars
<1> QED
  BY <1>11, <1>12, <1>13, <1>14, <1>15, <1>16, <1>17, <1>18, <1>19, <1>20, <1>21, <1>22, <1>23,
      <1>24, <1>25, <1>26, <1>27, <1>28, <1>29, <1>30, <1>31, <1>32, <1>33, <1>34, <1>35, <1>36,
      <1>37, <1>38, <1>39, <1>40, <1>41, <1>42, <1>43, <1>44, <1>45, <1>46, <1>47, <1>48, <1>49,
      <1>50, <1>51
  DEF Next, Attempt, Operator, Intake, Calculation

\* Whoever has proven or recovered a commit has read the accounts without a journal.
LEMMA JournalPreserved ==
  ASSUME IInv, TypeOK', [Next]_vars
  PROVE  JournalInv'
<1> USE DEF Steps, Working, PrepSteps, ProofSteps, SendSteps, Recovery,
            Statuses, Early, Failures, Children, Alive,
            accounts, inputs, objects, output, hand
<1> USE CommitsTyped DEF IInv, TypeOK, HandInv, JournalInv
<1>c. UNCHANGED commits => Committed' = Committed /\ Generation' = Generation
  BY DEF Committed, Generation
<1>11. CASE Start
  BY <1>11, <1>c DEF Start, Done
<1>12. CASE PrepareRefused
  BY <1>12, <1>c DEF PrepareRefused, End, Become, Done
<1>13. CASE CreateAccounts
  BY <1>13, <1>c DEF CreateAccounts, Go
<1>14. CASE Begin
  BY <1>14, <1>c DEF Begin, Go
<1>15. CASE CopyInputs
  BY <1>15, <1>c DEF CopyInputs, Go
<1>16. CASE Dispatch
  BY <1>16, <1>c DEF Dispatch, Go, Child
<1>17. CASE Reap
  BY <1>17, <1>c DEF Reap, Go
<1>18. CASE ReapFailed
  BY <1>18, <1>c DEF ReapFailed, End, Become, Done
<1>19. CASE Abandon
  BY <1>19, <1>c DEF Abandon, Kill, Become, Done, IntentInv, ChildInv, OneOpenIntent
<1>20. CASE Prove
  BY <1>20, <1>c DEF Prove, Go, Readable
<1>21. CASE RecordPrepared
  BY <1>21, <1>c DEF RecordPrepared, Go
<1>22. CASE SourceRefused
  BY <1>22, <1>c DEF SourceRefused, End, Become, Done
<1>23. CASE Publish
  BY <1>23, <1>c DEF Publish, Go
<1>24. CASE Register
  BY <1>24, <1>c DEF Register, Become, Go
<1>25. CASE Resolve
  BY <1>25, <1>c DEF Resolve, Done
<1>26. CASE Fails
  BY <1>26, <1>c DEF Fails, End, Become, Done
<1>27. CASE SendFails
  BY <1>27, <1>c DEF SendFails, End, Become, Done
<1>28. CASE Recommit
  BY <1>28, <1>c DEF Recommit, Go, Done
<1>29. CASE Restage
  BY <1>29, <1>c DEF Restage, Go
<1>30. CASE Relist
  BY <1>30, <1>c DEF Relist, Go
<1>31. CASE RecordRecovered
  BY <1>31, <1>c DEF RecordRecovered, Become, Go
<1>32. CASE Reopen
  BY <1>32, <1>c DEF Reopen, Go
<1>33. CASE ResolveRecovered
  BY <1>33, <1>c DEF ResolveRecovered, Done
<1>34. CASE Interrupt
  BY <1>34, <1>c DEF Interrupt, Become, Done, IntentInv
<1>35. CASE Crash
  BY <1>35, <1>c DEF Crash, Done, IntentInv, Unresolved
<1>36. CASE PowerLoss
  BY <1>36, <1>c DEF PowerLoss, Kill, Done, IntentInv, ChildInv, OneOpenIntent
<1>37. ASSUME NEW j \in Jobs, Recover(j) PROVE JournalInv'
  BY <1>37, <1>c DEF Recover, Become
<1>38. ASSUME NEW j \in Jobs, Release(j) PROVE JournalInv'
  BY <1>38, <1>c DEF Release
<1>39. ASSUME NEW j \in Jobs, Validate(j) PROVE JournalInv'
  BY <1>39, <1>c DEF Validate, Become, ValidationCopy
<1>40. ASSUME NEW j \in Jobs, AdmitCheck(j) PROVE JournalInv'
  BY <1>40, <1>c DEF AdmitCheck, Become
<1>41. ASSUME NEW j \in Jobs, Admit(j) PROVE JournalInv'
  BY <1>41, <1>c DEF Admit, Become
<1>42. ASSUME NEW j \in Jobs, SourceChange(j) PROVE JournalInv'
  BY <1>42, <1>c DEF SourceChange
<1>43. ASSUME NEW j \in Jobs, Open(j) PROVE JournalInv'
  BY <1>43, <1>c DEF Open, Child
<1>44. ASSUME NEW j \in Jobs, Commit(j) PROVE JournalInv'
  BY <1>44, <1>c, CommitAppends DEF Commit, Child, ChildInv, IntentInv, OneOpenIntent
<1>45. ASSUME NEW j \in Jobs, Remember(j) PROVE JournalInv'
  BY <1>45, <1>c DEF Remember, Child
<1>46. ASSUME NEW j \in Jobs, Stage(j) PROVE JournalInv'
  BY <1>46, <1>c DEF Stage, Child
<1>47. ASSUME NEW j \in Jobs, ChildExit(j) PROVE JournalInv'
  BY <1>47, <1>c DEF ChildExit, Child
<1>48. ASSUME NEW j \in Jobs, ChildFail(j) PROVE JournalInv'
  BY <1>48, <1>c DEF ChildFail, Child
<1>49. ASSUME NEW j \in Jobs, ChildKilled(j) PROVE JournalInv'
  BY <1>49, <1>c DEF ChildKilled, Kill, IntentInv, ChildInv, OneOpenIntent
<1>50. ASSUME NEW j \in Jobs, Claim(j) PROVE JournalInv'
  BY <1>50, <1>c DEF Claim, Become, GateFree
<1>51. CASE UNCHANGED vars
  BY <1>51, <1>c DEF vars
<1> QED
  BY <1>11, <1>12, <1>13, <1>14, <1>15, <1>16, <1>17, <1>18, <1>19, <1>20, <1>21, <1>22, <1>23,
      <1>24, <1>25, <1>26, <1>27, <1>28, <1>29, <1>30, <1>31, <1>32, <1>33, <1>34, <1>35, <1>36,
      <1>37, <1>38, <1>39, <1>40, <1>41, <1>42, <1>43, <1>44, <1>45, <1>46, <1>47, <1>48, <1>49,
      <1>50, <1>51
  DEF Next, Attempt, Operator, Intake, Calculation

\* Only the commit extends the chain, and only Validate moves a pin, of a version
\* nothing has been committed for.
LEMMA PinsFollowed ==
  ASSUME IInv, TypeOK', [Next]_vars
  PROVE  CommitsFollowPins'
<1> USE DEF Steps, Working, PrepSteps, ProofSteps, SendSteps, Recovery,
            Statuses, Early, Failures, Children, Alive,
            accounts, inputs, objects, output, hand
<1> USE CommitsTyped DEF IInv, TypeOK, CommitsFollowPins
<1>11. CASE Start
  BY <1>11 DEF Start, Done
<1>12. CASE PrepareRefused
  BY <1>12 DEF PrepareRefused, End, Become, Done
<1>13. CASE CreateAccounts
  BY <1>13 DEF CreateAccounts, Go
<1>14. CASE Begin
  BY <1>14 DEF Begin, Go
<1>15. CASE CopyInputs
  BY <1>15 DEF CopyInputs, Go
<1>16. CASE Dispatch
  BY <1>16 DEF Dispatch, Go, Child
<1>17. CASE Reap
  BY <1>17 DEF Reap, Go
<1>18. CASE ReapFailed
  BY <1>18 DEF ReapFailed, End, Become, Done
<1>19. CASE Abandon
  BY <1>19 DEF Abandon, Kill, Become, Done
<1>20. CASE Prove
  BY <1>20 DEF Prove, Go
<1>21. CASE RecordPrepared
  BY <1>21 DEF RecordPrepared, Go
<1>22. CASE SourceRefused
  BY <1>22 DEF SourceRefused, End, Become, Done
<1>23. CASE Publish
  BY <1>23 DEF Publish, Go
<1>24. CASE Register
  BY <1>24 DEF Register, Become, Go
<1>25. CASE Resolve
  BY <1>25 DEF Resolve, Done
<1>26. CASE Fails
  BY <1>26 DEF Fails, End, Become, Done
<1>27. CASE SendFails
  BY <1>27 DEF SendFails, End, Become, Done
<1>28. CASE Recommit
  BY <1>28 DEF Recommit, Go, Done
<1>29. CASE Restage
  BY <1>29 DEF Restage, Go
<1>30. CASE Relist
  BY <1>30 DEF Relist, Go
<1>31. CASE RecordRecovered
  BY <1>31 DEF RecordRecovered, Become, Go
<1>32. CASE Reopen
  BY <1>32 DEF Reopen, Go
<1>33. CASE ResolveRecovered
  BY <1>33 DEF ResolveRecovered, Done
<1>34. CASE Interrupt
  BY <1>34 DEF Interrupt, Become, Done
<1>35. CASE Crash
  BY <1>35 DEF Crash, Done
<1>36. CASE PowerLoss
  BY <1>36 DEF PowerLoss, Kill, Done
<1>37. ASSUME NEW j \in Jobs, Recover(j) PROVE CommitsFollowPins'
  BY <1>37 DEF Recover, Become
<1>38. ASSUME NEW j \in Jobs, Release(j) PROVE CommitsFollowPins'
  BY <1>38 DEF Release
<1>39. ASSUME NEW j \in Jobs, Validate(j) PROVE CommitsFollowPins'
  BY <1>39 DEF Validate, Become, ValidationCopy, ChildInv, IntentInv
<1>40. ASSUME NEW j \in Jobs, AdmitCheck(j) PROVE CommitsFollowPins'
  BY <1>40 DEF AdmitCheck, Become
<1>41. ASSUME NEW j \in Jobs, Admit(j) PROVE CommitsFollowPins'
  BY <1>41 DEF Admit, Become
<1>42. ASSUME NEW j \in Jobs, SourceChange(j) PROVE CommitsFollowPins'
  BY <1>42 DEF SourceChange
<1>43. ASSUME NEW j \in Jobs, Open(j) PROVE CommitsFollowPins'
  BY <1>43 DEF Open, Child
<1>44. ASSUME NEW j \in Jobs, Commit(j) PROVE CommitsFollowPins'
  BY <1>44, CommitAppends DEF Commit, Child, ChildInv
<1>45. ASSUME NEW j \in Jobs, Remember(j) PROVE CommitsFollowPins'
  BY <1>45 DEF Remember, Child
<1>46. ASSUME NEW j \in Jobs, Stage(j) PROVE CommitsFollowPins'
  BY <1>46 DEF Stage, Child
<1>47. ASSUME NEW j \in Jobs, ChildExit(j) PROVE CommitsFollowPins'
  BY <1>47 DEF ChildExit, Child
<1>48. ASSUME NEW j \in Jobs, ChildFail(j) PROVE CommitsFollowPins'
  BY <1>48 DEF ChildFail, Child
<1>49. ASSUME NEW j \in Jobs, ChildKilled(j) PROVE CommitsFollowPins'
  BY <1>49 DEF ChildKilled, Kill
<1>50. ASSUME NEW j \in Jobs, Claim(j) PROVE CommitsFollowPins'
  BY <1>50 DEF Claim, Become
<1>51. CASE UNCHANGED vars
  BY <1>51 DEF vars
<1> QED
  BY <1>11, <1>12, <1>13, <1>14, <1>15, <1>16, <1>17, <1>18, <1>19, <1>20, <1>21, <1>22, <1>23,
      <1>24, <1>25, <1>26, <1>27, <1>28, <1>29, <1>30, <1>31, <1>32, <1>33, <1>34, <1>35, <1>36,
      <1>37, <1>38, <1>39, <1>40, <1>41, <1>42, <1>43, <1>44, <1>45, <1>46, <1>47, <1>48, <1>49,
      <1>50, <1>51
  DEF Next, Attempt, Operator, Intake, Calculation

\* An intent is entered when no other is open.
LEMMA IntentsSerialize ==
  ASSUME IInv, TypeOK', [Next]_vars
  PROVE  OneOpenIntent'
<1> USE DEF Steps, Working, PrepSteps, ProofSteps, SendSteps, Recovery,
            Statuses, Early, Failures, Children, Alive,
            accounts, inputs, objects, output, hand
<1> USE DEF IInv, TypeOK, OneOpenIntent
<1>11. CASE Start
  BY <1>11 DEF Start, Done
<1>12. CASE PrepareRefused
  BY <1>12 DEF PrepareRefused, End, Become, Done
<1>13. CASE CreateAccounts
  BY <1>13 DEF CreateAccounts, Go
<1>14. CASE Begin
  BY <1>14 DEF Begin, Go, Current, Unresolved, IntentInv
<1>15. CASE CopyInputs
  BY <1>15 DEF CopyInputs, Go
<1>16. CASE Dispatch
  BY <1>16 DEF Dispatch, Go, Child
<1>17. CASE Reap
  BY <1>17 DEF Reap, Go
<1>18. CASE ReapFailed
  BY <1>18 DEF ReapFailed, End, Become, Done
<1>19. CASE Abandon
  BY <1>19 DEF Abandon, Kill, Become, Done
<1>20. CASE Prove
  BY <1>20 DEF Prove, Go
<1>21. CASE RecordPrepared
  BY <1>21 DEF RecordPrepared, Go
<1>22. CASE SourceRefused
  BY <1>22 DEF SourceRefused, End, Become, Done
<1>23. CASE Publish
  BY <1>23 DEF Publish, Go
<1>24. CASE Register
  BY <1>24 DEF Register, Become, Go
<1>25. CASE Resolve
  BY <1>25 DEF Resolve, Done
<1>26. CASE Fails
  BY <1>26 DEF Fails, End, Become, Done
<1>27. CASE SendFails
  BY <1>27 DEF SendFails, End, Become, Done
<1>28. CASE Recommit
  BY <1>28 DEF Recommit, Go, Done
<1>29. CASE Restage
  BY <1>29 DEF Restage, Go
<1>30. CASE Relist
  BY <1>30 DEF Relist, Go
<1>31. CASE RecordRecovered
  BY <1>31 DEF RecordRecovered, Become, Go
<1>32. CASE Reopen
  BY <1>32 DEF Reopen, Go
<1>33. CASE ResolveRecovered
  BY <1>33 DEF ResolveRecovered, Done
<1>34. CASE Interrupt
  BY <1>34 DEF Interrupt, Become, Done
<1>35. CASE Crash
  BY <1>35 DEF Crash, Done
<1>36. CASE PowerLoss
  BY <1>36 DEF PowerLoss, Kill, Done
<1>37. ASSUME NEW j \in Jobs, Recover(j) PROVE OneOpenIntent'
  BY <1>37 DEF Recover, Become
<1>38. ASSUME NEW j \in Jobs, Release(j) PROVE OneOpenIntent'
  BY <1>38 DEF Release
<1>39. ASSUME NEW j \in Jobs, Validate(j) PROVE OneOpenIntent'
  BY <1>39 DEF Validate, Become, ValidationCopy
<1>40. ASSUME NEW j \in Jobs, AdmitCheck(j) PROVE OneOpenIntent'
  BY <1>40 DEF AdmitCheck, Become
<1>41. ASSUME NEW j \in Jobs, Admit(j) PROVE OneOpenIntent'
  BY <1>41 DEF Admit, Become
<1>42. ASSUME NEW j \in Jobs, SourceChange(j) PROVE OneOpenIntent'
  BY <1>42 DEF SourceChange
<1>43. ASSUME NEW j \in Jobs, Open(j) PROVE OneOpenIntent'
  BY <1>43 DEF Open, Child
<1>44. ASSUME NEW j \in Jobs, Commit(j) PROVE OneOpenIntent'
  BY <1>44 DEF Commit, Child
<1>45. ASSUME NEW j \in Jobs, Remember(j) PROVE OneOpenIntent'
  BY <1>45 DEF Remember, Child
<1>46. ASSUME NEW j \in Jobs, Stage(j) PROVE OneOpenIntent'
  BY <1>46 DEF Stage, Child
<1>47. ASSUME NEW j \in Jobs, ChildExit(j) PROVE OneOpenIntent'
  BY <1>47 DEF ChildExit, Child
<1>48. ASSUME NEW j \in Jobs, ChildFail(j) PROVE OneOpenIntent'
  BY <1>48 DEF ChildFail, Child
<1>49. ASSUME NEW j \in Jobs, ChildKilled(j) PROVE OneOpenIntent'
  BY <1>49 DEF ChildKilled, Kill
<1>50. ASSUME NEW j \in Jobs, Claim(j) PROVE OneOpenIntent'
  BY <1>50 DEF Claim, Become
<1>51. CASE UNCHANGED vars
  BY <1>51 DEF vars
<1> QED
  BY <1>11, <1>12, <1>13, <1>14, <1>15, <1>16, <1>17, <1>18, <1>19, <1>20, <1>21, <1>22, <1>23,
      <1>24, <1>25, <1>26, <1>27, <1>28, <1>29, <1>30, <1>31, <1>32, <1>33, <1>34, <1>35, <1>36,
      <1>37, <1>38, <1>39, <1>40, <1>41, <1>42, <1>43, <1>44, <1>45, <1>46, <1>47, <1>48, <1>49,
      <1>50, <1>51
  DEF Next, Attempt, Operator, Intake, Calculation

\* Releases and deliveries say what the accounts say, whatever an old child still does.
LEMMA ResolutionsTruthful ==
  ASSUME IInv, TypeOK', [Next]_vars
  PROVE  ResolutionTruthful'
<1> USE DEF Steps, Working, PrepSteps, ProofSteps, SendSteps, Recovery,
            Statuses, Early, Failures, Children, Alive,
            accounts, inputs, objects, output, hand
<1> USE CommitsTyped DEF IInv, TypeOK, ResolutionTruthful, HandInv
<1>c. UNCHANGED commits => Committed' = Committed /\ Generation' = Generation
  BY DEF Committed, Generation
<1>11. CASE Start
  BY <1>11, <1>c DEF Start, Done
<1>12. CASE PrepareRefused
  BY <1>12, <1>c DEF PrepareRefused, End, Become, Done
<1>13. CASE CreateAccounts
  BY <1>13, <1>c DEF CreateAccounts, Go
<1>14. CASE Begin
  BY <1>14, <1>c DEF Begin, Go
<1>15. CASE CopyInputs
  BY <1>15, <1>c DEF CopyInputs, Go
<1>16. CASE Dispatch
  <2>1. on \in Jobs /\ status[on] = "running" /\ child[on] = "none"
    BY <1>16 DEF Dispatch, Child
  <2>2. resolution[on] # "no_commit"
    BY <2>1 DEF IntentInv
  <2>3. resolution[on] # "delivered"
    BY <2>1
  <2> QED
    BY <1>16, <1>c, <2>1, <2>2, <2>3 DEF Dispatch, Go, Child
<1>17. CASE Reap
  BY <1>17, <1>c DEF Reap, Go
<1>18. CASE ReapFailed
  BY <1>18, <1>c DEF ReapFailed, End, Become, Done
<1>19. CASE Abandon
  BY <1>19, <1>c DEF Abandon, Kill, Become, Done
<1>20. CASE Prove
  BY <1>20, <1>c DEF Prove, Go
<1>21. CASE RecordPrepared
  BY <1>21, <1>c DEF RecordPrepared, Go
<1>22. CASE SourceRefused
  BY <1>22, <1>c DEF SourceRefused, End, Become, Done
<1>23. CASE Publish
  BY <1>23, <1>c DEF Publish, Go
<1>24. CASE Register
  BY <1>24, <1>c DEF Register, Become, Go
<1>25. CASE Resolve
  BY <1>25, <1>c DEF Resolve, Done, DeliveryInv
<1>26. CASE Fails
  BY <1>26, <1>c DEF Fails, End, Become, Done
<1>27. CASE SendFails
  BY <1>27, <1>c DEF SendFails, End, Become, Done
<1>28. CASE Recommit
  BY <1>28, <1>c DEF Recommit, Go, Done
<1>29. CASE Restage
  BY <1>29, <1>c DEF Restage, Go
<1>30. CASE Relist
  BY <1>30, <1>c DEF Relist, Go
<1>31. CASE RecordRecovered
  BY <1>31, <1>c DEF RecordRecovered, Become, Go
<1>32. CASE Reopen
  BY <1>32, <1>c DEF Reopen, Go
<1>33. CASE ResolveRecovered
  BY <1>33, <1>c DEF ResolveRecovered, Done, DeliveryInv
<1>34. CASE Interrupt
  BY <1>34, <1>c DEF Interrupt, Become, Done
<1>35. CASE Crash
  BY <1>35, <1>c DEF Crash, Done
<1>36. CASE PowerLoss
  BY <1>36, <1>c DEF PowerLoss, Kill, Done
<1>37. ASSUME NEW j \in Jobs, Recover(j) PROVE ResolutionTruthful'
  BY <1>37, <1>c DEF Recover, Become
<1>38. ASSUME NEW j \in Jobs, Release(j) PROVE ResolutionTruthful'
  <2>1. Generation = pin[j] => j \notin Committed
    <3> SUFFICES ASSUME NEW n \in 1..Generation, commits[n] = j PROVE Generation # pin[j]
      BY CommitsTyped
    <3> QED
      BY CommitsTyped DEF CommitsFollowPins
  <2>2. child[j] \notin Alive /\ resolution[j] # "delivered"
    BY <1>38 DEF Release, LeaseFree, NoChild
  <2> QED
    BY <1>38, <1>c, <2>1, <2>2 DEF Release, IntentInv
<1>39. ASSUME NEW j \in Jobs, Validate(j) PROVE ResolutionTruthful'
  BY <1>39, <1>c DEF Validate, Become, ValidationCopy
<1>40. ASSUME NEW j \in Jobs, AdmitCheck(j) PROVE ResolutionTruthful'
  BY <1>40, <1>c DEF AdmitCheck, Become
<1>41. ASSUME NEW j \in Jobs, Admit(j) PROVE ResolutionTruthful'
  BY <1>41, <1>c DEF Admit, Become
<1>42. ASSUME NEW j \in Jobs, SourceChange(j) PROVE ResolutionTruthful'
  BY <1>42, <1>c DEF SourceChange
<1>43. ASSUME NEW j \in Jobs, Open(j) PROVE ResolutionTruthful'
  BY <1>43, <1>c DEF Open, Child
<1>44. ASSUME NEW j \in Jobs, Commit(j) PROVE ResolutionTruthful'
  BY <1>44, <1>c, CommitAppends DEF Commit, Child, ChildInv
<1>45. ASSUME NEW j \in Jobs, Remember(j) PROVE ResolutionTruthful'
  BY <1>45, <1>c DEF Remember, Child
<1>46. ASSUME NEW j \in Jobs, Stage(j) PROVE ResolutionTruthful'
  BY <1>46, <1>c DEF Stage, Child
<1>47. ASSUME NEW j \in Jobs, ChildExit(j) PROVE ResolutionTruthful'
  BY <1>47, <1>c DEF ChildExit, Child
<1>48. ASSUME NEW j \in Jobs, ChildFail(j) PROVE ResolutionTruthful'
  BY <1>48, <1>c DEF ChildFail, Child
<1>49. ASSUME NEW j \in Jobs, ChildKilled(j) PROVE ResolutionTruthful'
  BY <1>49, <1>c DEF ChildKilled, Kill
<1>50. ASSUME NEW j \in Jobs, Claim(j) PROVE ResolutionTruthful'
  BY <1>50, <1>c DEF Claim, Become
<1>51. CASE UNCHANGED vars
  BY <1>51, <1>c DEF vars
<1> QED
  BY <1>11, <1>12, <1>13, <1>14, <1>15, <1>16, <1>17, <1>18, <1>19, <1>20, <1>21, <1>22, <1>23,
      <1>24, <1>25, <1>26, <1>27, <1>28, <1>29, <1>30, <1>31, <1>32, <1>33, <1>34, <1>35, <1>36,
      <1>37, <1>38, <1>39, <1>40, <1>41, <1>42, <1>43, <1>44, <1>45, <1>46, <1>47, <1>48, <1>49,
      <1>50, <1>51
  DEF Next, Attempt, Operator, Intake, Calculation

\* Publishing follows the proof, and a resolution follows the record.
LEMMA ListingsCommitted ==
  ASSUME IInv, TypeOK', [Next]_vars
  PROVE  ListedIsCommitted'
<1> USE DEF Steps, Working, PrepSteps, ProofSteps, SendSteps, Recovery,
            Statuses, Early, Failures, Children, Alive,
            accounts, inputs, objects, output, hand
<1> USE CommitsTyped DEF IInv, TypeOK, ListedIsCommitted, HandInv
<1>c. UNCHANGED commits => Committed' = Committed /\ Generation' = Generation
  BY DEF Committed, Generation
<1>11. CASE Start
  BY <1>11, <1>c DEF Start, Done
<1>12. CASE PrepareRefused
  BY <1>12, <1>c DEF PrepareRefused, End, Become, Done
<1>13. CASE CreateAccounts
  BY <1>13, <1>c DEF CreateAccounts, Go
<1>14. CASE Begin
  BY <1>14, <1>c DEF Begin, Go
<1>15. CASE CopyInputs
  BY <1>15, <1>c DEF CopyInputs, Go
<1>16. CASE Dispatch
  BY <1>16, <1>c DEF Dispatch, Go, Child
<1>17. CASE Reap
  BY <1>17, <1>c DEF Reap, Go
<1>18. CASE ReapFailed
  BY <1>18, <1>c DEF ReapFailed, End, Become, Done
<1>19. CASE Abandon
  BY <1>19, <1>c DEF Abandon, Kill, Become, Done
<1>20. CASE Prove
  BY <1>20, <1>c DEF Prove, Go
<1>21. CASE RecordPrepared
  BY <1>21, <1>c DEF RecordPrepared, Go
<1>22. CASE SourceRefused
  BY <1>22, <1>c DEF SourceRefused, End, Become, Done
<1>23. CASE Publish
  <2>1. on \in Jobs /\ on \in stage /\ on \in proof /\ on \in Committed
    BY <1>23 DEF Publish, Verified, RegistryProof, DeliveryInv
  <2>2. resolution[on] = "none"
    BY <1>23, <2>1 DEF Publish, ResolutionTruthful
  <2> QED
    BY <1>23, <1>c, <2>1, <2>2 DEF Publish, Go
<1>24. CASE Register
  BY <1>24, <1>c DEF Register, Become, Go
<1>25. CASE Resolve
  BY <1>25, <1>c DEF Resolve, Done
<1>26. CASE Fails
  BY <1>26, <1>c DEF Fails, End, Become, Done
<1>27. CASE SendFails
  BY <1>27, <1>c DEF SendFails, End, Become, Done
<1>28. CASE Recommit
  BY <1>28, <1>c DEF Recommit, Go, Done
<1>29. CASE Restage
  BY <1>29, <1>c DEF Restage, Go
<1>30. CASE Relist
  <2>1. on \in Jobs /\ on \in stage /\ on \in proof /\ on \in Committed
    BY <1>30 DEF Relist, Verified, RegistryProof, DeliveryInv
  <2>2. resolution[on] = "none"
    BY <1>30, <2>1 DEF Relist, ResolutionTruthful
  <2> QED
    BY <1>30, <1>c, <2>1, <2>2 DEF Relist, Go
<1>31. CASE RecordRecovered
  BY <1>31, <1>c DEF RecordRecovered, Become, Go
<1>32. CASE Reopen
  <2>1. on \in Jobs /\ on \in stage /\ on \in proof /\ on \in Committed
    BY <1>32 DEF Reopen, Verified, RegistryProof, DeliveryInv
  <2>2. status[on] = "review_required"
    BY <1>32 DEF Reopen
  <2> QED
    BY <1>32, <1>c, <2>1, <2>2 DEF Reopen, Go
<1>33. CASE ResolveRecovered
  BY <1>33, <1>c DEF ResolveRecovered, Done
<1>34. CASE Interrupt
  BY <1>34, <1>c DEF Interrupt, Become, Done
<1>35. CASE Crash
  BY <1>35, <1>c DEF Crash, Done
<1>36. CASE PowerLoss
  BY <1>36, <1>c DEF PowerLoss, Kill, Done
<1>37. ASSUME NEW j \in Jobs, Recover(j) PROVE ListedIsCommitted'
  BY <1>37, <1>c DEF Recover, Become
<1>38. ASSUME NEW j \in Jobs, Release(j) PROVE ListedIsCommitted'
  BY <1>38, <1>c DEF Release
<1>39. ASSUME NEW j \in Jobs, Validate(j) PROVE ListedIsCommitted'
  BY <1>39, <1>c DEF Validate, Become, ValidationCopy
<1>40. ASSUME NEW j \in Jobs, AdmitCheck(j) PROVE ListedIsCommitted'
  BY <1>40, <1>c DEF AdmitCheck, Become
<1>41. ASSUME NEW j \in Jobs, Admit(j) PROVE ListedIsCommitted'
  BY <1>41, <1>c DEF Admit, Become
<1>42. ASSUME NEW j \in Jobs, SourceChange(j) PROVE ListedIsCommitted'
  BY <1>42, <1>c DEF SourceChange
<1>43. ASSUME NEW j \in Jobs, Open(j) PROVE ListedIsCommitted'
  BY <1>43, <1>c DEF Open, Child
<1>44. ASSUME NEW j \in Jobs, Commit(j) PROVE ListedIsCommitted'
  BY <1>44, <1>c, CommitAppends DEF Commit, Child
<1>45. ASSUME NEW j \in Jobs, Remember(j) PROVE ListedIsCommitted'
  BY <1>45, <1>c DEF Remember, Child
<1>46. ASSUME NEW j \in Jobs, Stage(j) PROVE ListedIsCommitted'
  BY <1>46, <1>c DEF Stage, Child
<1>47. ASSUME NEW j \in Jobs, ChildExit(j) PROVE ListedIsCommitted'
  BY <1>47, <1>c DEF ChildExit, Child
<1>48. ASSUME NEW j \in Jobs, ChildFail(j) PROVE ListedIsCommitted'
  BY <1>48, <1>c DEF ChildFail, Child
<1>49. ASSUME NEW j \in Jobs, ChildKilled(j) PROVE ListedIsCommitted'
  BY <1>49, <1>c DEF ChildKilled, Kill
<1>50. ASSUME NEW j \in Jobs, Claim(j) PROVE ListedIsCommitted'
  BY <1>50, <1>c DEF Claim, Become
<1>51. CASE UNCHANGED vars
  BY <1>51, <1>c DEF vars
<1> QED
  BY <1>11, <1>12, <1>13, <1>14, <1>15, <1>16, <1>17, <1>18, <1>19, <1>20, <1>21, <1>22, <1>23,
      <1>24, <1>25, <1>26, <1>27, <1>28, <1>29, <1>30, <1>31, <1>32, <1>33, <1>34, <1>35, <1>36,
      <1>37, <1>38, <1>39, <1>40, <1>41, <1>42, <1>43, <1>44, <1>45, <1>46, <1>47, <1>48, <1>49,
      <1>50, <1>51
  DEF Next, Attempt, Operator, Intake, Calculation

\* A journal appears only where an intent is open, and closing the last one removes it.
LEMMA JournalsOwned ==
  ASSUME IInv, TypeOK', [Next]_vars
  PROVE  JournalHasOwner'
<1> USE DEF Steps, Working, PrepSteps, ProofSteps, SendSteps, Recovery,
            Statuses, Early, Failures, Children, Alive,
            accounts, inputs, objects, output, hand
<1> USE DEF IInv, TypeOK, JournalHasOwner
<1>11. CASE Start
  BY <1>11 DEF Start, Done
<1>12. CASE PrepareRefused
  BY <1>12 DEF PrepareRefused, End, Become, Done
<1>13. CASE CreateAccounts
  BY <1>13 DEF CreateAccounts, Go
<1>14. CASE Begin
  BY <1>14 DEF Begin, Go
<1>15. CASE CopyInputs
  BY <1>15 DEF CopyInputs, Go
<1>16. CASE Dispatch
  BY <1>16 DEF Dispatch, Go, Child
<1>17. CASE Reap
  BY <1>17 DEF Reap, Go
<1>18. CASE ReapFailed
  BY <1>18 DEF ReapFailed, End, Become, Done
<1>19. CASE Abandon
  BY <1>19 DEF Abandon, Kill, Become, Done, ChildInv
<1>20. CASE Prove
  BY <1>20 DEF Prove, Go
<1>21. CASE RecordPrepared
  BY <1>21 DEF RecordPrepared, Go
<1>22. CASE SourceRefused
  BY <1>22 DEF SourceRefused, End, Become, Done
<1>23. CASE Publish
  BY <1>23 DEF Publish, Go
<1>24. CASE Register
  BY <1>24 DEF Register, Become, Go
<1>25. CASE Resolve
  BY <1>25 DEF Resolve, Done, JournalInv
<1>26. CASE Fails
  BY <1>26 DEF Fails, End, Become, Done
<1>27. CASE SendFails
  BY <1>27 DEF SendFails, End, Become, Done
<1>28. CASE Recommit
  BY <1>28 DEF Recommit, Go, Done
<1>29. CASE Restage
  BY <1>29 DEF Restage, Go
<1>30. CASE Relist
  BY <1>30 DEF Relist, Go
<1>31. CASE RecordRecovered
  BY <1>31 DEF RecordRecovered, Become, Go
<1>32. CASE Reopen
  BY <1>32 DEF Reopen, Go
<1>33. CASE ResolveRecovered
  BY <1>33 DEF ResolveRecovered, Done, JournalInv, HandInv
<1>34. CASE Interrupt
  BY <1>34 DEF Interrupt, Become, Done
<1>35. CASE Crash
  BY <1>35 DEF Crash, Done, IntentInv
<1>36. CASE PowerLoss
  BY <1>36 DEF PowerLoss, Kill, Done, ChildInv
<1>37. ASSUME NEW j \in Jobs, Recover(j) PROVE JournalHasOwner'
  BY <1>37 DEF Recover, Become
<1>38. ASSUME NEW j \in Jobs, Release(j) PROVE JournalHasOwner'
  BY <1>38 DEF Release
<1>39. ASSUME NEW j \in Jobs, Validate(j) PROVE JournalHasOwner'
  BY <1>39 DEF Validate, Become, ValidationCopy
<1>40. ASSUME NEW j \in Jobs, AdmitCheck(j) PROVE JournalHasOwner'
  BY <1>40 DEF AdmitCheck, Become
<1>41. ASSUME NEW j \in Jobs, Admit(j) PROVE JournalHasOwner'
  BY <1>41 DEF Admit, Become
<1>42. ASSUME NEW j \in Jobs, SourceChange(j) PROVE JournalHasOwner'
  BY <1>42 DEF SourceChange
<1>43. ASSUME NEW j \in Jobs, Open(j) PROVE JournalHasOwner'
  BY <1>43 DEF Open, Child
<1>44. ASSUME NEW j \in Jobs, Commit(j) PROVE JournalHasOwner'
  BY <1>44 DEF Commit, Child, ChildInv
<1>45. ASSUME NEW j \in Jobs, Remember(j) PROVE JournalHasOwner'
  BY <1>45 DEF Remember, Child
<1>46. ASSUME NEW j \in Jobs, Stage(j) PROVE JournalHasOwner'
  BY <1>46 DEF Stage, Child
<1>47. ASSUME NEW j \in Jobs, ChildExit(j) PROVE JournalHasOwner'
  BY <1>47 DEF ChildExit, Child
<1>48. ASSUME NEW j \in Jobs, ChildFail(j) PROVE JournalHasOwner'
  BY <1>48 DEF ChildFail, Child
<1>49. ASSUME NEW j \in Jobs, ChildKilled(j) PROVE JournalHasOwner'
  BY <1>49 DEF ChildKilled, Kill, ChildInv
<1>50. ASSUME NEW j \in Jobs, Claim(j) PROVE JournalHasOwner'
  BY <1>50 DEF Claim, Become
<1>51. CASE UNCHANGED vars
  BY <1>51 DEF vars
<1> QED
  BY <1>11, <1>12, <1>13, <1>14, <1>15, <1>16, <1>17, <1>18, <1>19, <1>20, <1>21, <1>22, <1>23,
      <1>24, <1>25, <1>26, <1>27, <1>28, <1>29, <1>30, <1>31, <1>32, <1>33, <1>34, <1>35, <1>36,
      <1>37, <1>38, <1>39, <1>40, <1>41, <1>42, <1>43, <1>44, <1>45, <1>46, <1>47, <1>48, <1>49,
      <1>50, <1>51
  DEF Next, Attempt, Operator, Intake, Calculation

LEMMA InitIInv == Init => IInv
<1> SUFFICES ASSUME Init PROVE IInv
  OBVIOUS
<1> USE DEF Init, Steps, Working, PrepSteps, ProofSteps, SendSteps, Recovery,
            Statuses, Early, Failures, Children, Alive
<1>1. TypeOK
  <2>0. commits \in Seq(Jobs)
    OBVIOUS
  <2>1. wal \in BOOLEAN /\ db \in BOOLEAN
    OBVIOUS
  <2>2. pin \in [Jobs -> Int]
    OBVIOUS
  <2>3. /\ status \in [Jobs -> Statuses] /\ child \in [Jobs -> Children]
        /\ resolution \in [Jobs -> {"none", "delivered", "no_commit"}]
    OBVIOUS
  <2>4. step \in Steps /\ (step \notin {"down", "idle"} => on \in Jobs)
    OBVIOUS
  <2> QED
    BY <2>0, <2>1, <2>2, <2>3, <2>4 DEF TypeOK
<1>2. Committed = {} /\ Generation = 0
  BY DEF Committed, Generation
<1>3. HandInv /\ ChildInv /\ IntentInv /\ DeliveryInv /\ JournalInv
  BY <1>2 DEF HandInv, ChildInv, IntentInv, DeliveryInv, JournalInv
<1>4. CommitsFollowPins /\ OneOpenIntent /\ JournalHasOwner
  BY DEF CommitsFollowPins, OneOpenIntent, JournalHasOwner
<1>5. ResolutionTruthful /\ ListedIsCommitted
  BY <1>2 DEF ResolutionTruthful, ListedIsCommitted
<1> QED
  BY <1>1, <1>3, <1>4, <1>5 DEF IInv

LEMMA IInvPreserved == IInv /\ [Next]_vars => IInv'
<1> SUFFICES ASSUME IInv, [Next]_vars PROVE IInv'
  OBVIOUS
<1>1. TypeOK'
  BY TypePreserved DEF IInv
<1>2. HandInv'
  BY <1>1, HandPreserved DEF IInv
<1>3. ChildInv' /\ IntentInv' /\ DeliveryInv' /\ JournalInv'
  BY <1>1, ChildPreserved, IntentPreserved, DeliveryPreserved, JournalPreserved
<1>4. CommitsFollowPins' /\ OneOpenIntent' /\ ResolutionTruthful'
  BY <1>1, PinsFollowed, IntentsSerialize, ResolutionsTruthful
<1>5. ListedIsCommitted' /\ JournalHasOwner'
  BY <1>1, ListingsCommitted, JournalsOwned
<1> QED
  BY <1>1, <1>2, <1>3, <1>4, <1>5 DEF IInv

\* The inductive invariant holds in every state, for every set of requests.
THEOREM IInvariant == Spec => []IInv
  BY InitIInv, IInvPreserved, PTL DEF Spec

\* Every commit extends exactly the accounts its input was validated against, and
\* no two closes extend the same ones (close_state.py:172-194).
THEOREM PinsAreFollowed == Spec => []CommitsFollowPins
<1>1. IInv => CommitsFollowPins
  BY DEF IInv
<1> QED
  BY <1>1, IInvariant, PTL

\* An attempted close blocks every other until it is resolved (close_state.py:119-125).
THEOREM OneCloseAtATime == Spec => []OneOpenIntent
<1>1. IInv => OneOpenIntent
  BY DEF IInv
<1> QED
  BY <1>1, IInvariant, PTL

\* A released close never commits, a delivered one can be read, and a commit whose
\* proof was lost stays open (close_state.py:219-235).
THEOREM ResolutionsHold == Spec => []ResolutionTruthful
<1>1. IInv => ResolutionTruthful
  BY DEF IInv
<1> QED
  BY <1>1, IInvariant, PTL

\* What readers see rests on a commit and its proof (service.py:112-140).
THEOREM ListingsRest == Spec => []ListedIsCommitted
<1>1. IInv => ListedIsCommitted
  BY DEF IInv
<1> QED
  BY <1>1, IInvariant, PTL

\* A journal that blocks the readers of a company's accounts belongs to a close an
\* operator can inspect (close_state.py:44-45, 197-202).
THEOREM JournalsHaveOwners == Spec => []JournalHasOwner
<1>1. IInv => JournalHasOwner
  BY DEF IInv
<1> QED
  BY <1>1, IInvariant, PTL

-----------------------------------------------------------------------------
(* The line of closes that the jobs of a company form (CloseLine).         *)

\* A job has drafted its close from the validation of its input to the commit
\* or to the release by an operator, after the close its version is pinned to.
After(j) == IF pin[j] = 0 THEN <<>> ELSE <<commits[pin[j]]>>
Drafting == {j \in Jobs : pin[j] >= 0 /\ j \notin Committed /\ resolution[j] # "no_commit"}
DraftOf(j) == [by |-> j, of |-> <<j>>, line |-> "accounts", after |-> After(j)]

closed == {<<j>> : j \in Committed}
last   == [l \in {"accounts"} |-> IF commits = <<>> THEN <<>> ELSE <<commits[Generation]>>]
drafts == {DraftOf(j) : j \in Drafting}

Chain == INSTANCE CloseLine WITH
  Authors <- Jobs, Lines <- {"accounts"}, Closes <- {<<j>> : j \in Jobs}, Nothing <- <<>>

\* A pin is of a generation there was.
PinsReached == \A j \in Jobs : pin[j] <= Generation

\* What a step can do to the line: pin, commit, or release.
Aside ==
  /\ UNCHANGED <<commits, pin>>
  /\ \A j \in Jobs : resolution[j] = "no_commit" /\ j \notin Committed => resolution'[j] = "no_commit"
LEMMA LineMoves ==
  ASSUME IInv, [Next]_vars
  PROVE  (\E j \in Jobs : Validate(j) \/ Commit(j)) \/ Aside
<1> USE DEF accounts, inputs, objects, output, hand, Aside
<1>1. CASE Start
  BY <1>1 DEF Start
<1>2. CASE \/ PrepareRefused \/ CreateAccounts \/ Begin \/ CopyInputs \/ Dispatch \/ Reap
           \/ ReapFailed \/ Abandon \/ Prove \/ RecordPrepared \/ SourceRefused \/ Publish
           \/ Register \/ Fails \/ SendFails
  BY <1>2 DEF PrepareRefused, CreateAccounts, Begin, CopyInputs, Dispatch, Reap, ReapFailed,
              Abandon, Prove, RecordPrepared, SourceRefused, Publish, Register, Fails, SendFails, End
<1>3. CASE Resolve \/ ResolveRecovered
  <2>1. on \in Committed /\ UNCHANGED <<commits, pin>>
    BY <1>3 DEF Resolve, ResolveRecovered, IInv, DeliveryInv
  <2>2. resolution' = [resolution EXCEPT ![on] = "delivered"]
    BY <1>3 DEF Resolve, ResolveRecovered
  <2> QED
    BY <2>1, <2>2 DEF IInv, TypeOK
<1>4. CASE Recommit \/ Restage \/ Relist \/ RecordRecovered \/ Reopen
  BY <1>4 DEF Recommit, Restage, Relist, RecordRecovered, Reopen
<1>5. ASSUME NEW j \in Jobs, Recover(j) PROVE Aside
  BY <1>5 DEF Recover
<1>6. ASSUME NEW j \in Jobs, Release(j) PROVE Aside
  BY <1>6 DEF Release, IInv, TypeOK
<1>7. ASSUME NEW j \in Jobs, AdmitCheck(j) \/ Admit(j) \/ SourceChange(j) \/ Claim(j) PROVE Aside
  BY <1>7 DEF AdmitCheck, Admit, SourceChange, Claim
<1>8. ASSUME NEW j \in Jobs,
             \/ Open(j) \/ Remember(j) \/ Stage(j) \/ ChildExit(j) \/ ChildFail(j) \/ ChildKilled(j)
      PROVE  Aside
  BY <1>8 DEF Open, Remember, Stage, ChildExit, ChildFail, ChildKilled
<1>9. CASE Interrupt \/ Crash \/ PowerLoss
  BY <1>9 DEF Interrupt, Crash, PowerLoss
<1>10. CASE UNCHANGED vars
  BY <1>10 DEF vars
<1> QED
  BY <1>1, <1>2, <1>3, <1>4, <1>5, <1>6, <1>7, <1>8, <1>9, <1>10
  DEF Next, Attempt, Operator, Intake, Calculation

LEMMA PinsStayReached ==
  ASSUME IInv, PinsReached, [Next]_vars
  PROVE  PinsReached'
<1>1. ASSUME NEW j \in Jobs, Validate(j) PROVE PinsReached'
  BY <1>1, CommitsTyped DEF Validate, ValidationCopy, accounts, PinsReached, IInv, TypeOK, Generation
<1>2. ASSUME NEW j \in Jobs, Commit(j) PROVE PinsReached'
  <2>1. Generation' = Generation + 1 /\ Generation \in Nat /\ UNCHANGED pin
    BY <1>2, CommitAppends, CommitsTyped DEF Commit, inputs, IInv
  <2> QED
    BY <2>1 DEF PinsReached, IInv, TypeOK
<1>3. ASSUME Aside PROVE PinsReached'
  BY <1>3 DEF Aside, PinsReached, Generation
<1> QED
  BY <1>1, <1>2, <1>3, LineMoves

\* A step that only releases or leaves the line alone drops the drafts of what
\* it released.
LEMMA AsideDrops ==
  ASSUME IInv, Aside
  PROVE  Chain!LineNext
<1>1. Committed' = Committed /\ Generation' = Generation
  BY DEF Aside, Committed, Generation
<1>2. closed' = closed /\ last' = last
  BY <1>1 DEF Aside, closed, last
<1>3. Drafting' \subseteq Drafting
  BY <1>1 DEF Aside, Drafting
<1>4. \A j \in Jobs : DraftOf(j)' = DraftOf(j)
  BY DEF Aside, DraftOf, After
<1>5. drafts' = drafts \ {DraftOf(j) : j \in Drafting \ Drafting'}
  <2>1. drafts' = {DraftOf(j) : j \in Drafting'}
    BY <1>4 DEF drafts, Drafting
  <2>2. \A i, j \in Jobs : DraftOf(i) = DraftOf(j) => i = j
    BY DEF DraftOf
  <2>3. Drafting \subseteq Jobs
    BY DEF Drafting
  <2> QED
    BY <1>3, <2>1, <2>2, <2>3 DEF drafts
<1>6. PICK D : D = {DraftOf(j) : j \in Drafting \ Drafting'} /\ D \in SUBSET drafts
  BY DEF drafts
<1>7. Chain!Drop(D)
  BY <1>2, <1>5, <1>6 DEF Chain!Drop
<1> QED
  BY <1>6, <1>7 DEF Chain!LineNext

\* A validated version is a draft after the last close of the accounts it was
\* validated against.
LEMMA ValidateDrafts ==
  ASSUME IInv, NEW j \in Jobs, Validate(j)
  PROVE  Chain!LineNext
<1>1. /\ UNCHANGED <<commits, resolution>> /\ pin' = [pin EXCEPT ![j] = Generation]
      /\ status[j] = "absent"
  BY DEF Validate, ValidationCopy, accounts, objects
<1>2. Committed' = Committed /\ Generation' = Generation /\ Generation \in Nat
  BY <1>1, CommitsTyped DEF Committed, Generation, IInv
<1>3. closed' = closed /\ last' = last
  BY <1>1, <1>2 DEF closed, last
<1>4. j \notin Committed /\ resolution[j] # "no_commit"
  BY <1>1 DEF IInv, ChildInv, IntentInv, Early
<1>5. pin'[j] = Generation /\ \A i \in Jobs \ {j} : pin'[i] = pin[i]
  BY <1>1 DEF IInv, TypeOK
<1>6. j \in Drafting' /\ Drafting' \ {j} = Drafting \ {j}
  BY <1>1, <1>2, <1>4, <1>5 DEF Drafting
<1>7. \A i \in Jobs \ {j} : DraftOf(i)' = DraftOf(i)
  BY <1>1, <1>5 DEF DraftOf, After
<1>8. DraftOf(j)' = [by |-> j, of |-> <<j>>, line |-> "accounts", after |-> last["accounts"]]
  <2>1. After(j)' = last["accounts"]
    <3>1. Generation = 0 <=> commits = <<>>
      BY DEF IInv, TypeOK, Generation
    <3> QED
      BY <1>1, <1>5, <3>1 DEF After, last
  <2> QED
    BY <2>1 DEF DraftOf
<1>9. drafts' = {d \in drafts : d.by # j}
                \cup {[by |-> j, of |-> <<j>>, line |-> "accounts", after |-> last["accounts"]]}
  <2>1. PICK p, S, T : p = [i \in Jobs |-> DraftOf(i)'] /\ S = Drafting /\ T = Drafting'
    OBVIOUS
  <2>2. S \subseteq Jobs /\ T \subseteq Jobs /\ j \in T /\ T \ {j} = S \ {j}
    BY <1>6, <2>1 DEF Drafting
  <2>3. drafts' = {p[i] : i \in T}
    BY <2>1, <2>2 DEF drafts
  <2>4. \A i \in S : DraftOf(i).by = i /\ (i # j => DraftOf(i) = p[i])
    BY <1>7, <2>1, <2>2 DEF DraftOf
  <2>5. drafts = {DraftOf(i) : i \in S}
    BY <2>1 DEF drafts
  <2>6. {d \in drafts : d.by # j} = {p[i] : i \in S \ {j}}
    BY <2>4, <2>5
  <2> QED
    BY <1>8, <2>1, <2>2, <2>3, <2>6
<1>10. Chain!Draft(j, <<j>>, "accounts")
  BY <1>3, <1>9 DEF Chain!Draft
<1> QED
  BY <1>10 DEF Chain!LineNext

\* A commit adds a close after the one its version was pinned to, which is the
\* last.
LEMMA CommitAdds ==
  ASSUME IInv, PinsReached, NEW j \in Jobs, Commit(j)
  PROVE  Chain!LineNext
<1>1. /\ commits' = Append(commits, j) /\ UNCHANGED <<pin, resolution>> /\ child[j] = "open"
  BY DEF Commit, Child, inputs, objects
<1>2. /\ Committed' = Committed \cup {j} /\ Generation' = Generation + 1 /\ commits' # <<>>
      /\ commits'[Generation + 1] = j /\ \A n \in 1..Generation : commits'[n] = commits[n]
      /\ Generation \in Nat /\ Committed \subseteq Jobs
  <2>1. /\ Generation' = Generation + 1 /\ Committed' = Committed \cup {j} /\ commits' # <<>>
        /\ Generation \in Nat /\ Committed \subseteq Jobs
    BY <1>1, CommitAppends, CommitsTyped DEF IInv
  <2>2. commits'[Generation + 1] = j /\ \A n \in 1..Generation : commits'[n] = commits[n]
    BY <1>1 DEF IInv, TypeOK, Generation
  <2> QED
    BY <2>1, <2>2
<1>3. pin[j] = Generation /\ j \notin Committed /\ resolution[j] = "none"
  BY <1>1 DEF IInv, ChildInv, Alive
<1>4. j \in Drafting /\ Drafting' = Drafting \ {j}
  BY <1>1, <1>2, <1>3 DEF Drafting
<1>5. \A i \in Drafting : DraftOf(i)' = DraftOf(i)
  <2> SUFFICES ASSUME NEW i \in Drafting PROVE After(i)' = After(i)
    BY DEF DraftOf
  <2>1. pin[i] = 0 \/ pin[i] \in 1..Generation
    BY <1>2 DEF Drafting, PinsReached, IInv, TypeOK
  <2> QED
    BY <1>1, <1>2, <2>1 DEF After
<1>6. closed' = closed \cup {<<j>>} /\ <<j>> \notin closed
  BY <1>2, <1>3 DEF closed
<1>7. last' = [last EXCEPT !["accounts"] = <<j>>]
  BY <1>2 DEF last
<1>8. DraftOf(j).after = last["accounts"]
  <2>1. Generation = 0 <=> commits = <<>>
    BY DEF IInv, TypeOK, Generation
  <2> QED
    BY <1>3, <2>1 DEF DraftOf, After, last
<1>9. drafts' = drafts \ {DraftOf(j)}
  <2>1. drafts' = {DraftOf(i) : i \in Drafting \ {j}}
    BY <1>4, <1>5 DEF drafts
  <2>2. \A i, k \in Jobs : DraftOf(i) = DraftOf(k) => i = k
    BY DEF DraftOf
  <2>3. Drafting \subseteq Jobs
    BY DEF Drafting
  <2> QED
    BY <2>1, <2>2, <2>3 DEF drafts
<1>10. DraftOf(j) \in drafts /\ DraftOf(j).of = <<j>> /\ DraftOf(j).line = "accounts"
  BY <1>4 DEF drafts, DraftOf
<1>11. Chain!Add(DraftOf(j))
  BY <1>6, <1>7, <1>8, <1>9, <1>10 DEF Chain!Add
<1> QED
  BY <1>10, <1>11 DEF Chain!LineNext

\* The fresh closes of a company form such a line: a close is committed only
\* after the one that was the last when its input was validated, and a job
\* whose close was released never commits one, for every number of jobs.
THEOREM FreshClosesFormALine == Spec => Chain!LineSpec
<1>1. Init => Chain!LineInit /\ PinsReached
  <2> SUFFICES ASSUME Init PROVE Chain!LineInit /\ PinsReached
    OBVIOUS
  <2>1. commits = <<>> /\ Committed = {} /\ Generation = 0 /\ \A j \in Jobs : pin[j] = -1
    BY DEF Init, Committed, Generation
  <2>2. closed = {} /\ drafts = {}
    BY <2>1 DEF closed, drafts, Drafting
  <2> QED
    BY <2>1, <2>2 DEF Chain!LineInit, last, PinsReached
<1>2. IInv /\ PinsReached /\ [Next]_vars => PinsReached'
  BY PinsStayReached
<1>3. IInv /\ PinsReached /\ [Next]_vars => [Chain!LineNext]_(Chain!line)
  <2> SUFFICES ASSUME IInv, PinsReached, [Next]_vars PROVE Chain!LineNext
    OBVIOUS
  <2> QED
    BY LineMoves, AsideDrops, ValidateDrafts, CommitAdds
<1> QED
  BY <1>1, <1>2, <1>3, IInvariant, PTL DEF Spec, Chain!LineSpec

\* What a behaviour of CloseLine looks like at any time.
LEMMA LineKeepsTypes == Chain!LineSpec => []Chain!LineTyped
<1> USE DEF Chain!LineTyped
<1>1. Chain!LineInit => Chain!LineTyped
  BY DEF Chain!LineInit
<1>2. Chain!LineTyped /\ [Chain!LineNext]_(Chain!line) => Chain!LineTyped'
  <2> SUFFICES ASSUME Chain!LineTyped, [Chain!LineNext]_(Chain!line) PROVE Chain!LineTyped'
    OBVIOUS
  <2>1. ASSUME NEW a \in Jobs, NEW c \in {<<j>> : j \in Jobs}, Chain!Draft(a, c, "accounts")
        PROVE  Chain!LineTyped'
    BY <2>1 DEF Chain!Draft
  <2>2. ASSUME NEW d \in drafts, Chain!Add(d) PROVE Chain!LineTyped'
    BY <2>2 DEF Chain!Add
  <2>3. ASSUME NEW D, Chain!Drop(D) PROVE Chain!LineTyped'
    BY <2>3 DEF Chain!Drop
  <2>4. CASE UNCHANGED Chain!line
    BY <2>4 DEF Chain!line
  <2> QED
    BY <2>1, <2>2, <2>3, <2>4 DEF Chain!LineNext
<1> QED
  BY <1>1, <1>2, PTL DEF Chain!LineSpec

\* So a job whose pin was overtaken never becomes current again, whatever is
\* released, recovered or retried.
THEOREM OvertakenJobsStay == Spec => Chain!OvertakenStay /\ Chain!NothingLost
<1>1. Chain!LineTyped /\ [Chain!LineNext]_(Chain!line)
      => [/\ \A d \in drafts \cap drafts' : d.after # last[d.line] => d.after # last'[d.line]
          /\ closed \subseteq closed']_(Chain!line)
  <2> SUFFICES ASSUME Chain!LineTyped, Chain!LineNext
               PROVE  /\ \A d \in drafts \cap drafts' :
                           d.after # last[d.line] => d.after # last'[d.line]
                      /\ closed \subseteq closed'
    OBVIOUS
  <2>1. ASSUME NEW e \in drafts, Chain!Add(e), NEW d \in drafts, d.after # last[d.line]
        PROVE  d.after # last'[d.line]
    BY <2>1 DEF Chain!LineTyped, Chain!Add
  <2> QED
    BY <2>1 DEF Chain!LineNext, Chain!Draft, Chain!Drop, Chain!Add
<1> QED
  BY <1>1, FreshClosesFormALine, LineKeepsTypes, PTL
     DEF Chain!LineSpec, Chain!OvertakenStay, Chain!NothingLost
=============================================================================
