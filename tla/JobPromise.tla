----------------------------- MODULE JobPromise ----------------------------
(***************************************************************************)
(* What a workspace promises about a submitted job, without processes,     *)
(* locks or files: it waits, is attempted at most once and alone, and ends *)
(* refused, failed, held for an operator, or delivered; readers see its    *)
(* run exactly when it was attempted and not given up.                     *)
(***************************************************************************)
CONSTANTS Jobs,     \* every job that may be submitted
          Earlier   \* jobs an older ledger was put back with

VARIABLES phase,    \* what the operator is told of each job
          visible   \* jobs whose run the catalogue shows

Phases == {"none", "waiting", "attempting", "held", "closed", "delivered"}

PromiseInit ==
  /\ phase = [j \in Jobs |-> IF j \in Earlier THEN "waiting" ELSE "none"]
  /\ visible \in SUBSET Earlier

Become(j, p) == phase' = [phase EXCEPT ![j] = p]

Admit(j) == phase[j] = "none" /\ Become(j, "waiting") /\ UNCHANGED visible

\* One attempt at a time, and never a second one.
Attempt(j) ==
  /\ phase[j] = "waiting" /\ \A i \in Jobs : phase[i] # "attempting"
  /\ Become(j, "attempting") /\ UNCHANGED visible

Publish(j) ==
  /\ phase[j] \in {"attempting", "held"}
  /\ visible' = visible \cup {j} /\ UNCHANGED phase

Deliver(j) ==
  /\ phase[j] \in {"attempting", "held"} /\ j \in visible
  /\ Become(j, "delivered") /\ UNCHANGED visible

\* Interrupted or undeliverable: an operator may still complete it.
Hold(j) == phase[j] = "attempting" /\ Become(j, "held") /\ UNCHANGED visible

\* A job is given up only while no run of its own attempt is visible.
Close(j) ==
  /\ phase[j] = "attempting" /\ (j \in visible => j \in Earlier)
  /\ Become(j, "closed") /\ UNCHANGED visible

PromiseNext == \E j \in Jobs : \/ Admit(j) \/ Attempt(j) \/ Publish(j)
                               \/ Deliver(j) \/ Hold(j) \/ Close(j)

PromiseSpec == PromiseInit /\ [][PromiseNext]_<<phase, visible>>

\* What a client may conclude: a delivered job has a visible run, and a job
\* that was given up shows none.
PromiseKept ==
  \A j \in Jobs \ Earlier : /\ phase[j] = "delivered" => j \in visible
                            /\ phase[j] \in {"none", "waiting", "closed"} => j \notin visible
=============================================================================
