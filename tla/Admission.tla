----------------------------- MODULE Admission -----------------------------
(***************************************************************************)
(* How a request becomes exactly one job: the browser page that owns a     *)
(* submission identity (job-client.ts), the server's request threads       *)
(* (Admission.submit, JobStore.existing and admit) and the ledger.  A      *)
(* thread looks the key up, binds the source and only then opens the write *)
(* transaction, so other threads, the worker and the operator act between  *)
(* these steps; the page gives up after 12 s while its request lives on.   *)
(***************************************************************************)
EXTENDS Integers, Sequences, FiniteSets

CONSTANTS Tabs,         \* browser pages
          Slots,        \* requests the server and its connections hold at once
          Requests,     \* request bodies (source, workflow, limit)
          MaxKeys,      \* identities the pages may mint
          MaxRetained,  \* MAX_RETAINED_JOBS
          MaxPending    \* MAX_PENDING_JOBS

ScriptKey == 0          \* an identity used by a client other than the page
PageKeys  == 1..MaxKeys
Keys      == {ScriptKey} \cup PageKeys

ASSUME AdmissionAssumption ==
  MaxKeys \in Nat /\ MaxRetained \in Nat /\ MaxPending \in Nat

VARIABLES
  jobs,       \* the ledger's rows in sequence order: key and request
  ended,      \* rows the worker has finished
  sourceOk,   \* requests whose registered source can be bound
  calls,      \* each slot: what the request there has reached, and its answer
  pending,    \* each page: what it shows of its submission
  key,        \* pendingKey, ScriptKey for null
  request,    \* the frozen request that goes with it
  access,     \* the page's bearer token: none, valid or rotated by a restart
  stale,      \* access was cleared since the request in flight was sent
  slot,       \* the slot whose answer the page awaits, 0 if none
  asked,      \* history: the request each minted identity was made for
  fate        \* history: what became of each minted identity

ledger == <<jobs, ended>>
page   == <<pending, key, request, access, stale, slot>>
past   == <<asked, fate>>
vars   == <<ledger, sourceOk, calls, page, past>>

Refusals == {"source", "capacity"}          \* responseError's table
Free     == [stage |-> "free"]
Stages   == {"sent", "unknown", "bound"}
Idle(s)  == calls[s] = Free

\* _existing: the row of a key.
Rows(k)  == {n \in DOMAIN jobs : jobs[n].key = k}
Pending  == DOMAIN jobs \ ended
\* (mutation) count > MAX instead of count >= MAX.
RoomForOneMore == Len(jobs) < MaxRetained /\ Cardinality(Pending) <= MaxPending
Room     == Len(jobs) < MaxRetained /\ Cardinality(Pending) < MaxPending

Init ==
  /\ jobs = <<>> /\ ended = {}
  /\ sourceOk = Requests
  /\ calls   = [s \in Slots |-> Free]
  /\ pending = [t \in Tabs |-> "none"] /\ key = [t \in Tabs |-> ScriptKey]
  /\ request = [t \in Tabs |-> "none"]
  /\ access = [t \in Tabs |-> "none"] /\ stale = [t \in Tabs |-> FALSE]
  /\ slot  = [t \in Tabs |-> 0]
  /\ asked = <<>> /\ fate = <<>>
----------------------------------------------------------------------------
(* The server: one request thread per occupied slot.                       *)

Reach(s, stage) == calls' = [calls EXCEPT ![s].stage = stage]
Answer(s, a, n) == calls' = [calls EXCEPT ![s].stage = "answered",
                                          ![s].answer = a, ![s].job = n]
\* _existing on a known key: the same request is replayed, another refused.
Replay(s, n) ==
  IF jobs[n].request = calls[s].request THEN Answer(s, "job", n) ELSE Answer(s, "conflict", 0)
Serve(s, stage) == calls[s].stage = stage /\ UNCHANGED <<ended, sourceOk, page, past>>

\* (mutation) The source is looked at first.
ExistingAfterSource(s) ==
  /\ Serve(s, "sent") /\ UNCHANGED jobs
  /\ \/ ~calls[s].token /\ Answer(s, "access", 0)
     \/ calls[s].token /\ calls[s].request \notin sourceOk /\ Answer(s, "source", 0)
     \/ calls[s].token /\ calls[s].request \in sourceOk /\ Reach(s, "unknown")
\* authorize, then Admission.submit: store.existing, before the source.
Existing(s) ==
  /\ Serve(s, "sent") /\ UNCHANGED jobs
  /\ \/ ~calls[s].token /\ Answer(s, "access", 0)
     \/ calls[s].token /\ Rows(calls[s].key) = {} /\ Reach(s, "unknown")
     \/ calls[s].token /\ \E n \in Rows(calls[s].key) : Replay(s, n)
\* The catalogue's run becomes the record's SourceBinding.
BindSource(s) ==
  /\ Serve(s, "unknown") /\ UNCHANGED jobs
  /\ IF calls[s].request \in sourceOk THEN Reach(s, "bound") ELSE Answer(s, "source", 0)
\* (mutation) The transaction trusts the first lookup.
AdmitUnchecked(s) ==
  /\ Serve(s, "bound")
  /\ \/ ~Room /\ Answer(s, "capacity", 0) /\ UNCHANGED jobs
     \/ /\ Room
        /\ jobs' = Append(jobs, [key |-> calls[s].key, request |-> calls[s].request])
        /\ Answer(s, "job", Len(jobs) + 1)
\* JobStore.admit, one transaction: look again, count, insert.
Admit(s) ==
  /\ Serve(s, "bound")
  /\ \/ \E n \in Rows(calls[s].key) : Replay(s, n) /\ UNCHANGED jobs
     \/ Rows(calls[s].key) = {} /\ ~Room /\ Answer(s, "capacity", 0) /\ UNCHANGED jobs
     \/ /\ Rows(calls[s].key) = {} /\ Room
        /\ jobs' = Append(jobs, [key |-> calls[s].key, request |-> calls[s].request])
        /\ Answer(s, "job", Len(jobs) + 1)
\* A held thread lock, lease or SQLite lock, an unreadable store: 503, rolled back.
Busy(s) ==
  /\ calls[s].stage \in Stages
  /\ Answer(s, "busy", 0)
  /\ UNCHANGED <<ledger, sourceOk, page, past>>
\* The answer finds nobody waiting.
Drop(s) ==
  /\ calls[s].stage = "answered" /\ \A t \in Tabs : slot[t] # s
  /\ calls' = [calls EXCEPT ![s] = Free]
  /\ UNCHANGED <<ledger, sourceOk, page, past>>
\* The server process ends with its threads; the next one has a new token.
Restart ==
  /\ calls' = [s \in Slots |-> Free]
  /\ pending' = [t \in Tabs |-> IF pending[t] = "sending" THEN "unconfirmed" ELSE pending[t]]
  /\ access' = [t \in Tabs |-> IF access[t] = "valid" THEN "rotated" ELSE access[t]]
  /\ slot' = [t \in Tabs |-> 0] /\ stale' = [t \in Tabs |-> FALSE]
  /\ UNCHANGED <<ledger, sourceOk, key, request, past>>
----------------------------------------------------------------------------
(* Everyone else.                                                          *)

WorkerEnds(n) ==
  /\ n \in Pending /\ ended' = ended \cup {n}
  /\ UNCHANGED <<jobs, sourceOk, calls, page, past>>
SourceChange(r) ==
  /\ sourceOk' = IF r \in sourceOk THEN sourceOk \ {r} ELSE sourceOk \cup {r}
  /\ UNCHANGED <<ledger, calls, page, past>>
Send(s, k, r, token) ==
  calls' = [calls EXCEPT ![s] = [stage |-> "sent", key |-> k, request |-> r, token |-> token,
                                 answer |-> "none", job |-> 0, known |-> Rows(k) # {}]]
ScriptCall(s, r) ==
  /\ Idle(s) /\ Send(s, ScriptKey, r, TRUE)
  /\ UNCHANGED <<ledger, sourceOk, page, past>>
----------------------------------------------------------------------------
(* The page.                                                               *)

Show(t, p) == pending' = [pending EXCEPT ![t] = p]
\* The page shows the submission as p and awaits no answer; or it forgets it.
Settle(t, p) ==
  /\ Show(t, p) /\ slot' = [slot EXCEPT ![t] = 0] /\ stale' = [stale EXCEPT ![t] = FALSE]
Forget(t, why) ==
  /\ Settle(t, "none")
  /\ key' = [key EXCEPT ![t] = ScriptKey] /\ request' = [request EXCEPT ![t] = "none"]
  /\ fate' = [fate EXCEPT ![key[t]] = why]
  /\ UNCHANGED asked
Keep(t, p) == Settle(t, p) /\ UNCHANGED <<key, request, past>>

\* resetAccess: what was sent before is outdated, though not aborted.
Access(t, a) ==
  /\ access' = [access EXCEPT ![t] = a]
  /\ stale' = [stale EXCEPT ![t] = pending[t] = "sending"]
\* connect resets, and succeeds with the current token.
Connect(t) ==
  /\ access[t] # "valid" /\ Access(t, "valid")
  /\ UNCHANGED <<ledger, sourceOk, calls, pending, key, request, slot, past>>
\* (mutation) Clearing access clears the submission too.
DisconnectClearing(t) ==
  /\ access[t] # "none" /\ access' = [access EXCEPT ![t] = "none"]
  /\ Keep(t, "none")
  /\ UNCHANGED <<ledger, sourceOk, calls>>
Disconnect(t) ==
  /\ access[t] # "none" /\ Access(t, "none")
  /\ UNCHANGED <<ledger, sourceOk, calls, pending, key, request, slot, past>>

\* The POST leaves, and its answer is awaited under the present access.
Post(t, s) ==
  /\ access[t] # "none" /\ Idle(s)
  /\ Show(t, "sending") /\ stale' = [stale EXCEPT ![t] = FALSE]
  /\ slot' = [slot EXCEPT ![t] = s]
  /\ UNCHANGED <<ledger, sourceOk, access>>
\* submit(value): a fresh identity is minted and frozen with its request.
Submit(t, r, s) ==
  /\ pending[t] = "none" /\ Post(t, s) /\ Len(fate) < MaxKeys
  /\ key' = [key EXCEPT ![t] = Len(fate) + 1]
  /\ request' = [request EXCEPT ![t] = r]
  /\ asked' = Append(asked, r) /\ fate' = Append(fate, "pending")
  /\ Send(s, Len(fate) + 1, r, access[t] = "valid")
\* submit(): only the frozen request, with its original identity.
Resend(t, s) ==
  /\ pending[t] \in {"unconfirmed", "refused"} /\ Post(t, s)
  /\ Send(s, key[t], request[t], access[t] = "valid")
  /\ UNCHANGED <<key, request, past>>
\* The abort timer, or a broken connection: the server does not notice.
GiveUp(t) ==
  /\ pending[t] = "sending" /\ Keep(t, "unconfirmed")
  /\ UNCHANGED <<ledger, sourceOk, calls, access>>

Arrived(t) == pending[t] = "sending" /\ calls[slot[t]].stage = "answered"
Consume(t) == calls' = [calls EXCEPT ![slot[t]] = Free] /\ UNCHANGED <<ledger, sourceOk>>
\* The job, unless access was cleared before it could be confirmed.
ReceiveJob(t) ==
  /\ Arrived(t) /\ calls[slot[t]].answer = "job"
  /\ IF stale[t] THEN Keep(t, "unconfirmed") ELSE Forget(t, "confirmed")
  /\ Consume(t) /\ UNCHANGED access
\* An error: refused for what the page knows as refusals, else unconfirmed;
\* a refused token clears the access.
ReceiveError(t) ==
  LET a == calls[slot[t]].answer IN
  /\ Arrived(t) /\ a # "job"
  /\ Keep(t, IF a \in Refusals THEN "refused" ELSE "unconfirmed")
  /\ access' = [access EXCEPT ![t] = IF a = "access" /\ ~stale[t] THEN "none" ELSE @]
  /\ Consume(t)
\* editRefused forgets the refused identity; a reload forgets any.
EditRefused(t) ==
  /\ pending[t] = "refused" /\ Forget(t, "edited")
  /\ UNCHANGED <<ledger, sourceOk, calls, access>>
Reload(t) ==
  /\ pending[t] # "none" /\ Forget(t, "reloaded")
  /\ access' = [access EXCEPT ![t] = "none"]
  /\ UNCHANGED <<ledger, sourceOk, calls>>
----------------------------------------------------------------------------
Server == \/ Restart
          \/ \E s \in Slots : Existing(s) \/ BindSource(s) \/ Admit(s) \/ Busy(s) \/ Drop(s)
Others == \/ \E n \in DOMAIN jobs : WorkerEnds(n)
          \/ \E r \in Requests : SourceChange(r) \/ \E s \in Slots : ScriptCall(s, r)
Page(t) == \/ Connect(t) \/ Disconnect(t) \/ GiveUp(t) \/ ReceiveJob(t) \/ ReceiveError(t)
           \/ EditRefused(t) \/ Reload(t)
           \/ \E s \in Slots : Resend(t, s) \/ \E r \in Requests : Submit(t, r, s)

Next == Server \/ Others \/ \E t \in Tabs : Page(t)
Spec == Init /\ [][Next]_vars
----------------------------------------------------------------------------
\* An identity names one job: whichever threads overtake one another,
\* "Repeated submissions with this identity do not create another job"
\* (ExecutionWorkspace.tsx:60), and no answer shows a client a job that another
\* request made under its key (job_store.py:229-236).
IdentityNamesOneJob ==
  /\ \A m, n \in DOMAIN jobs : jobs[m].key = jobs[n].key => m = n
  /\ \A s \in Slots : calls[s].stage = "answered" /\ calls[s].answer = "job" =>
       jobs[calls[s].job] = [key |-> calls[s].key, request |-> calls[s].request]

\* The two ceilings hold under concurrent submissions (job_store.py:245-248).
CapacityHeld == Len(jobs) <= MaxRetained /\ Cardinality(Pending) <= MaxPending

\* A retry finds its job: repeating an admitted request is refused neither for
\* a source that has changed since nor for a full ledger (jobs.py:123-126), and
\* the page never meets a conflict about an identity it minted, because a key
\* stays with its request through edits, resends and reconnections.
RetryFindsJob ==
  \A s \in Slots : calls[s].stage = "answered" =>
    /\ calls[s].known => calls[s].answer \notin Refusals
    /\ calls[s].answer = "conflict" => calls[s].key = ScriptKey

\* The page's account of an identity is true: while it is pending some page
\* holds the key with the request that goes with it, so that a lost answer can
\* be recovered (job-client.ts:147-150); and one the page stops showing without
\* an edit or a reload was admitted, as it was asked.
IdentityKept ==
  \A k \in DOMAIN fate :
    /\ fate[k] = "pending" =>
         \E t \in Tabs : pending[t] # "none" /\ key[t] = k /\ request[t] = asked[k]
    /\ fate[k] = "confirmed" => \E n \in Rows(k) : jobs[n].request = asked[k]

\* "Request refused before admission" (ExecutionWorkspace.tsx:57).
RefusedBeforeAdmission ==
  \A t \in Tabs : pending[t] = "refused" => Rows(key[t]) = {}
=============================================================================
