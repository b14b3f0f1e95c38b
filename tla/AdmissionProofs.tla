-------------------------- MODULE AdmissionProofs --------------------------
(***************************************************************************)
(* Proofs about Admission for every number of pages, request threads and   *)
(* requests and for every ceiling.  IInv is the inductive invariant: what  *)
(* travels under an identity, whose answer a page awaits, and what a first *)
(* lookup is still worth.                                                  *)
(***************************************************************************)
EXTENDS Admission, FiniteSetTheorems, SequenceTheorems, TLAPS

Row      == [key : Keys, request : Requests]
Answers  == Refusals \cup {"none", "job", "conflict", "access", "busy"}
Call     == [stage : Stages \cup {"answered"}, key : Keys, request : Requests,
             token : BOOLEAN, answer : Answers, job : Nat, known : BOOLEAN]
Fates    == {"pending", "confirmed", "edited", "reloaded"}
Occupied == {s \in Slots : calls[s] # Free}

TypeOK ==
  /\ jobs \in Seq(Row) /\ ended \subseteq DOMAIN jobs /\ sourceOk \subseteq Requests
  /\ calls \in [Slots -> {Free} \cup Call]
  /\ pending \in [Tabs -> {"none", "sending", "unconfirmed", "refused"}]
  /\ key \in [Tabs -> Keys] /\ request \in [Tabs -> Requests \cup {"none"}]
  /\ access \in [Tabs -> {"none", "valid", "rotated"}] /\ stale \in [Tabs -> BOOLEAN]
  /\ slot \in [Tabs -> Slots \cup {0}]
  /\ asked \in Seq(Requests) /\ fate \in Seq(Fates)
  /\ Len(asked) = Len(fate) /\ Len(fate) <= MaxKeys

\* Under an identity a page has minted only the request it was minted for is
\* shown, sent and admitted.
GoesWith(k, r) == k \in DOMAIN fate /\ r = asked[k]
AskedInv ==
  /\ \A t \in Tabs : pending[t] # "none" => GoesWith(key[t], request[t])
  /\ \A s \in Occupied : calls[s].key # ScriptKey => GoesWith(calls[s].key, calls[s].request)
  /\ \A n \in DOMAIN jobs : jobs[n].key # ScriptKey => GoesWith(jobs[n].key, jobs[n].request)

\* The answer a page awaits is that of its own request, and no other page's.
AwaitInv ==
  /\ \A t \in Tabs : pending[t] = "sending" =>
       slot[t] \in Occupied /\ calls[slot[t]].key = key[t]
  /\ \A t, u \in Tabs : pending[t] = "sending" /\ pending[u] = "sending" /\ slot[t] = slot[u] =>
       t = u

\* A request whose key was admitted before it was sent does not get past the
\* first lookup, and the job an answer names is in the ledger.
LookupInv ==
  \A s \in Occupied :
    /\ calls[s].known => Rows(calls[s].key) # {}
    /\ calls[s].stage \in {"unknown", "bound"} => ~calls[s].known
    /\ calls[s].stage = "answered" /\ calls[s].answer = "job" => calls[s].job \in DOMAIN jobs

IInv ==
  /\ TypeOK /\ AskedInv /\ AwaitInv /\ LookupInv
  /\ IdentityNamesOneJob /\ CapacityHeld /\ RetryFindsJob /\ IdentityKept

\* A request thread is occupied exactly while its slot holds a request.
LEMMA OccupiedCall ==
  ASSUME TypeOK, NEW s \in Slots
  PROVE  /\ s \in Occupied <=> calls[s] \in Call
         /\ s \in Occupied <=> calls[s].stage # "free"
         /\ s \notin Occupied <=> calls[s] = Free
BY DEF TypeOK, Occupied, Free, Call, Stages

\* Answering a request changes its stage, its answer and the job it names.
LEMMA AnswerEffect ==
  ASSUME TypeOK, NEW s \in Slots, s \in Occupied, NEW a \in Answers, NEW n \in Nat,
         Answer(s, a, n)
  PROVE  /\ calls' \in [Slots -> {Free} \cup Call]
         /\ Occupied' = Occupied
         /\ \A u \in Slots \ {s} : calls'[u] = calls[u]
         /\ calls'[s].stage = "answered" /\ calls'[s].answer = a /\ calls'[s].job = n
         /\ calls'[s].key = calls[s].key /\ calls'[s].request = calls[s].request
         /\ calls'[s].known = calls[s].known
<1>1. calls[s] \in Call
  BY OccupiedCall
<1>2. calls'[s] = [calls[s] EXCEPT !.stage = "answered", !.answer = a, !.job = n]
  BY <1>1 DEF Answer, TypeOK
<1>3. calls'[s] \in Call /\ calls'[s] # Free
  BY <1>1, <1>2 DEF Call, Free
<1>4. \A u \in Slots \ {s} : calls'[u] = calls[u]
  BY DEF Answer, TypeOK
<1>5. calls' \in [Slots -> {Free} \cup Call]
  BY <1>3, <1>4 DEF Answer, TypeOK
<1>6. Occupied' = Occupied
  BY <1>3, <1>4 DEF Occupied
<1> QED
  BY <1>1, <1>2, <1>4, <1>5, <1>6 DEF Call

\* Reaching a stage changes nothing else of the request.
LEMMA ReachEffect ==
  ASSUME TypeOK, NEW s \in Slots, s \in Occupied, NEW g \in Stages, Reach(s, g)
  PROVE  /\ calls' \in [Slots -> {Free} \cup Call]
         /\ Occupied' = Occupied
         /\ \A u \in Slots \ {s} : calls'[u] = calls[u]
         /\ calls'[s].stage = g /\ calls'[s].answer = calls[s].answer
         /\ calls'[s].key = calls[s].key /\ calls'[s].request = calls[s].request
         /\ calls'[s].known = calls[s].known
<1>1. calls[s] \in Call
  BY OccupiedCall
<1>2. calls'[s] = [calls[s] EXCEPT !.stage = g]
  BY <1>1 DEF Reach, TypeOK
<1>3. calls'[s] \in Call /\ calls'[s] # Free
  BY <1>1, <1>2 DEF Call, Free
<1>4. \A u \in Slots \ {s} : calls'[u] = calls[u]
  BY DEF Reach, TypeOK
<1>5. calls' \in [Slots -> {Free} \cup Call]
  BY <1>3, <1>4 DEF Reach, TypeOK
<1>6. Occupied' = Occupied
  BY <1>3, <1>4 DEF Occupied
<1> QED
  BY <1>1, <1>2, <1>4, <1>5, <1>6 DEF Call

\* A request that is sent occupies a free slot.
LEMMA SendEffect ==
  ASSUME TypeOK, NEW s \in Slots, NEW k \in Keys, NEW r \in Requests, NEW b \in BOOLEAN,
         Send(s, k, r, b)
  PROVE  /\ calls' \in [Slots -> {Free} \cup Call]
         /\ Occupied' = Occupied \cup {s}
         /\ \A u \in Slots \ {s} : calls'[u] = calls[u]
         /\ calls'[s].stage = "sent" /\ calls'[s].key = k /\ calls'[s].request = r
         /\ calls'[s].known = (Rows(k) # {})
<1> DEFINE c == [stage |-> "sent", key |-> k, request |-> r, token |-> b,
                 answer |-> "none", job |-> 0, known |-> Rows(k) # {}]
<1>1. calls'[s] = c /\ \A u \in Slots \ {s} : calls'[u] = calls[u]
  BY DEF Send, TypeOK
<1>2. c \in Call /\ c # Free
  BY DEF Call, Free, Stages, Answers, Refusals
<1>3. calls' \in [Slots -> {Free} \cup Call]
  BY <1>1, <1>2 DEF Send, TypeOK
<1>4. Occupied' = Occupied \cup {s}
  BY <1>1, <1>2 DEF Occupied
<1>5. calls'[s].known = (Rows(k) # {})
  BY <1>1
<1> QED
  BY <1>1, <1>3, <1>4, <1>5

\* Freeing a slot leaves the other requests as they are.
LEMMA FreeEffect ==
  ASSUME TypeOK, NEW s \in Slots, calls' = [calls EXCEPT ![s] = Free]
  PROVE  /\ calls' \in [Slots -> {Free} \cup Call]
         /\ Occupied' = Occupied \ {s}
         /\ \A u \in Slots \ {s} : calls'[u] = calls[u]
BY DEF TypeOK, Occupied

\* The ledger only grows: a row stays what and where it is.
LEMMA RowAppends ==
  ASSUME TypeOK, NEW r \in Row, jobs' = Append(jobs, r)
  PROVE  /\ jobs' \in Seq(Row) /\ Len(jobs) \in Nat /\ Len(jobs') = Len(jobs) + 1
         /\ DOMAIN jobs = 1..Len(jobs) /\ DOMAIN jobs' = 1..(Len(jobs) + 1)
         /\ jobs'[Len(jobs) + 1] = r
         /\ \A n \in 1..Len(jobs) : jobs'[n] = jobs[n]
BY DEF TypeOK

\* What any step of a request thread may do: it answers or goes on, admits at
\* most its own request where the key is unknown, and refuses only then.
Serving(s) ==
  /\ s \in Occupied /\ UNCHANGED <<ended, sourceOk, page, past>>
  /\ calls' \in [Slots -> {Free} \cup Call] /\ Occupied' = Occupied
  /\ \A u \in Slots \ {s} : calls'[u] = calls[u]
  /\ calls'[s].key = calls[s].key /\ calls'[s].request = calls[s].request
  /\ calls'[s].known = calls[s].known
  /\ \/ jobs' = jobs
     \/ /\ Rows(calls[s].key) = {} /\ Room
        /\ jobs' = Append(jobs, [key |-> calls[s].key, request |-> calls[s].request])
  /\ calls'[s].stage \in {"unknown", "bound"} =>
       Rows(calls[s].key) = {} \/ calls[s].stage \in {"unknown", "bound"}
  /\ calls'[s].stage = "answered" /\ calls'[s].answer = "job" =>
       /\ calls'[s].job \in DOMAIN jobs'
       /\ jobs'[calls'[s].job] = [key |-> calls[s].key, request |-> calls[s].request]
  /\ calls'[s].stage = "answered" /\ calls'[s].answer \in Refusals =>
       Rows(calls[s].key) = {} \/ calls[s].stage \in {"unknown", "bound"}
  /\ calls'[s].stage = "answered" /\ calls'[s].answer = "conflict" =>
       \E n \in Rows(calls[s].key) : jobs[n].request # calls[s].request

\* A row found under the key is the request's own or another's.
LEMMA ReplayServes ==
  ASSUME TypeOK, NEW s \in Slots, s \in Occupied, NEW n \in Rows(calls[s].key), Replay(s, n),
         UNCHANGED <<jobs, ended, sourceOk, page, past>>
  PROVE  Serving(s)
<1>1. n \in DOMAIN jobs /\ jobs[n] \in Row /\ jobs[n].key = calls[s].key /\ n \in Nat
  BY DEF Rows, TypeOK
<1>2. CASE jobs[n].request = calls[s].request
  <2>1. Answer(s, "job", n)
    BY <1>2 DEF Replay
  <2>2. jobs[n] = [key |-> calls[s].key, request |-> calls[s].request]
    BY <1>1, <1>2 DEF Row
  <2> QED
    BY <1>1, <2>1, <2>2, AnswerEffect DEF Serving, Answers, Refusals
<1>3. CASE jobs[n].request # calls[s].request
  <2>1. Answer(s, "conflict", 0)
    BY <1>3 DEF Replay
  <2> QED
    BY <1>1, <1>3, <2>1, AnswerEffect DEF Serving, Answers, Refusals
<1> QED
  BY <1>2, <1>3

\* Every step of a request thread is of that kind.
LEMMA ThreadServes ==
  ASSUME TypeOK, NEW s \in Slots, Existing(s) \/ BindSource(s) \/ Admit(s) \/ Busy(s)
  PROVE  Serving(s)
<1>1. CASE Existing(s)
  <2>1. s \in Occupied /\ calls[s].stage = "sent" /\ UNCHANGED <<jobs, ended, sourceOk, page, past>>
    BY <1>1, OccupiedCall DEF Existing, Serve
  <2>2. CASE Answer(s, "access", 0)
    BY <2>1, <2>2, AnswerEffect DEF Serving, Answers, Refusals
  <2>3. CASE Rows(calls[s].key) = {} /\ Reach(s, "unknown")
    BY <2>1, <2>3, ReachEffect DEF Serving, Stages
  <2>4. CASE \E n \in Rows(calls[s].key) : Replay(s, n)
    BY <2>1, <2>4, ReplayServes
  <2> QED
    BY <1>1, <2>2, <2>3, <2>4 DEF Existing
<1>2. CASE BindSource(s)
  <2>1. s \in Occupied /\ calls[s].stage = "unknown" /\ UNCHANGED <<jobs, ended, sourceOk, page, past>>
    BY <1>2, OccupiedCall DEF BindSource, Serve
  <2>2. CASE Reach(s, "bound")
    BY <2>1, <2>2, ReachEffect DEF Serving, Stages
  <2>3. CASE Answer(s, "source", 0)
    BY <2>1, <2>3, AnswerEffect DEF Serving, Answers, Refusals
  <2> QED
    BY <1>2, <2>2, <2>3 DEF BindSource
<1>3. CASE Admit(s)
  <2>1. s \in Occupied /\ calls[s].stage = "bound" /\ UNCHANGED <<ended, sourceOk, page, past>>
    BY <1>3, OccupiedCall DEF Admit, Serve
  <2>2. CASE \E n \in Rows(calls[s].key) : Replay(s, n) /\ UNCHANGED jobs
    BY <2>1, <2>2, ReplayServes
  <2>3. CASE Rows(calls[s].key) = {} /\ Answer(s, "capacity", 0) /\ UNCHANGED jobs
    BY <2>1, <2>3, AnswerEffect DEF Serving, Answers, Refusals
  <2>4. CASE /\ Rows(calls[s].key) = {} /\ Room
             /\ jobs' = Append(jobs, [key |-> calls[s].key, request |-> calls[s].request])
             /\ Answer(s, "job", Len(jobs) + 1)
    <3> DEFINE r == [key |-> calls[s].key, request |-> calls[s].request]
    <3>1. calls[s] \in Call
      BY <2>1, OccupiedCall
    <3>2. r \in Row
      BY <3>1 DEF Row, Call
    <3>3. Len(jobs) + 1 \in DOMAIN jobs' /\ jobs'[Len(jobs) + 1] = r /\ Len(jobs) + 1 \in Nat
      BY <2>4, <3>2, RowAppends
    <3> QED
      BY <2>1, <2>4, <3>3, AnswerEffect DEF Serving, Answers, Refusals
  <2> QED
    BY <1>3, <2>2, <2>3, <2>4 DEF Admit
<1>4. CASE Busy(s)
  <2>1. s \in Occupied /\ UNCHANGED <<jobs, ended, sourceOk, page, past>>
    BY <1>4, OccupiedCall DEF Busy, Stages, ledger
  <2> QED
    BY <1>4, <2>1, AnswerEffect DEF Busy, Serving, Answers, Refusals
<1> QED
  BY <1>1, <1>2, <1>3, <1>4

\* A page that forgets a submission gives up its identity and nobody else's.
Forgets(t, why) ==
  /\ pending' \in [Tabs -> {"none", "sending", "unconfirmed", "refused"}]
  /\ slot' \in [Tabs -> Slots \cup {0}] /\ stale' \in [Tabs -> BOOLEAN]
  /\ key' \in [Tabs -> Keys] /\ request' \in [Tabs -> Requests \cup {"none"}]
  /\ fate' \in Seq(Fates) /\ Len(fate') = Len(fate) /\ DOMAIN fate' = DOMAIN fate
  /\ key[t] \in DOMAIN fate /\ fate'[key[t]] = why
  /\ \A k \in DOMAIN fate : k # key[t] => fate'[k] = fate[k]
  /\ asked' = asked
  /\ pending'[t] = "none"
  /\ \A u \in Tabs \ {t} : pending'[u] = pending[u] /\ slot'[u] = slot[u]
                           /\ key'[u] = key[u] /\ request'[u] = request[u]
LEMMA ForgetEffect ==
  ASSUME TypeOK, AskedInv, NEW t \in Tabs, pending[t] # "none", NEW why \in Fates, Forget(t, why)
  PROVE  Forgets(t, why)
<1> USE DEF Forget, Settle, Show
<1>1. key[t] \in 1..Len(fate) /\ DOMAIN fate = 1..Len(fate)
  BY DEF AskedInv, GoesWith, TypeOK
<1>2. /\ fate' \in Seq(Fates) /\ Len(fate') = Len(fate)
      /\ \A k \in 1..Len(fate) : fate'[k] = IF k = key[t] THEN why ELSE fate[k]
  BY <1>1, ExceptSeq DEF TypeOK
<1>3. stale' \in [Tabs -> BOOLEAN]
  BY DEF TypeOK
<1>4. slot' \in [Tabs -> Slots \cup {0}]
  BY DEF TypeOK
<1>5. pending' \in [Tabs -> {"none", "sending", "unconfirmed", "refused"}]
  BY DEF TypeOK
<1>6. key' \in [Tabs -> Keys] /\ request' \in [Tabs -> Requests \cup {"none"}]
  BY DEF TypeOK, Keys
<1>7. \A u \in Tabs \ {t} : pending'[u] = pending[u] /\ slot'[u] = slot[u]
                            /\ key'[u] = key[u] /\ request'[u] = request[u]
  BY DEF TypeOK
<1>8. DOMAIN fate' = 1..Len(fate')
  BY <1>2
<1> QED
  BY <1>1, <1>2, <1>3, <1>4, <1>5, <1>6, <1>7, <1>8 DEF Forgets, TypeOK

\* Minting an identity leaves the earlier ones and what they were made for.
LEMMA MintEffect ==
  ASSUME TypeOK, NEW r \in Requests, Len(fate) < MaxKeys,
         asked' = Append(asked, r), fate' = Append(fate, "pending")
  PROVE  /\ Len(fate) \in Nat /\ Len(fate) + 1 \in PageKeys /\ Len(fate) + 1 # ScriptKey
         /\ asked' \in Seq(Requests) /\ fate' \in Seq(Fates)
         /\ Len(asked') = Len(fate) + 1 /\ Len(fate') = Len(fate) + 1
         /\ DOMAIN fate = 1..Len(fate) /\ DOMAIN fate' = 1..(Len(fate) + 1)
         /\ asked'[Len(fate) + 1] = r /\ fate'[Len(fate) + 1] = "pending"
         /\ \A k \in 1..Len(fate) : asked'[k] = asked[k] /\ fate'[k] = fate[k]
<1> USE AdmissionAssumption DEF TypeOK, PageKeys, ScriptKey
<1>1. Len(fate) \in Nat /\ Len(asked) = Len(fate) /\ "pending" \in Fates
  BY DEF Fates
<1>2. asked' \in Seq(Requests) /\ Len(asked') = Len(fate) + 1 /\ asked'[Len(fate) + 1] = r
  BY <1>1
<1>3. fate' \in Seq(Fates) /\ Len(fate') = Len(fate) + 1 /\ fate'[Len(fate) + 1] = "pending"
  BY <1>1
<1>4. \A k \in 1..Len(fate) : asked'[k] = asked[k] /\ fate'[k] = fate[k]
  BY <1>1
<1> QED
  BY <1>1, <1>2, <1>3, <1>4

\* Rows stay where they are; a request thread appends its own request at most.
LEMMA ServingRows ==
  ASSUME TypeOK, NEW s \in Slots, Serving(s)
  PROVE  /\ calls[s] \in Call /\ calls'[s] \in Call
         /\ \A n \in DOMAIN jobs : n \in DOMAIN jobs' /\ jobs'[n] = jobs[n]
         /\ \A n \in DOMAIN jobs' \ DOMAIN jobs :
              /\ n = Len(jobs) + 1 /\ Rows(calls[s].key) = {}
              /\ jobs'[n].key = calls[s].key /\ jobs'[n].request = calls[s].request
<1>1. calls[s] \in Call /\ calls'[s] \in Call
  BY OccupiedCall DEF Serving, Occupied
<1>2. CASE jobs' = jobs
  BY <1>1, <1>2
<1>3. CASE /\ Rows(calls[s].key) = {} /\ Room
           /\ jobs' = Append(jobs, [key |-> calls[s].key, request |-> calls[s].request])
  <2>1. [key |-> calls[s].key, request |-> calls[s].request] \in Row
    BY <1>1 DEF Call, Row
  <2> QED
    BY <1>1, <1>3, <2>1, RowAppends
<1> QED
  BY <1>2, <1>3 DEF Serving

\* A page that receives a job forgets its identity, unless its access is outdated.
LEMMA JobReceived ==
  ASSUME TypeOK, AskedInv, AwaitInv, NEW t \in Tabs, ReceiveJob(t)
  PROVE  /\ pending[t] = "sending" /\ slot[t] \in Occupied /\ slot[t] \in Slots
         /\ calls[slot[t]].stage = "answered" /\ calls[slot[t]].answer = "job"
         /\ calls' = [calls EXCEPT ![slot[t]] = Free]
         /\ UNCHANGED <<ledger, sourceOk, access>>
         /\ Keep(t, "unconfirmed") \/ Forgets(t, "confirmed")
<1>1. pending[t] = "sending" /\ slot[t] \in Occupied /\ slot[t] \in Slots
  BY DEF ReceiveJob, Arrived, AwaitInv, Occupied
<1>2. Forget(t, "confirmed") => Forgets(t, "confirmed")
  BY <1>1, ForgetEffect DEF Fates
<1> QED
  BY <1>1, <1>2 DEF ReceiveJob, Arrived, Consume

\* Editing or reloading forgets an identity, whatever its request is doing.
LEMMA IdentityForgotten ==
  ASSUME TypeOK, AskedInv, NEW t \in Tabs, EditRefused(t) \/ Reload(t)
  PROVE  /\ pending[t] # "none" /\ UNCHANGED <<ledger, sourceOk, calls>>
         /\ Forgets(t, "edited") \/ Forgets(t, "reloaded")
<1>1. pending[t] # "none" /\ UNCHANGED <<ledger, sourceOk, calls>>
  BY DEF EditRefused, Reload
<1>2. Forget(t, "edited") => Forgets(t, "edited")
  BY <1>1, ForgetEffect DEF Fates
<1>3. Forget(t, "reloaded") => Forgets(t, "reloaded")
  BY <1>1, ForgetEffect DEF Fates
<1> QED
  BY <1>1, <1>2, <1>3 DEF EditRefused, Reload

\* No step leaves the types.
LEMMA TypePreserved ==
  ASSUME TypeOK, AskedInv, AwaitInv, [Next]_vars
  PROVE  TypeOK'
<1> USE AdmissionAssumption DEF ledger, page, past
<1> USE DEF TypeOK
<1>1. ASSUME NEW s \in Slots, Serving(s) PROVE TypeOK'
  <2>1. calls[s] \in Call
    BY <1>1, OccupiedCall DEF Serving
  <2>2. jobs' \in Seq(Row) /\ DOMAIN jobs \subseteq DOMAIN jobs'
    <3>1. CASE jobs' = jobs
      BY <3>1
    <3>2. CASE jobs' = Append(jobs, [key |-> calls[s].key, request |-> calls[s].request])
      <4>1. [key |-> calls[s].key, request |-> calls[s].request] \in Row
        BY <2>1 DEF Call, Row
      <4> QED
        BY <3>2, <4>1, RowAppends
    <3> QED
      BY <1>1, <3>1, <3>2 DEF Serving
  <2> QED
    BY <1>1, <2>2 DEF Serving
<1>2. ASSUME NEW s \in Slots, Drop(s) PROVE TypeOK'
  BY <1>2, FreeEffect
  DEF Drop
<1>3. CASE Restart
  BY <1>3
  DEF Restart
<1>4. ASSUME NEW n \in DOMAIN jobs, WorkerEnds(n) PROVE TypeOK'
  BY <1>4
  DEF WorkerEnds
<1>5. ASSUME NEW r \in Requests, SourceChange(r) PROVE TypeOK'
  BY <1>5
  DEF SourceChange
<1>6. ASSUME NEW s \in Slots, NEW r \in Requests, ScriptCall(s, r) PROVE TypeOK'
  BY <1>6, SendEffect
  DEF ScriptCall, Idle, Keys
<1>7. ASSUME NEW t \in Tabs, Connect(t) PROVE TypeOK'
  BY <1>7
  DEF Connect, Access
<1>8. ASSUME NEW t \in Tabs, Disconnect(t) PROVE TypeOK'
  BY <1>8
  DEF Disconnect, Access
<1>9. ASSUME NEW t \in Tabs, GiveUp(t) PROVE TypeOK'
  BY <1>9
  DEF GiveUp, Keep, Settle, Show
<1>10. ASSUME NEW t \in Tabs, ReceiveJob(t) PROVE TypeOK'
  <2>1. pending[t] = "sending" /\ slot[t] \in Slots
    BY <1>10 DEF ReceiveJob, Arrived, AwaitInv, Occupied
  <2>2. calls' \in [Slots -> {Free} \cup Call]
    BY <1>10, <2>1, FreeEffect DEF ReceiveJob, Consume
  <2>3. CASE Forget(t, "confirmed")
    <3>1. "confirmed" \in Fates
      BY DEF Fates
    <3>2. Forgets(t, "confirmed")
      BY <2>1, <2>3, <3>1, ForgetEffect
    <3> QED
      BY <1>10, <2>2, <3>2 DEF ReceiveJob, Consume, Forgets
  <2>4. CASE Keep(t, "unconfirmed")
    BY <1>10, <2>1, <2>2, <2>4 DEF ReceiveJob, Consume, Keep, Settle, Show
  <2> QED
    BY <1>10, <2>3, <2>4 DEF ReceiveJob
<1>11. ASSUME NEW t \in Tabs, ReceiveError(t) PROVE TypeOK'
  BY <1>11, FreeEffect
  DEF ReceiveError, Arrived, Consume, Keep, Settle, Show
<1>12. ASSUME NEW t \in Tabs, EditRefused(t) PROVE TypeOK'
  <2>1. pending[t] # "none" /\ "edited" \in Fates /\ Forget(t, "edited")
    BY <1>12 DEF EditRefused, Fates
  <2>2. Forgets(t, "edited")
    BY <2>1, ForgetEffect
  <2> QED
    BY <1>12, <2>2 DEF EditRefused, Forgets
<1>13. ASSUME NEW t \in Tabs, Reload(t) PROVE TypeOK'
  <2>1. pending[t] # "none" /\ "reloaded" \in Fates /\ Forget(t, "reloaded")
    BY <1>13 DEF Reload, Fates
  <2>2. Forgets(t, "reloaded")
    BY <2>1, ForgetEffect
  <2> QED
    BY <1>13, <2>2 DEF Reload, Forgets
<1>14. ASSUME NEW t \in Tabs, NEW s \in Slots, Resend(t, s) PROVE TypeOK'
  <2>1. key[t] \in Keys /\ request[t] \in Requests /\ (access[t] = "valid") \in BOOLEAN
    BY <1>14 DEF Resend, AskedInv, GoesWith
  <2>2. calls' \in [Slots -> {Free} \cup Call]
    BY <1>14, <2>1, SendEffect DEF Resend
  <2>3. stale' \in [Tabs -> BOOLEAN]
    BY <1>14 DEF Resend, Post
  <2> QED
    BY <1>14, <2>2, <2>3 DEF Resend, Post, Show
<1>15. ASSUME NEW t \in Tabs, NEW r \in Requests, NEW s \in Slots, Submit(t, r, s) PROVE TypeOK'
  <2>1. Len(fate) + 1 \in Keys /\ (access[t] = "valid") \in BOOLEAN
    BY <1>15, MintEffect DEF Submit, Keys
  <2>2. calls' \in [Slots -> {Free} \cup Call]
    BY <1>15, <2>1, SendEffect DEF Submit
  <2>3. stale' \in [Tabs -> BOOLEAN]
    BY <1>15 DEF Submit, Post
  <2>4. key' \in [Tabs -> Keys] /\ request' \in [Tabs -> Requests \cup {"none"}]
    BY <1>15, <2>1 DEF Submit
  <2>5. pending' \in [Tabs -> {"none", "sending", "unconfirmed", "refused"}]
        /\ slot' \in [Tabs -> Slots \cup {0}]
    BY <1>15 DEF Submit, Post, Show
  <2>6. /\ asked' \in Seq(Requests) /\ fate' \in Seq(Fates)
        /\ Len(asked') = Len(fate') /\ Len(fate') <= MaxKeys
    BY <1>15, MintEffect DEF Submit
  <2> QED
    BY <1>15, <2>2, <2>3, <2>4, <2>5, <2>6 DEF Submit, Post
<1>16. CASE UNCHANGED vars
  BY <1>16 DEF vars
<1> QED
  BY ThreadServes, <1>1, <1>2, <1>3, <1>4, <1>5, <1>6, <1>7, <1>8, <1>9, <1>10, <1>11, <1>12,
      <1>13, <1>14, <1>15, <1>16
  DEF Next, Server, Others, Page

\* The three ways the requests in the server change.
Clearing ==
  /\ UNCHANGED jobs /\ Occupied' \subseteq Occupied
  /\ \A u \in Occupied' : calls'[u] = calls[u]
Sending(s, k, r) ==
  /\ UNCHANGED jobs /\ s \notin Occupied /\ Occupied' = Occupied \cup {s}
  /\ \A u \in Occupied : calls'[u] = calls[u]
  /\ calls'[s].stage = "sent" /\ calls'[s].key = k /\ calls'[s].request = r
  /\ calls'[s].known = (Rows(k) # {})
  /\ k # ScriptKey => k \in DOMAIN fate' /\ r = asked'[k]

\* What an identity was minted for is never forgotten.
LEMMA PastGrows ==
  ASSUME TypeOK, AskedInv, AwaitInv, [Next]_vars
  PROVE  /\ DOMAIN fate \subseteq DOMAIN fate'
         /\ \A k \in DOMAIN fate : asked'[k] = asked[k]
         /\ \A k, r : GoesWith(k, r) => GoesWith(k, r)'
<1> DEFINE Grows == DOMAIN fate \subseteq DOMAIN fate' /\ \A k \in DOMAIN fate : asked'[k] = asked[k]
<1> SUFFICES Grows
  BY DEF GoesWith
<1> USE DEF page, past
<1>1. ASSUME NEW s \in Slots, Serving(s) PROVE Grows
  BY <1>1 DEF Serving
<1>2. ASSUME NEW s \in Slots, Drop(s) PROVE Grows
  BY <1>2 DEF Drop
<1>3. CASE Restart
  BY <1>3 DEF Restart
<1>4. ASSUME NEW n \in DOMAIN jobs, WorkerEnds(n) PROVE Grows
  BY <1>4 DEF WorkerEnds
<1>5. ASSUME NEW r \in Requests, SourceChange(r) PROVE Grows
  BY <1>5 DEF SourceChange
<1>6. ASSUME NEW s \in Slots, NEW r \in Requests, ScriptCall(s, r) PROVE Grows
  BY <1>6 DEF ScriptCall
<1>7. ASSUME NEW t \in Tabs, Connect(t) PROVE Grows
  BY <1>7 DEF Connect
<1>8. ASSUME NEW t \in Tabs, Disconnect(t) PROVE Grows
  BY <1>8 DEF Disconnect
<1>9. ASSUME NEW t \in Tabs, GiveUp(t) PROVE Grows
  BY <1>9 DEF GiveUp, Keep
<1>10. ASSUME NEW t \in Tabs, ReceiveJob(t) PROVE Grows
  BY <1>10, JobReceived DEF Keep, Forgets
<1>11. ASSUME NEW t \in Tabs, ReceiveError(t) PROVE Grows
  BY <1>11 DEF ReceiveError, Keep
<1>12. ASSUME NEW t \in Tabs, EditRefused(t) PROVE Grows
  BY <1>12, IdentityForgotten DEF Forgets
<1>13. ASSUME NEW t \in Tabs, Reload(t) PROVE Grows
  BY <1>13, IdentityForgotten DEF Forgets
<1>14. ASSUME NEW t \in Tabs, NEW s \in Slots, Resend(t, s) PROVE Grows
  BY <1>14 DEF Resend
<1>15. ASSUME NEW t \in Tabs, NEW r \in Requests, NEW s \in Slots, Submit(t, r, s) PROVE Grows
  BY <1>15, MintEffect DEF Submit
<1>16. CASE UNCHANGED vars
  BY <1>16 DEF vars
<1> QED
  BY ThreadServes, <1>1, <1>2, <1>3, <1>4, <1>5, <1>6, <1>7, <1>8, <1>9, <1>10, <1>11, <1>12,
      <1>13, <1>14, <1>15, <1>16
  DEF Next, Server, Others, Page
\* Every step clears some requests, serves one or sends one.
LEMMA StepOfCalls ==
  ASSUME TypeOK, AskedInv, AwaitInv, [Next]_vars
  PROVE  \/ Clearing
         \/ \E s \in Slots : Serving(s)
         \/ \E s \in Slots, k \in Keys, r \in Requests : Sending(s, k, r)
<1> DEFINE Step == \/ Clearing
                   \/ \E s \in Slots : Serving(s)
                   \/ \E s \in Slots, k \in Keys, r \in Requests : Sending(s, k, r)
<1> USE DEF ledger
<1>u. ASSUME UNCHANGED <<calls, jobs>> PROVE Clearing
  BY <1>u DEF Clearing, Occupied
<1>f. ASSUME NEW s \in Slots, calls' = [calls EXCEPT ![s] = Free], UNCHANGED jobs PROVE Clearing
  BY <1>f, FreeEffect DEF Clearing, Occupied
<1>1. ASSUME NEW s \in Slots, Serving(s) PROVE Step
  BY <1>1
<1>2. ASSUME NEW s \in Slots, Drop(s) PROVE Step
  BY <1>2, <1>f DEF Drop
<1>3. CASE Restart
  BY <1>3 DEF Restart, Clearing, Occupied
<1>4. ASSUME NEW n \in DOMAIN jobs, WorkerEnds(n) PROVE Step
  BY <1>4, <1>u DEF WorkerEnds
<1>5. ASSUME NEW r \in Requests, SourceChange(r) PROVE Step
  BY <1>5, <1>u DEF SourceChange
<1>6. ASSUME NEW s \in Slots, NEW r \in Requests, ScriptCall(s, r) PROVE Step
  <2>1. ScriptKey \in Keys /\ s \notin Occupied
    BY <1>6 DEF ScriptCall, Idle, Occupied, Keys
  <2>2. Sending(s, ScriptKey, r)
    BY <1>6, <2>1, SendEffect DEF ScriptCall, Sending, Occupied
  <2> QED
    BY <2>1, <2>2
<1>7. ASSUME NEW t \in Tabs, Connect(t) PROVE Step
  BY <1>7, <1>u DEF Connect
<1>8. ASSUME NEW t \in Tabs, Disconnect(t) PROVE Step
  BY <1>8, <1>u DEF Disconnect
<1>9. ASSUME NEW t \in Tabs, GiveUp(t) PROVE Step
  BY <1>9, <1>u DEF GiveUp
<1>10. ASSUME NEW t \in Tabs, ReceiveJob(t) PROVE Step
  BY <1>10, <1>f, JobReceived
<1>11. ASSUME NEW t \in Tabs, ReceiveError(t) PROVE Step
  <2>1. slot[t] \in Slots
    BY <1>11 DEF ReceiveError, Arrived, AwaitInv, Occupied
  <2> QED
    BY <1>11, <1>f, <2>1 DEF ReceiveError, Consume
<1>12. ASSUME NEW t \in Tabs, EditRefused(t) PROVE Step
  BY <1>12, <1>u DEF EditRefused
<1>13. ASSUME NEW t \in Tabs, Reload(t) PROVE Step
  BY <1>13, <1>u DEF Reload
<1>14. ASSUME NEW t \in Tabs, NEW s \in Slots, Resend(t, s) PROVE Step
  <2>1. /\ key[t] \in Keys /\ request[t] \in Requests /\ (access[t] = "valid") \in BOOLEAN
        /\ GoesWith(key[t], request[t]) /\ s \notin Occupied
    BY <1>14 DEF Resend, Post, Idle, Occupied, AskedInv, GoesWith, TypeOK
  <2>2. key[t] \in DOMAIN fate' /\ request[t] = asked'[key[t]]
    BY <1>14, <2>1 DEF Resend, GoesWith, past
  <2>b. PICK b \in BOOLEAN : Send(s, key[t], request[t], b)
    BY <1>14, <2>1 DEF Resend
  <2>s. /\ Occupied' = Occupied \cup {s} /\ \A u \in Slots \ {s} : calls'[u] = calls[u]
        /\ calls'[s].stage = "sent" /\ calls'[s].key = key[t] /\ calls'[s].request = request[t]
        /\ calls'[s].known = (Rows(key[t]) # {})
    BY <2>1, <2>b, SendEffect
  <2>3. Sending(s, key[t], request[t])
    BY <1>14, <2>1, <2>2, <2>s DEF Resend, Post, Sending, Occupied
  <2> QED
    BY <2>1, <2>3
<1>15. ASSUME NEW t \in Tabs, NEW r \in Requests, NEW s \in Slots, Submit(t, r, s) PROVE Step
  <2>1. Len(fate) + 1 \in Keys /\ (access[t] = "valid") \in BOOLEAN /\ s \notin Occupied
    BY <1>15, MintEffect DEF Submit, Keys, Post, Idle, Occupied
  <2>2. Len(fate) + 1 \in DOMAIN fate' /\ r = asked'[Len(fate) + 1]
    BY <1>15, MintEffect DEF Submit
  <2>b. PICK b \in BOOLEAN : Send(s, Len(fate) + 1, r, b)
    BY <1>15, <2>1 DEF Submit
  <2>s. /\ Occupied' = Occupied \cup {s} /\ \A u \in Slots \ {s} : calls'[u] = calls[u]
        /\ calls'[s].stage = "sent" /\ calls'[s].key = Len(fate) + 1 /\ calls'[s].request = r
        /\ calls'[s].known = (Rows(Len(fate) + 1) # {})
    BY <2>1, <2>b, SendEffect
  <2>3. Sending(s, Len(fate) + 1, r)
    BY <1>15, <2>1, <2>2, <2>s DEF Submit, Post, Sending, Occupied
  <2> QED
    BY <2>1, <2>3
<1>16. CASE UNCHANGED vars
  BY <1>16, <1>u DEF vars
<1> QED
  BY ThreadServes, <1>1, <1>2, <1>3, <1>4, <1>5, <1>6, <1>7, <1>8, <1>9, <1>10, <1>11, <1>12,
      <1>13, <1>14, <1>15, <1>16
  DEF Next, Server, Others, Page


\* What travels under a minted identity is the request it was minted for.
LEMMA AskedPreserved ==
  ASSUME TypeOK, TypeOK', AskedInv, AwaitInv, [Next]_vars
  PROVE  AskedInv'
<1>1. \A k, r : GoesWith(k, r) => GoesWith(k, r)'
  BY PastGrows
<1>2. \A s \in Occupied' : calls'[s].key # ScriptKey =>
        GoesWith(calls[s].key, calls[s].request)'
  <2>1. CASE Clearing
    BY <1>1, <2>1 DEF Clearing, AskedInv, GoesWith
  <2>2. ASSUME NEW s \in Slots, Serving(s)
        PROVE  \A u \in Occupied' : calls'[u].key # ScriptKey =>
                 GoesWith(calls[u].key, calls[u].request)'
    BY <1>1, <2>2 DEF Serving, AskedInv, GoesWith, Occupied
  <2>3. ASSUME NEW s \in Slots, NEW k \in Keys, NEW r \in Requests, Sending(s, k, r)
        PROVE  \A u \in Occupied' : calls'[u].key # ScriptKey =>
                 GoesWith(calls[u].key, calls[u].request)'
    BY <1>1, <2>3 DEF Sending, AskedInv, GoesWith
  <2> QED
    BY <2>1, <2>2, <2>3, StepOfCalls
<1>3. \A n \in DOMAIN jobs' : jobs'[n].key # ScriptKey => GoesWith(jobs[n].key, jobs[n].request)'
  <2>1. CASE UNCHANGED jobs
    BY <1>1, <2>1 DEF AskedInv, GoesWith
  <2>2. ASSUME NEW s \in Slots, Serving(s)
        PROVE  \A n \in DOMAIN jobs' : jobs'[n].key # ScriptKey =>
                 GoesWith(jobs[n].key, jobs[n].request)'
    <3> SUFFICES ASSUME NEW n \in DOMAIN jobs', jobs'[n].key # ScriptKey
                 PROVE  GoesWith(jobs[n].key, jobs[n].request)'
      OBVIOUS
    <3>1. CASE n \in DOMAIN jobs
      BY <1>1, <2>2, <3>1, ServingRows DEF AskedInv, GoesWith
    <3>2. CASE n \notin DOMAIN jobs
      BY <1>1, <2>2, <3>2, ServingRows DEF Serving, AskedInv, GoesWith
    <3> QED
      BY <3>1, <3>2
  <2> QED
    BY <2>1, <2>2, StepOfCalls DEF Clearing, Sending
<1>4. \A t \in Tabs : pending'[t] # "none" => GoesWith(key[t], request[t])'
  <2>g. \A u \in Tabs : pending[u] # "none" /\ key'[u] = key[u] /\ request'[u] = request[u]
          => GoesWith(key[u], request[u])'
    BY <1>1 DEF AskedInv, GoesWith
  <2> DEFINE Carried == \A u \in Tabs : pending'[u] # "none" => GoesWith(key[u], request[u])'
  <2> USE DEF page
  <2>1. ASSUME NEW s \in Slots, Serving(s) PROVE Carried
    BY <2>g, <2>1 DEF Serving
  <2>2. ASSUME NEW s \in Slots, Drop(s) PROVE Carried
    BY <2>g, <2>2 DEF Drop
  <2>3. CASE Restart
    BY <2>g, <2>3 DEF Restart, TypeOK
  <2>4. ASSUME NEW n \in DOMAIN jobs, WorkerEnds(n) PROVE Carried
    BY <2>g, <2>4 DEF WorkerEnds
  <2>5. ASSUME NEW r \in Requests, SourceChange(r) PROVE Carried
    BY <2>g, <2>5 DEF SourceChange
  <2>6. ASSUME NEW s \in Slots, NEW r \in Requests, ScriptCall(s, r) PROVE Carried
    BY <2>g, <2>6 DEF ScriptCall
  <2>7. ASSUME NEW t \in Tabs, Connect(t) PROVE Carried
    BY <2>g, <2>7 DEF Connect
  <2>8. ASSUME NEW t \in Tabs, Disconnect(t) PROVE Carried
    BY <2>g, <2>8 DEF Disconnect
  <2>9. ASSUME NEW t \in Tabs, GiveUp(t) PROVE Carried
    BY <2>g, <2>9 DEF GiveUp, Keep, Settle, Show, TypeOK
  <2>10. ASSUME NEW t \in Tabs, ReceiveJob(t) PROVE Carried
    <3>1. CASE Keep(t, "unconfirmed")
      BY <2>g, <2>10, <3>1, JobReceived DEF Keep, Settle, Show, TypeOK
    <3>2. CASE Forgets(t, "confirmed")
      BY <2>g, <3>2 DEF Forgets
    <3> QED
      BY <2>10, <3>1, <3>2, JobReceived
  <2>11. ASSUME NEW t \in Tabs, ReceiveError(t) PROVE Carried
    BY <2>g, <2>11 DEF ReceiveError, Arrived, Keep, Settle, Show, TypeOK
  <2>12. ASSUME NEW t \in Tabs, EditRefused(t) PROVE Carried
    BY <2>g, <2>12, IdentityForgotten DEF Forgets
  <2>13. ASSUME NEW t \in Tabs, Reload(t) PROVE Carried
    BY <2>g, <2>13, IdentityForgotten DEF Forgets
  <2>14. ASSUME NEW t \in Tabs, NEW s \in Slots, Resend(t, s) PROVE Carried
    BY <2>g, <2>14 DEF Resend, Post, Show, TypeOK
  <2>15. ASSUME NEW t \in Tabs, NEW r \in Requests, NEW s \in Slots, Submit(t, r, s)
         PROVE Carried
    <3>1. Len(fate) + 1 \in DOMAIN fate' /\ r = asked'[Len(fate) + 1]
      BY <2>15, MintEffect DEF Submit
    <3>2. /\ key'[t] = Len(fate) + 1 /\ request'[t] = r
          /\ \A u \in Tabs \ {t} : pending'[u] = pending[u] /\ key'[u] = key[u] /\ request'[u] = request[u]
      BY <2>15 DEF Submit, Post, Show, TypeOK
    <3> QED
      BY <2>g, <3>1, <3>2 DEF GoesWith
  <2>16. CASE UNCHANGED vars
    BY <2>g, <2>16 DEF vars
  <2> QED
    BY ThreadServes, <2>1, <2>2, <2>3, <2>4, <2>5, <2>6, <2>7, <2>8, <2>9, <2>10, <2>11, <2>12,
        <2>13, <2>14, <2>15, <2>16
    DEF Next, Server, Others, Page
<1> QED
  BY <1>2, <1>3, <1>4 DEF AskedInv


\* A page awaits a request of its own identity on a slot of its own.
LEMMA AwaitPreserved ==
  ASSUME TypeOK, AskedInv, AwaitInv, [Next]_vars
  PROVE  AwaitInv'
<1>o. UNCHANGED calls => Occupied' = Occupied
  BY DEF Occupied
<1> USE DEF AwaitInv, page, ledger
<1>1. ASSUME NEW s \in Slots, Serving(s) PROVE AwaitInv'
  BY <1>1 DEF Serving, Occupied
<1>2. ASSUME NEW s \in Slots, Drop(s) PROVE AwaitInv'
  <2>1. Occupied' = Occupied \ {s} /\ \A u \in Slots \ {s} : calls'[u] = calls[u]
    BY <1>2, FreeEffect DEF Drop
  <2>2. UNCHANGED <<pending, slot, key>> /\ \A t \in Tabs : slot[t] # s
    BY <1>2 DEF Drop
  <2> QED
    BY <2>1, <2>2 DEF Occupied
<1>3. CASE Restart
  BY <1>3 DEF Restart, TypeOK
<1>4. ASSUME NEW n \in DOMAIN jobs, WorkerEnds(n) PROVE AwaitInv'
  BY <1>o, <1>4 DEF WorkerEnds
<1>5. ASSUME NEW r \in Requests, SourceChange(r) PROVE AwaitInv'
  BY <1>o, <1>5 DEF SourceChange
<1>6. ASSUME NEW s \in Slots, NEW r \in Requests, ScriptCall(s, r) PROVE AwaitInv'
  <2>1. ScriptKey \in Keys /\ s \notin Occupied
    BY <1>6 DEF ScriptCall, Idle, Occupied, Keys
  <2>2. Occupied' = Occupied \cup {s} /\ \A u \in Slots \ {s} : calls'[u] = calls[u]
    BY <1>6, <2>1, SendEffect DEF ScriptCall
  <2> QED
    BY <1>6, <2>1, <2>2 DEF ScriptCall, Occupied
<1>7. ASSUME NEW t \in Tabs, Connect(t) PROVE AwaitInv'
  BY <1>o, <1>7 DEF Connect
<1>8. ASSUME NEW t \in Tabs, Disconnect(t) PROVE AwaitInv'
  BY <1>o, <1>8 DEF Disconnect
<1>9. ASSUME NEW t \in Tabs, GiveUp(t) PROVE AwaitInv'
  BY <1>o, <1>9 DEF GiveUp, Keep, Settle, Show, TypeOK
<1>10. ASSUME NEW t \in Tabs, ReceiveJob(t) PROVE AwaitInv'
  <2>1. /\ slot[t] \in Slots /\ pending[t] = "sending"
        /\ Occupied' = Occupied \ {slot[t]} /\ \A u \in Slots \ {slot[t]} : calls'[u] = calls[u]
    BY <1>10, JobReceived, FreeEffect
  <2>2. /\ pending'[t] # "sending"
        /\ \A u \in Tabs \ {t} : pending'[u] = pending[u] /\ slot'[u] = slot[u] /\ key'[u] = key[u]
    <3>1. CASE Keep(t, "unconfirmed")
      BY <3>1 DEF Keep, Settle, Show, TypeOK
    <3>2. CASE Forgets(t, "confirmed")
      BY <3>2 DEF Forgets
    <3> QED
      BY <1>10, <3>1, <3>2, JobReceived
  <2> QED
    BY <2>1, <2>2 DEF Occupied
<1>11. ASSUME NEW t \in Tabs, ReceiveError(t) PROVE AwaitInv'
  <2>1. slot[t] \in Slots /\ pending[t] = "sending"
    BY <1>11 DEF ReceiveError, Arrived, Occupied
  <2>2. Occupied' = Occupied \ {slot[t]} /\ \A u \in Slots \ {slot[t]} : calls'[u] = calls[u]
    BY <1>11, <2>1, FreeEffect DEF ReceiveError, Consume
  <2>3. /\ pending'[t] # "sending"
        /\ \A u \in Tabs \ {t} : pending'[u] = pending[u] /\ slot'[u] = slot[u] /\ key'[u] = key[u]
    BY <1>11 DEF ReceiveError, Keep, Settle, Show, TypeOK
  <2> QED
    BY <2>1, <2>2, <2>3 DEF Occupied
<1>12. ASSUME NEW t \in Tabs, EditRefused(t) PROVE AwaitInv'
  BY <1>o, <1>12, IdentityForgotten DEF Forgets
<1>13. ASSUME NEW t \in Tabs, Reload(t) PROVE AwaitInv'
  BY <1>o, <1>13, IdentityForgotten DEF Forgets
<1>14. ASSUME NEW t \in Tabs, NEW s \in Slots, Resend(t, s) PROVE AwaitInv'
  <2>1. key[t] \in Keys /\ request[t] \in Requests /\ s \notin Occupied
    <3>1. pending[t] # "none" /\ s \notin Occupied
      BY <1>14 DEF Resend, Post, Idle, Occupied
    <3>r. key[t] \in DOMAIN fate /\ request[t] = asked[key[t]]
      BY <3>1 DEF AskedInv, GoesWith
    <3>l. DOMAIN fate = 1..Len(fate) /\ DOMAIN asked = 1..Len(fate) /\ asked \in Seq(Requests)
      BY DEF TypeOK
    <3>2. request[t] \in Requests
      BY <3>r, <3>l
    <3> QED
      BY <3>1, <3>2 DEF TypeOK
  <2>b. PICK b \in BOOLEAN : Send(s, key[t], request[t], b)
    BY <1>14 DEF Resend
  <2>2. /\ Occupied' = Occupied \cup {s} /\ calls'[s].key = key[t]
        /\ \A u \in Slots \ {s} : calls'[u] = calls[u]
    BY <1>14, <2>1, <2>b, SendEffect
  <2>3. /\ slot'[t] = s /\ key'[t] = key[t]
        /\ \A u \in Tabs \ {t} : pending'[u] = pending[u] /\ slot'[u] = slot[u] /\ key'[u] = key[u]
    BY <1>14 DEF Resend, Post, Show, TypeOK
  <2> QED
    BY <1>14, <2>1, <2>2, <2>3 DEF Occupied
<1>15. ASSUME NEW t \in Tabs, NEW r \in Requests, NEW s \in Slots, Submit(t, r, s)
       PROVE AwaitInv'
  <2>1. Len(fate) + 1 \in Keys /\ s \notin Occupied
    BY <1>15, MintEffect DEF Submit, Post, Idle, Occupied, Keys
  <2>b. PICK b \in BOOLEAN : Send(s, Len(fate) + 1, r, b)
    BY <1>15 DEF Submit
  <2>2. /\ Occupied' = Occupied \cup {s} /\ calls'[s].key = Len(fate) + 1
        /\ \A u \in Slots \ {s} : calls'[u] = calls[u]
    BY <1>15, <2>1, <2>b, SendEffect
  <2>3. /\ slot'[t] = s /\ key'[t] = Len(fate) + 1
        /\ \A u \in Tabs \ {t} : pending'[u] = pending[u] /\ slot'[u] = slot[u] /\ key'[u] = key[u]
    BY <1>15 DEF Submit, Post, Show, TypeOK
  <2> QED
    BY <1>15, <2>1, <2>2, <2>3 DEF Occupied
<1>16. CASE UNCHANGED vars
  BY <1>o, <1>16 DEF vars
<1> QED
  BY ThreadServes, <1>1, <1>2, <1>3, <1>4, <1>5, <1>6, <1>7, <1>8, <1>9, <1>10, <1>11, <1>12,
      <1>13, <1>14, <1>15, <1>16
  DEF Next, Server, Others, Page

\* The rows of a key only become more.
LEMMA RowsGrow ==
  ASSUME TypeOK, AskedInv, AwaitInv, [Next]_vars
  PROVE  /\ \A n \in DOMAIN jobs : n \in DOMAIN jobs' /\ jobs'[n] = jobs[n]
         /\ \A k : \A n \in Rows(k) : n \in Rows(k)'
<1>1. \A n \in DOMAIN jobs : n \in DOMAIN jobs' /\ jobs'[n] = jobs[n]
  BY StepOfCalls, ServingRows DEF Clearing, Sending
<1> QED
  BY <1>1 DEF Rows

\* A first lookup that found nothing was made for a key unknown when it was sent.
LEMMA LookupPreserved ==
  ASSUME IInv, TypeOK', [Next]_vars
  PROVE  LookupInv'
<1> USE DEF IInv
<1>r. \A k : Rows(k) # {} => Rows(k)' # {}
  BY RowsGrow
<1>d. DOMAIN jobs \subseteq DOMAIN jobs'
  BY RowsGrow
<1>1. CASE Clearing
  BY <1>1, <1>r, <1>d DEF Clearing, LookupInv
<1>2. ASSUME NEW s \in Slots, Serving(s) PROVE LookupInv'
  <2> SUFFICES ASSUME NEW u \in Occupied'
               PROVE  /\ calls'[u].known => Rows(calls[u].key)' # {}
                      /\ calls'[u].stage \in {"unknown", "bound"} => ~calls'[u].known
                      /\ calls'[u].stage = "answered" /\ calls'[u].answer = "job" =>
                           calls'[u].job \in DOMAIN jobs'
    BY DEF LookupInv
  <2>1. u \in Occupied /\ u \in Slots
    BY <1>2 DEF Serving, Occupied
  <2>2. CASE u # s
    BY <1>2, <1>r, <1>d, <2>1, <2>2 DEF Serving, LookupInv
  <2>3. CASE u = s
    BY <1>2, <1>r, <2>1, <2>3 DEF Serving, LookupInv
  <2> QED
    BY <2>2, <2>3
<1>3. ASSUME NEW s \in Slots, NEW k \in Keys, NEW r \in Requests, Sending(s, k, r)
      PROVE  LookupInv'
  BY <1>3, <1>r, <1>d DEF Sending, LookupInv
<1> QED
  BY <1>1, <1>2, <1>3, StepOfCalls

\* Rows of one key never meet, and an answer names a row of its own request.
LEMMA IdentityPreserved ==
  ASSUME IInv, TypeOK', [Next]_vars
  PROVE  IdentityNamesOneJob'
<1> USE DEF IInv
<1>d. \A n \in DOMAIN jobs : n \in DOMAIN jobs' /\ jobs'[n] = jobs[n]
  BY RowsGrow
<1>1. \A m, n \in DOMAIN jobs' : jobs'[m].key = jobs'[n].key => m = n
  <2>1. CASE UNCHANGED jobs
    BY <2>1 DEF IdentityNamesOneJob
  <2>2. ASSUME NEW s \in Slots, Serving(s)
        PROVE  \A m, n \in DOMAIN jobs' : jobs'[m].key = jobs'[n].key => m = n
    BY <1>d, <2>2, ServingRows DEF IdentityNamesOneJob, Rows
  <2> QED
    BY <2>1, <2>2, StepOfCalls DEF Clearing, Sending
<1>2. \A u \in Occupied' : calls'[u].stage = "answered" /\ calls'[u].answer = "job" =>
        jobs'[calls'[u].job] = [key |-> calls'[u].key, request |-> calls'[u].request]
  <2> DEFINE Own(u) == calls'[u].stage = "answered" /\ calls'[u].answer = "job" =>
                jobs'[calls'[u].job] = [key |-> calls'[u].key, request |-> calls'[u].request]
  <2>1. ASSUME NEW u \in Occupied, calls'[u] = calls[u] PROVE Own(u)
    BY <1>d, <2>1 DEF IdentityNamesOneJob, LookupInv, Occupied
  <2>2. CASE Clearing
    BY <2>1, <2>2 DEF Clearing
  <2>3. ASSUME NEW s \in Slots, Serving(s), NEW u \in Occupied' PROVE Own(u)
    BY <2>1, <2>3 DEF Serving, Occupied
  <2>4. ASSUME NEW s \in Slots, NEW k \in Keys, NEW r \in Requests, Sending(s, k, r),
               NEW u \in Occupied'
        PROVE  Own(u)
    BY <2>1, <2>4 DEF Sending
  <2> QED
    BY <2>2, <2>3, <2>4, StepOfCalls
<1> QED
  BY <1>1, <1>2, OccupiedCall DEF IdentityNamesOneJob, Occupied, Free

\* Refusals are given where the key is unknown, conflicts to other clients only.
LEMMA RetryPreserved ==
  ASSUME IInv, TypeOK', [Next]_vars
  PROVE  RetryFindsJob'
<1> USE DEF IInv
<1> DEFINE Fair(u) == calls'[u].stage = "answered" =>
             /\ calls'[u].known => calls'[u].answer \notin Refusals
             /\ calls'[u].answer = "conflict" => calls'[u].key = ScriptKey
<1>1. \A u \in Occupied' : Fair(u)
  <2>1. ASSUME NEW u \in Occupied, calls'[u] = calls[u] PROVE Fair(u)
    BY <2>1 DEF RetryFindsJob, Occupied
  <2>2. CASE Clearing
    BY <2>1, <2>2 DEF Clearing
  <2>3. ASSUME NEW s \in Slots, Serving(s) PROVE Fair(s)
    <3>1. s \in Occupied
      BY <2>3 DEF Serving
    <3>2. ASSUME calls'[s].stage = "answered", calls'[s].answer \in Refusals
          PROVE ~calls'[s].known
      BY <2>3, <3>1, <3>2 DEF Serving, LookupInv
    <3>3. ASSUME calls'[s].stage = "answered", calls'[s].answer = "conflict"
          PROVE  calls'[s].key = ScriptKey
      <4>1. PICK n \in Rows(calls[s].key) : jobs[n].request # calls[s].request
        BY <2>3, <3>3 DEF Serving
      <4> QED
        BY <2>3, <3>1, <4>1 DEF Serving, Rows, AskedInv, GoesWith
    <3> QED
      BY <3>2, <3>3
  <2>4. ASSUME NEW s \in Slots, NEW k \in Keys, NEW r \in Requests, Sending(s, k, r),
               NEW u \in Occupied'
        PROVE  Fair(u)
    BY <2>1, <2>4 DEF Sending
  <2> QED
    BY <2>1, <2>2, <2>3, <2>4, StepOfCalls DEF Serving, Occupied
<1>2. \A u \in Slots : u \notin Occupied' => calls'[u].stage # "answered"
  BY DEF Occupied, Free
<1> QED
  BY <1>1, <1>2 DEF RetryFindsJob


\* A row that is not finished is pending, and only Admit adds one, given room.
LEMMA CapacityPreserved ==
  ASSUME IInv, TypeOK', [Next]_vars
  PROVE  CapacityHeld'
<1> USE AdmissionAssumption DEF IInv
<1>0. /\ Len(jobs) \in Nat /\ DOMAIN jobs = 1..Len(jobs)
      /\ IsFiniteSet(Pending) /\ Cardinality(Pending) \in Nat
  <2>1. Len(jobs) \in Nat /\ DOMAIN jobs = 1..Len(jobs)
    BY DEF TypeOK
  <2>2. IsFiniteSet(Pending)
    <3>1. IsFiniteSet(1..Len(jobs))
      BY <2>1, FS_Interval
    <3>2. Pending \subseteq 1..Len(jobs)
      BY <2>1 DEF Pending
    <3> QED
      BY <3>1, <3>2, FS_Subset
  <2> QED
    BY <2>1, <2>2, FS_CardinalityType
<1>1. CASE UNCHANGED <<jobs, ended>>
  BY <1>1 DEF CapacityHeld, Pending
<1>2. ASSUME NEW s \in Slots, Serving(s) PROVE CapacityHeld'
  <2>1. CASE UNCHANGED jobs
    BY <1>1, <1>2, <2>1 DEF Serving
  <2>2. CASE /\ Room
             /\ jobs' = Append(jobs, [key |-> calls[s].key, request |-> calls[s].request])
    <3>1. calls[s] \in Call
      BY <1>2, ServingRows
    <3>2. [key |-> calls[s].key, request |-> calls[s].request] \in Row
      BY <3>1 DEF Call, Row
    <3>3. Len(jobs') = Len(jobs) + 1 /\ DOMAIN jobs' = 1..(Len(jobs) + 1)
      BY <2>2, <3>2, RowAppends
    <3>4. Pending' = Pending \cup {Len(jobs) + 1} /\ Len(jobs) + 1 \notin Pending
      BY <1>0, <1>2, <3>3 DEF Serving, Pending, TypeOK
    <3>5. Cardinality(Pending') = Cardinality(Pending) + 1
      BY <1>0, <3>4, FS_AddElement
    <3> QED
      BY <1>0, <2>2, <3>3, <3>5 DEF Room, CapacityHeld
  <2> QED
    BY <1>2, <2>1, <2>2 DEF Serving
<1>3. ASSUME NEW n \in DOMAIN jobs, WorkerEnds(n) PROVE CapacityHeld'
  <2>1. jobs' = jobs /\ Pending' \subseteq Pending
    BY <1>3 DEF WorkerEnds, Pending
  <2>2. Cardinality(Pending') <= Cardinality(Pending) /\ Cardinality(Pending') \in Nat
    BY <1>0, <2>1, FS_Subset, FS_CardinalityType
  <2> QED
    BY <1>0, <2>1, <2>2 DEF CapacityHeld
<1>4. \/ UNCHANGED <<jobs, ended>> \/ \E s \in Slots : Serving(s)
      \/ \E n \in DOMAIN jobs : WorkerEnds(n)
  BY ThreadServes
  DEF Next, Server, Others, Page, Drop, Restart, SourceChange, ScriptCall, Connect, Disconnect,
      GiveUp, ReceiveJob, ReceiveError, EditRefused, Reload, Resend, Submit, Post, Consume,
      ledger, vars
<1> QED
  BY <1>1, <1>2, <1>3, <1>4


\* Only its own page gives an identity up, and confirms it by a job of its own.
LEMMA KeptPreserved ==
  ASSUME IInv, TypeOK', [Next]_vars
  PROVE  IdentityKept'
<1> USE DEF IInv, page, ledger, past
<1>r. \A k : \A n \in Rows(k) : n \in Rows(k)' /\ jobs'[n] = jobs[n]
  BY RowsGrow DEF Rows
<1>k. ASSUME UNCHANGED past,
             \A t \in Tabs : pending[t] # "none" =>
               pending'[t] # "none" /\ key'[t] = key[t] /\ request'[t] = request[t]
      PROVE  IdentityKept'
  BY <1>k, <1>r DEF IdentityKept
<1>f. ASSUME NEW t \in Tabs, NEW why \in {"confirmed", "edited", "reloaded"}, Forgets(t, why),
             why = "confirmed" => \E n \in Rows(key[t]) : jobs[n].request = asked[key[t]]
      PROVE  IdentityKept'
  <2> SUFFICES ASSUME NEW k \in DOMAIN fate'
               PROVE  /\ fate'[k] = "pending" =>
                           \E u \in Tabs : pending'[u] # "none" /\ key'[u] = k /\ request'[u] = asked'[k]
                      /\ fate'[k] = "confirmed" => \E n \in Rows(k)' : jobs'[n].request = asked'[k]
    BY DEF IdentityKept
  <2>1. k \in DOMAIN fate /\ asked' = asked
    BY <1>f DEF Forgets
  <2>2. CASE k = key[t]
    BY <1>f, <1>r, <2>1, <2>2 DEF Forgets
  <2>3. CASE k # key[t]
    BY <1>f, <1>r, <2>1, <2>3 DEF Forgets, IdentityKept
  <2> QED
    BY <2>2, <2>3
<1>1. ASSUME NEW s \in Slots, Serving(s) PROVE IdentityKept'
  BY <1>k, <1>1 DEF Serving
<1>2. ASSUME NEW s \in Slots, Drop(s) PROVE IdentityKept'
  BY <1>k, <1>2 DEF Drop
<1>3. CASE Restart
  BY <1>k, <1>3 DEF Restart, TypeOK
<1>4. ASSUME NEW n \in DOMAIN jobs, WorkerEnds(n) PROVE IdentityKept'
  BY <1>k, <1>4 DEF WorkerEnds
<1>5. ASSUME NEW r \in Requests, SourceChange(r) PROVE IdentityKept'
  BY <1>k, <1>5 DEF SourceChange
<1>6. ASSUME NEW s \in Slots, NEW r \in Requests, ScriptCall(s, r) PROVE IdentityKept'
  BY <1>k, <1>6 DEF ScriptCall
<1>7. ASSUME NEW t \in Tabs, Connect(t) PROVE IdentityKept'
  BY <1>k, <1>7 DEF Connect
<1>8. ASSUME NEW t \in Tabs, Disconnect(t) PROVE IdentityKept'
  BY <1>k, <1>8 DEF Disconnect
<1>9. ASSUME NEW t \in Tabs, GiveUp(t) PROVE IdentityKept'
  BY <1>k, <1>9 DEF GiveUp, Keep, Settle, Show, TypeOK
<1>10. ASSUME NEW t \in Tabs, ReceiveJob(t) PROVE IdentityKept'
  <2>1. CASE Keep(t, "unconfirmed")
    BY <1>k, <1>10, <2>1, JobReceived DEF Keep, Settle, Show, TypeOK
  <2>2. CASE Forgets(t, "confirmed")
    <3> DEFINE s == slot[t]
    <3>1. /\ s \in Slots /\ s \in Occupied /\ calls[s].key = key[t] /\ pending[t] = "sending"
          /\ calls[s].stage = "answered" /\ calls[s].answer = "job"
      BY <1>10, JobReceived DEF AwaitInv
    <3>2. calls[s].job \in DOMAIN jobs
      BY <3>1 DEF LookupInv
    <3>3. jobs[calls[s].job] = [key |-> calls[s].key, request |-> calls[s].request]
      BY <3>1 DEF IdentityNamesOneJob
    <3>4. calls[s].request = asked[key[t]]
      <4>1. key[t] # ScriptKey
        BY <3>1 DEF AskedInv, GoesWith, TypeOK, ScriptKey
      <4> QED
        BY <3>1, <4>1 DEF AskedInv, GoesWith
    <3>5. \E n \in Rows(key[t]) : jobs[n].request = asked[key[t]]
      BY <3>1, <3>2, <3>3, <3>4 DEF Rows
    <3> QED
      BY <1>f, <1>10, <2>2, <3>5, JobReceived
  <2> QED
    BY <1>10, <2>1, <2>2, JobReceived
<1>11. ASSUME NEW t \in Tabs, ReceiveError(t) PROVE IdentityKept'
  BY <1>k, <1>11 DEF ReceiveError, Arrived, Keep, Settle, Show, TypeOK
<1>12. ASSUME NEW t \in Tabs, EditRefused(t) PROVE IdentityKept'
  BY <1>f, <1>12, IdentityForgotten
<1>13. ASSUME NEW t \in Tabs, Reload(t) PROVE IdentityKept'
  BY <1>f, <1>13, IdentityForgotten
<1>14. ASSUME NEW t \in Tabs, NEW s \in Slots, Resend(t, s) PROVE IdentityKept'
  BY <1>k, <1>14 DEF Resend, Post, Show, TypeOK
<1>15. ASSUME NEW t \in Tabs, NEW r \in Requests, NEW s \in Slots, Submit(t, r, s)
       PROVE IdentityKept'
  <2>1. /\ DOMAIN fate = 1..Len(fate) /\ DOMAIN fate' = 1..(Len(fate) + 1) /\ Len(fate) \in Nat
        /\ asked'[Len(fate) + 1] = r /\ fate'[Len(fate) + 1] = "pending"
        /\ \A k \in DOMAIN fate : fate'[k] = fate[k] /\ asked'[k] = asked[k]
    BY <1>15, MintEffect DEF Submit
  <2>2. /\ pending'[t] = "sending" /\ key'[t] = Len(fate) + 1 /\ request'[t] = r
        /\ \A u \in Tabs \ {t} : pending'[u] = pending[u] /\ key'[u] = key[u] /\ request'[u] = request[u]
    BY <1>15 DEF Submit, Post, Show, TypeOK
  <2>3. pending[t] = "none" /\ jobs' = jobs
    BY <1>15 DEF Submit, Post
  <2> SUFFICES ASSUME NEW k \in DOMAIN fate'
               PROVE  /\ fate'[k] = "pending" =>
                           \E u \in Tabs : pending'[u] # "none" /\ key'[u] = k /\ request'[u] = asked'[k]
                      /\ fate'[k] = "confirmed" => \E n \in Rows(k)' : jobs'[n].request = asked'[k]
    BY DEF IdentityKept
  <2>4. CASE k = Len(fate) + 1
    BY <2>1, <2>2, <2>4
  <2>5. CASE k \in DOMAIN fate
    BY <1>r, <2>1, <2>2, <2>3, <2>5 DEF IdentityKept
  <2> QED
    BY <2>1, <2>4, <2>5
<1>16. CASE UNCHANGED vars
  BY <1>k, <1>16 DEF vars
<1> QED
  BY ThreadServes, <1>1, <1>2, <1>3, <1>4, <1>5, <1>6, <1>7, <1>8, <1>9, <1>10, <1>11, <1>12,
      <1>13, <1>14, <1>15, <1>16
  DEF Next, Server, Others, Page

LEMMA InitIInv == Init => IInv
<1> SUFFICES ASSUME Init PROVE IInv
  OBVIOUS
<1> USE AdmissionAssumption DEF Init
<1>1. TypeOK
  <2>1. /\ jobs \in Seq(Row) /\ DOMAIN jobs = {} /\ ended \subseteq DOMAIN jobs
        /\ sourceOk \subseteq Requests
    OBVIOUS
  <2>2. calls \in [Slots -> {Free} \cup Call]
    OBVIOUS
  <2>3. /\ pending \in [Tabs -> {"none", "sending", "unconfirmed", "refused"}]
        /\ key \in [Tabs -> Keys] /\ request \in [Tabs -> Requests \cup {"none"}]
        /\ slot \in [Tabs -> Slots \cup {0}]
    BY DEF Keys
  <2>4. access \in [Tabs -> {"none", "valid", "rotated"}] /\ stale \in [Tabs -> BOOLEAN]
    OBVIOUS
  <2>5. asked \in Seq(Requests) /\ fate \in Seq(Fates) /\ Len(asked) = Len(fate) /\ Len(fate) = 0
    OBVIOUS
  <2> QED
    BY <2>1, <2>2, <2>3, <2>4, <2>5 DEF TypeOK
<1>2. DOMAIN jobs = {} /\ Len(jobs) = 0 /\ DOMAIN fate = {} /\ Occupied = {}
  BY DEF Occupied
<1>3. AskedInv /\ AwaitInv /\ LookupInv
  BY <1>2 DEF AskedInv, AwaitInv, LookupInv
<1>4. IdentityNamesOneJob /\ RetryFindsJob /\ IdentityKept
  BY <1>2 DEF IdentityNamesOneJob, RetryFindsJob, IdentityKept, Free
<1>5. CapacityHeld
  <2>1. Pending = {}
    BY <1>2 DEF Pending
  <2> QED
    BY <1>2, <2>1, FS_EmptySet DEF CapacityHeld
<1> QED
  BY <1>1, <1>3, <1>4, <1>5 DEF IInv

LEMMA IInvPreserved == IInv /\ [Next]_vars => IInv'
<1> SUFFICES ASSUME IInv, [Next]_vars PROVE IInv'
  OBVIOUS
<1>1. TypeOK'
  BY TypePreserved DEF IInv
<1>2. AskedInv' /\ AwaitInv'
  BY <1>1, AskedPreserved, AwaitPreserved DEF IInv
<1>3. LookupInv' /\ IdentityNamesOneJob' /\ CapacityHeld'
  BY <1>1, LookupPreserved, IdentityPreserved, CapacityPreserved
<1>4. RetryFindsJob' /\ IdentityKept'
  BY <1>1, RetryPreserved, KeptPreserved
<1> QED
  BY <1>1, <1>2, <1>3, <1>4 DEF IInv

\* The inductive invariant holds in every state.
THEOREM IInvariant == Spec => []IInv
  BY InitIInv, IInvPreserved, PTL DEF Spec

\* However many threads overtake one another between the lookup and the transaction,
\* an identity has one row, and an answer names the row of its own request
\* (job_store.py:229-236).
THEOREM IdentitiesNameOneJob == Spec => []IdentityNamesOneJob
<1>1. IInv => IdentityNamesOneJob
  BY DEF IInv
<1> QED
  BY <1>1, IInvariant, PTL

\* No number of concurrent submissions passes a ceiling (job_store.py:245-248).
THEOREM CeilingsHold == Spec => []CapacityHeld
<1>1. IInv => CapacityHeld
  BY DEF IInv
<1> QED
  BY <1>1, IInvariant, PTL

\* Repeating an admitted request is never refused, and a page never meets a conflict
\* about an identity it minted (jobs.py:123-126).
THEOREM RetriesFindTheirJob == Spec => []RetryFindsJob
<1>1. IInv => RetryFindsJob
  BY DEF IInv
<1> QED
  BY <1>1, IInvariant, PTL

\* A page's account of what it has asked for is true (job-client.ts:147-150).
THEOREM IdentitiesAreKept == Spec => []IdentityKept
<1>1. IInv => IdentityKept
  BY DEF IInv
<1> QED
  BY <1>1, IInvariant, PTL
=============================================================================
