-------------------------- MODULE VarianceStoreProofs --------------------------
(***************************************************************************)
(* Proofs about VarianceStore for every set of connections and requests,   *)
(* every account tree and every bound.  IInv is the inductive invariant:   *)
(* what a connection knows of its attempt, how its snapshot relates to     *)
(* the store while others commit, and which numbers the versions it will   *)
(* write have.  A second part proves the figures of a close: sums over the *)
(* account tree, whose recursions are shown to have one solution by a      *)
(* least counterexample, and with them that every saved report ties.  The  *)
(* last part shows that the connections implement CloseLine.               *)
(***************************************************************************)
EXTENDS VarianceStore, FiniteSetTheorems, SequenceTheorems, WellFoundedInduction, TLAPS

Labels   == {Requests[x][k].version : x \in Names, k \in Kinds}
Versions == [kind : Kinds, version : Labels, entity : Entities, of : Names, sequence : Nat]
Heads    == [run : Runs \cup {"none"}, close : Nat]
Views    == [stored : SUBSET Versions, saved : SUBSET Runs, heads : [Entities -> Heads]]
Working  == {"started", "unsaved", "open", "written"}
Closing  == Working \cup {"saved"}
Stages   == Closing \cup {"idle", "placed", "published"}
Attempts == [request : Names, status : {"started", "committed", "replayed", "failed"}]
Calls    == [at : Stages, request : Names \cup {"none"}, run : Runs \cup {"none"},
             attempt : Nat, view : Views \cup {NoView}, writes : SUBSET Versions]

TypeOK ==
  /\ stored \subseteq Versions /\ sequence \in Nat
  /\ \A r \in DOMAIN saved : saved[r].request \in Names /\ Requests[saved[r].request].run = r
  /\ heads \in [Entities -> Heads]
  /\ attempts \in Seq(Attempts)
  /\ call \in [Threads -> Calls]

\* A connection in a close has an open attempt of its own.
HandInv ==
  /\ \A t \in Threads : call[t].at \in Closing =>
       /\ call[t].request \in Names /\ call[t].run = Here(t).run
       /\ call[t].attempt \in DOMAIN attempts
       /\ attempts[call[t].attempt] = [request |-> call[t].request, status |-> "started"]
  /\ \A s, t \in Threads : call[s].at \in Closing /\ call[t].at \in Closing /\ s # t =>
       call[s].attempt # call[t].attempt
  /\ \A t \in Threads : call[t].at = "saved" =>
       call[t].run \in DOMAIN saved /\ saved[call[t].run].request = call[t].request

\* A snapshot is an earlier store; an entity whose head has not moved since has
\* not got a version either.
ViewInv ==
  \A t \in Threads : call[t].at \in {"open", "written"} =>
    LET view == call[t].view IN
    /\ view \in Views /\ view.stored \subseteq stored /\ view.saved \subseteq DOMAIN saved
    /\ \A e \in Entities : /\ view.heads[e].run \in view.saved \cup {"none"}
                           /\ view.heads[e] = heads[e] =>
                                OfEntity(stored, e) = OfEntity(view.stored, e)

\* Labels and numbers name one version each.
StoreInv ==
  /\ \A v \in stored : v.sequence <= sequence
  /\ \A v, w \in stored : \/ v.kind = w.kind /\ v.version = w.version
                          \/ v.sequence = w.sequence
                          => v = w

\* What a transaction that is ready to commit has checked and will write.
PreparedInv ==
  /\ \A t \in Threads : call[t].at = "written" =>
       LET q == Here(t)
           all == call[t].view.stored \cup call[t].writes
       IN  /\ Fresh(call[t].view.heads[q.entity], q) /\ LatestBasis(all, q)
           /\ \A k \in Kinds : /\ Lookup(all, k, q[k].version) # {}
                               /\ \A v \in Lookup(all, k, q[k].version) :
                                    v.entity = q.entity /\ Rows(v) = q[k].rows
           /\ \A v \in call[t].writes :
                /\ v.entity = q.entity /\ v.version = q[v.kind].version /\ v.sequence <= sequence
                /\ \A w \in call[t].view.stored : w.sequence < v.sequence
                /\ \A w \in stored : w.sequence # v.sequence
                /\ \A w \in call[t].writes : w.kind = v.kind \/ w.sequence = v.sequence => w = v
  /\ \A s, t \in Threads : s # t /\ call[s].at = "written" /\ call[t].at = "written" =>
       \A v \in call[s].writes, w \in call[t].writes : v.sequence # w.sequence

\* The versions behind a saved close, named without a choice.
SourcesInv ==
  \A r \in DOMAIN saved :
    LET q == Requests[saved[r].request]
        effective == saved[r].effective
    IN  /\ \E v \in Lookup(stored, "budget", q.budget.version) :
             v.entity = q.entity /\ Rows(v) = q.budget.rows
        /\ \E basis \in Lookup(stored, "actuals", q.actuals.version) :
             LET deltas == Deltas(stored, q.entity, basis.sequence) IN
             /\ basis.entity = q.entity /\ Rows(basis) = q.actuals.rows
             /\ DOMAIN effective = UNION {DOMAIN Rows(v) : v \in deltas}
             /\ \A k \in DOMAIN effective : \E v \in deltas :
                  /\ v.version = effective[k].source /\ k \in DOMAIN Rows(v)
                  /\ Rows(v)[k] = effective[k].amount
                  /\ \A w \in deltas : w.sequence > v.sequence => k \notin DOMAIN Rows(w)

\* The head carries the period of the close it names.
HeadInv ==
  \A e \in Entities : heads[e] # NoHead => Requests[saved[heads[e].run].request].close = heads[e].close

\* A saved close was made by one attempt, which nobody works on any more and
\* which may be on record as failed; those known to have made one are the
\* committed ones and those whose transaction has just committed.
Made(n) == \/ attempts[n].status = "committed"
           \/ \E t \in Threads : call[t].at = "saved" /\ call[t].attempt = n
RunOf(n) == Requests[attempts[n].request].run
AttemptInv ==
  /\ \A n \in DOMAIN attempts : attempts[n].status \in {"committed", "replayed"} =>
       \E r \in DOMAIN saved : saved[r].request = attempts[n].request
  /\ \A r \in DOMAIN saved : \E n \in DOMAIN attempts :
       /\ attempts[n].request = saved[r].request /\ attempts[n].status # "replayed"
       /\ \A t \in Threads : call[t].at \in Working => call[t].attempt # n
  /\ \A m, n \in DOMAIN attempts : Made(m) /\ Made(n) /\ RunOf(m) = RunOf(n) => m = n

\* What stands in the output directory is of saved runs.
ExportInv ==
  /\ file \cap foreign = {}
  /\ \A t \in Threads : call[t].at = "placed" => call[t].run \in file
  /\ \A p \in reports : \A s \in DOMAIN p : s \in DOMAIN saved /\ p[s] = Reviewed(saved[s])
  /\ \A t \in Threads : call[t].at = "published" => \E p \in reports : call[t].run \in DOMAIN p
  /\ \A x \in receipts : x.status = "delivered" =>
       IF x.what = "json" THEN x.run \in file ELSE \E p \in reports : x.run \in DOMAIN p

IInv ==
  /\ TypeOK /\ HandInv /\ ViewInv /\ StoreInv /\ PreparedInv /\ SourcesInv
  /\ OneLineOfCloses /\ HeadInv /\ AttemptInv /\ ExportInv

-----------------------------------------------------------------------------
(* Steps, by what they do.                                                 *)

Open == {"open", "written"}

\* A close is recorded as failed: refused as a conflict, unsound, collided or
\* failed, at the last also when it had committed.
GivesUp(t) ==
  /\ call[t].at \in Closing /\ Event(call[t].attempt, "failed") /\ End(t)
  /\ UNCHANGED <<db, sequence, receipts, out>>
Replays(t) ==
  /\ call[t].at = "started" /\ call[t].run \in DOMAIN saved
  /\ saved[call[t].run].request = call[t].request
  /\ Event(call[t].attempt, "replayed") /\ End(t)
  /\ UNCHANGED <<db, sequence, receipts, out>>

\* Sound sources are written.
Drawn(t, kind) ==
  Insert(call[t].view.stored, kind, call[t].request,
         IF kind = "budget" THEN sequence + 1
         ELSE sequence + Cardinality(Insert(call[t].view.stored, "budget",
                                            call[t].request, sequence + 1)) + 1)
Writes(t) ==
  LET drawn == Drawn(t, "budget") \cup Drawn(t, "actuals")
      all   == call[t].view.stored \cup drawn
  IN  /\ call[t].at = "open"
      /\ Fresh(call[t].view.heads[Here(t).entity], Here(t))
      /\ \A k \in Kinds : Agrees(call[t].view.stored, k, Here(t))
      /\ LatestBasis(all, Here(t)) /\ Complete(Here(t), Panel(all, Here(t)))
      /\ sequence' = sequence + Cardinality(drawn)
      /\ call' = [call EXCEPT ![t].at = "written", ![t].writes = drawn]
      /\ UNCHANGED <<db, audit, out>>

\* A transaction commits.
All(t) == call[t].view.stored \cup call[t].writes
Commits(t) ==
  LET q == Here(t) IN
  /\ call[t].at = "written" /\ ~Collides(t)
  /\ stored' = stored \cup call[t].writes
  /\ saved' = [r \in DOMAIN saved \cup {q.run} |->
                 IF r = q.run THEN Bundle(call[t].request, Panel(All(t), q)) ELSE saved[r]]
  /\ heads' = [heads EXCEPT ![q.entity] = [run |-> q.run, close |-> q.close]]
  /\ call' = [call EXCEPT ![t] = [Idle EXCEPT !.at = "saved", !.run = q.run,
                !.request = call[t].request, !.attempt = call[t].attempt]]
  /\ UNCHANGED <<sequence, audit, out>>

\* Reports are published, and a command ends without a record of success.
Shows(t, r) ==
  /\ call[t].at = "idle" /\ r \in DOMAIN saved
  /\ reports' = reports \cup {[s \in Related(r) |-> Reviewed(saved[s])]}
  /\ Place(t, r, "published") /\ UNCHANGED <<db, sequence, audit, file, foreign>>
NoneDelivered == \A x \in receipts' : x.status = "delivered" => x \in receipts
Quits(t) ==
  /\ call[t].at \in {"written", "saved", "placed", "published"} /\ End(t) /\ NoneDelivered
  /\ UNCHANGED <<db, sequence, attempts, out>>
Refuses(r) ==
  /\ foreign' = foreign \/ (r \notin file /\ foreign' = foreign \cup {r})
  /\ NoneDelivered /\ UNCHANGED <<db, sequence, attempts, file, reports, call>>

Steps ==
  \/ \E t \in Threads :
       \/ \E x \in Names : Start(t, x)
       \/ \E r \in Runs : Deliver(t, r) \/ Shows(t, r)
       \/ NotSaved(t) \/ Begin(t) \/ Committed(t) \/ Delivered(t) \/ Published(t)
       \/ GivesUp(t) \/ Replays(t) \/ Writes(t) \/ Commits(t) \/ Quits(t)
  \/ \E r \in Runs : Refuses(r)
  \/ Crash

\* Every step is one of these.
LEMMA StepKinds ==
  ASSUME [Next]_vars
  PROVE  Steps \/ UNCHANGED vars
<1>1. ASSUME NEW t \in Threads, Replay(t) PROVE GivesUp(t) \/ Replays(t)
  BY <1>1 DEF Replay, GivesUp, Replays, Closing, Working
<1>2. ASSUME NEW t \in Threads, Prepare(t) PROVE GivesUp(t) \/ Writes(t)
  <2> DEFINE view    == call[t].view
             budget  == Insert(view.stored, "budget", call[t].request, sequence + 1)
             actuals == Insert(view.stored, "actuals", call[t].request,
                               sequence + Cardinality(budget) + 1)
             all     == view.stored \cup budget \cup actuals
             sound   == /\ Here(t).run \notin view.saved
                        /\ Fresh(view.heads[Here(t).entity], Here(t))
                        /\ \A k \in Kinds : Agrees(view.stored, k, Here(t))
                        /\ LatestBasis(all, Here(t)) /\ Complete(Here(t), Panel(all, Here(t)))
  <2>1. /\ call[t].at = "open" /\ UNCHANGED <<db, receipts, out, faults>>
        /\ \/ /\ sound /\ sequence' = sequence + Cardinality(budget \cup actuals)
              /\ call' = [call EXCEPT ![t].at = "written", ![t].writes = budget \cup actuals]
              /\ UNCHANGED attempts
           \/ Event(call[t].attempt, "failed") /\ End(t) /\ UNCHANGED sequence
    BY <1>2, Zenon DEF Prepare
  <2>2. Drawn(t, "budget") = budget /\ Drawn(t, "actuals") = actuals
    BY DEF Drawn
  <2>3. all = view.stored \cup (budget \cup actuals)
    OBVIOUS
  <2> HIDE DEF budget, actuals, all
  <2> QED
    BY <2>1, <2>2, <2>3 DEF GivesUp, Writes, Closing, Working, audit
<1>3. ASSUME NEW t \in Threads, Commit(t) PROVE GivesUp(t) \/ Commits(t)
  <2> DEFINE bundle == Bundle(call[t].request, Panel(call[t].view.stored \cup call[t].writes,
                                                     Here(t)))
  <2>1. /\ call[t].at = "written" /\ UNCHANGED <<sequence, receipts, out, faults>>
        /\ \/ Event(call[t].attempt, "failed") /\ End(t) /\ UNCHANGED db
           \/ /\ ~Collides(t)
              /\ stored' = stored \cup call[t].writes
              /\ saved' = [r \in DOMAIN saved \cup {Here(t).run} |->
                             IF r = Here(t).run THEN bundle ELSE saved[r]]
              /\ heads' = [heads EXCEPT ![Here(t).entity] =
                                          [run |-> Here(t).run, close |-> Here(t).close]]
              /\ call' = [call EXCEPT ![t] = [Idle EXCEPT !.at = "saved", !.run = Here(t).run,
                            !.request = call[t].request, !.attempt = call[t].attempt]]
              /\ UNCHANGED attempts
    BY <1>3, Zenon DEF Commit
  <2> QED
    BY <2>1 DEF GivesUp, Commits, All, Closing, Working, audit
<1>4. ASSUME NEW t \in Threads, Fail(t) PROVE GivesUp(t) \/ Quits(t)
  BY <1>4 DEF Fail, GivesUp, Quits, NoneDelivered, Closing, Working, audit
<1>5. ASSUME NEW t \in Threads, NEW r \in Runs, NameTaken(t, r) PROVE Refuses(r)
  BY <1>5 DEF NameTaken, Refuses, NoneDelivered, Receipt
<1>6. ASSUME NEW t \in Threads, NEW r \in Runs, Publish(t, r) PROVE Shows(t, r)
  BY <1>6 DEF Publish, Shows, Exports, audit
<1>7. ASSUME NEW t \in Threads, DeliveryFails(t) PROVE Quits(t)
  BY <1>7 DEF DeliveryFails, Quits, NoneDelivered, Receipt
<1> QED
  BY <1>1, <1>2, <1>3, <1>4, <1>5, <1>6, <1>7 DEF Next, Steps

\* The attempt of a close is marked, and nothing else of the attempts changes.
LEMMA EventEffect ==
  ASSUME TypeOK, NEW n \in DOMAIN attempts,
         NEW s \in {"started", "committed", "replayed", "failed"}, Event(n, s)
  PROVE  /\ attempts' \in Seq(Attempts) /\ DOMAIN attempts' = DOMAIN attempts
         /\ \A m \in DOMAIN attempts : attempts'[m].request = attempts[m].request
         /\ \A m \in DOMAIN attempts \ {n} : attempts'[m] = attempts[m]
         /\ attempts'[n].status = s
<1>1. attempts \in Seq(Attempts) /\ n \in 1..Len(attempts) /\ attempts[n] \in Attempts
  BY DEF TypeOK
<1>2. attempts' = [attempts EXCEPT ![n] = [attempts[n] EXCEPT !.status = s]]
  BY <1>1 DEF Event
<1>3. [attempts[n] EXCEPT !.status = s] \in Attempts
  BY <1>1 DEF Attempts
<1> HIDE DEF Event
<1> QED
  BY <1>1, <1>2, <1>3 DEF Attempts

\* Idle is a state of a connection.
LEMMA IdleIsCall == Idle \in Calls
BY DEF Idle, Calls, Stages

\* What happens to the connections in a step.
LEMMA StartEffect ==
  ASSUME TypeOK, NEW t \in Threads, NEW x \in Names, Start(t, x)
  PROVE  /\ call' \in [Threads -> Calls] /\ \A s \in Threads \ {t} : call'[s] = call[s]
         /\ call'[t].at = "started" /\ call'[t].request = x /\ call'[t].run = Requests[x].run
         /\ call'[t].attempt = Len(attempts) + 1 /\ call[t].at = "idle"
         /\ attempts' \in Seq(Attempts) /\ DOMAIN attempts' = DOMAIN attempts \cup {Len(attempts) + 1}
         /\ Len(attempts) + 1 \notin DOMAIN attempts
         /\ \A n \in DOMAIN attempts : attempts'[n] = attempts[n]
         /\ attempts'[Len(attempts) + 1] = [request |-> x, status |-> "started"]
<1> DEFINE row == [request |-> x, status |-> "started"]
<1>1. row \in Attempts /\ attempts \in Seq(Attempts) /\ Len(attempts) \in Nat
  BY DEF Attempts, TypeOK
<1>2. attempts' = Append(attempts, row)
  BY DEF Start
<1>3. /\ attempts' \in Seq(Attempts) /\ DOMAIN attempts' = DOMAIN attempts \cup {Len(attempts) + 1}
      /\ Len(attempts) + 1 \notin DOMAIN attempts
      /\ \A n \in DOMAIN attempts : attempts'[n] = attempts[n]
      /\ attempts'[Len(attempts) + 1] = row
  <2> HIDE DEF row
  <2> QED
    BY <1>1, <1>2
<1>4. Len(attempts) + 1 \in Nat /\ Requests[x].run \in Runs
  BY <1>1 DEF Runs
<1>5. call' = [call EXCEPT ![t] = [Idle EXCEPT !.at = "started", !.request = x,
                                     !.run = Requests[x].run, !.attempt = Len(attempts) + 1]]
  BY DEF Start
<1>6. call'[t] = [Idle EXCEPT !.at = "started", !.request = x, !.run = Requests[x].run,
                              !.attempt = Len(attempts) + 1]
  BY <1>5 DEF TypeOK
<1>7. /\ call'[t] \in Calls /\ call'[t].at = "started" /\ call'[t].request = x
      /\ call'[t].run = Requests[x].run /\ call'[t].attempt = Len(attempts) + 1
  <2>1. "started" \in Stages
    BY DEF Stages, Closing, Working
  <2>2. call'[t] \in Calls
    BY <1>4, <1>6, <2>1, IdleIsCall DEF Calls
  <2>3. /\ call'[t].at = "started" /\ call'[t].request = x
        /\ call'[t].run = Requests[x].run /\ call'[t].attempt = Len(attempts) + 1
    BY <1>6, IdleIsCall DEF Calls
  <2> QED
    BY <2>2, <2>3
<1>8. call' \in [Threads -> Calls] /\ \A s \in Threads \ {t} : call'[s] = call[s]
  BY <1>5, <1>6, <1>7 DEF TypeOK
<1>9. call[t].at = "idle"
  BY DEF Start
<1> HIDE DEF row
<1> QED
  BY <1>3, <1>7, <1>8, <1>9 DEF row

LEMMA GoEffect ==
  ASSUME TypeOK, NEW t \in Threads, NEW stage \in Stages, Go(t, stage)
  PROVE  /\ call' \in [Threads -> Calls] /\ \A s \in Threads \ {t} : call'[s] = call[s]
         /\ call'[t] = [call[t] EXCEPT !.at = stage]
         /\ call'[t].at = stage /\ call'[t].request = call[t].request
         /\ call'[t].run = call[t].run /\ call'[t].attempt = call[t].attempt
<1>1. call[t] \in Calls
  BY DEF TypeOK
<1>2. [call[t] EXCEPT !.at = stage] \in Calls
  BY <1>1 DEF Calls
<1>3. call' = [call EXCEPT ![t] = [call[t] EXCEPT !.at = stage]]
  BY DEF Go
<1> QED
  BY <1>1, <1>2, <1>3 DEF TypeOK, Calls

LEMMA EndEffect ==
  ASSUME TypeOK, NEW t \in Threads, End(t)
  PROVE  /\ call' \in [Threads -> Calls] /\ \A s \in Threads \ {t} : call'[s] = call[s]
         /\ call'[t] = Idle /\ call'[t].at = "idle"
BY IdleIsCall DEF TypeOK, End, Idle

LEMMA PlaceEffect ==
  ASSUME TypeOK, NEW t \in Threads, NEW r \in Runs, NEW stage \in Stages, Place(t, r, stage)
  PROVE  /\ call' \in [Threads -> Calls] /\ \A s \in Threads \ {t} : call'[s] = call[s]
         /\ call'[t].at = stage /\ call'[t].run = r
<1>1. [Idle EXCEPT !.at = stage, !.run = r] \in Calls
  BY DEF Idle, Calls
<1> QED
  BY <1>1 DEF TypeOK, Place, Idle

LEMMA BeginEffect ==
  ASSUME TypeOK, NEW t \in Threads, Begin(t)
  PROVE  /\ call' \in [Threads -> Calls] /\ \A s \in Threads \ {t} : call'[s] = call[s]
         /\ call'[t].at = "open" /\ call'[t].request = call[t].request
         /\ call'[t].run = call[t].run /\ call'[t].attempt = call[t].attempt
         /\ call'[t].view = [stored |-> stored, saved |-> DOMAIN saved, heads |-> heads]
         /\ call'[t].view \in Views
<1> DEFINE view == [stored |-> stored, saved |-> DOMAIN saved, heads |-> heads]
<1>1. view \in Views
  BY DEF TypeOK, Views, Runs
<1>2. call[t] \in Calls
  BY DEF TypeOK
<1>3. call' = [call EXCEPT ![t] = [[call[t] EXCEPT !.at = "open"] EXCEPT !.view = view]]
  BY DEF Begin
<1>4. [[call[t] EXCEPT !.at = "open"] EXCEPT !.view = view] \in Calls
  <2> HIDE DEF view
  <2> QED
    BY <1>1, <1>2 DEF Calls, Stages, Closing, Working
<1> HIDE DEF view
<1>5. call'[t] = [[call[t] EXCEPT !.at = "open"] EXCEPT !.view = view]
  BY <1>3 DEF TypeOK
<1>6. /\ call'[t].at = "open" /\ call'[t].request = call[t].request
      /\ call'[t].run = call[t].run /\ call'[t].attempt = call[t].attempt
      /\ call'[t].view = view
  BY <1>2, <1>5 DEF Calls
<1> QED
  BY <1>1, <1>3, <1>4, <1>6 DEF TypeOK, view

LEMMA AtMostOne ==
  ASSUME NEW S, NEW v, S = {} \/ S = {v}
  PROVE  IsFiniteSet(S) /\ Cardinality(S) \in {0, 1} /\ (S # {} => Cardinality(S) = 1)
<1>1. CASE S = {}
  BY <1>1, FS_EmptySet
<1>2. CASE S = {v}
  <2>1. IsFiniteSet({v}) /\ Cardinality({v}) = 1
    BY FS_Singleton
  <2> QED
    BY <1>2, <2>1
<1> QED
  BY <1>1, <1>2

\* The versions a transaction writes: what they say, and their numbers, which
\* nobody has had.
LEMMA DrawnFacts ==
  ASSUME TypeOK, NEW t \in Threads, call[t].request \in Names, call[t].view \in Views, Writes(t)
  PROVE  LET drawn == Drawn(t, "budget") \cup Drawn(t, "actuals")
             q == Here(t)
         IN  /\ drawn \subseteq Versions /\ sequence' \in Nat /\ sequence <= sequence'
             /\ \A v \in drawn :
                  /\ v.entity = q.entity /\ v.version = q[v.kind].version
                  /\ v.of = call[t].request /\ v.kind \in Kinds
                  /\ sequence < v.sequence /\ v.sequence <= sequence'
                  /\ Lookup(call[t].view.stored, v.kind, v.version) = {}
             /\ \A v, w \in drawn : v.kind = w.kind \/ v.sequence = w.sequence => v = w
             /\ \A k \in Kinds : Lookup(call[t].view.stored \cup drawn, k, q[k].version) # {}
<1> DEFINE b == Drawn(t, "budget")
           a == Drawn(t, "actuals")
           q == Here(t)
           x == call[t].request
           old == call[t].view.stored
           Row(k, n) == [kind |-> k, version |-> q[k].version, entity |-> q.entity,
                         of |-> x, sequence |-> n]
<1>1. \A k \in Kinds, n \in Nat : Row(k, n) \in Versions
  <2>1. q.entity \in Entities /\ \A k \in Kinds : q[k].version \in Labels
    BY DEF Entities, Labels, Here
  <2> QED
    BY <2>1 DEF Versions
<1>2. sequence \in Nat
  BY DEF TypeOK
<1>3. \/ b = {} /\ Lookup(old, "budget", q["budget"].version) # {}
      \/ b = {Row("budget", sequence + 1)} /\ Lookup(old, "budget", q["budget"].version) = {}
  BY DEF Drawn, Insert, Here
<1>4. PICK m \in {0, 1} : Cardinality(b) = m /\ (b # {} => m = 1) /\ IsFiniteSet(b)
  <2>1. b = {} \/ b = {Row("budget", sequence + 1)}
    BY <1>3
  <2> HIDE DEF b, Row
  <2> QED
    BY <2>1, AtMostOne
<1>5. a = Insert(old, "actuals", x, sequence + m + 1)
  <2>1. Drawn(t, "budget") = Insert(old, "budget", x, sequence + 1)
    BY DEF Drawn
  <2>2. Drawn(t, "actuals")
        = Insert(old, "actuals", x,
                 sequence + Cardinality(Insert(old, "budget", x, sequence + 1)) + 1)
    BY DEF Drawn
  <2> QED
    BY <1>4, <2>1, <2>2
<1>6. \/ a = {} /\ Lookup(old, "actuals", q["actuals"].version) # {}
      \/ /\ a = {Row("actuals", sequence + m + 1)}
         /\ Lookup(old, "actuals", q["actuals"].version) = {}
  BY <1>5 DEF Insert, Here
<1> HIDE DEF a, b, Row
<1>7. PICK n \in {0, 1} : Cardinality(a) = n /\ (a # {} => n = 1) /\ IsFiniteSet(a)
  <2>1. a = {} \/ a = {Row("actuals", sequence + m + 1)}
    BY <1>6
  <2> QED
    BY <2>1, AtMostOne
<1>8. IsFiniteSet(b) /\ b \cap a = {}
  <2>1. IsFiniteSet(b)
    BY <1>4
  <2>2. \A v \in b, w \in a : v.kind = "budget" /\ w.kind = "actuals"
    BY <1>3, <1>6 DEF Row
  <2> QED
    BY <2>1, <2>2
<1>9. Cardinality(b \cup a) = m + n
  <2>1. Cardinality(b \cup a) = Cardinality(b) + Cardinality(a) - Cardinality(b \cap a)
    BY <1>7, <1>8, FS_Union
  <2>2. Cardinality(b \cap a) = 0
    BY <1>8, FS_EmptySet
  <2> QED
    BY <1>4, <1>7, <2>1, <2>2
<1>10. sequence' = sequence + m + n
  <2>1. sequence' = sequence + Cardinality(b \cup a)
    BY DEF Writes, a, b
  <2> QED
    BY <1>2, <1>9, <2>1
<1>11. \A v \in b : v = Row("budget", sequence + 1) /\ m = 1
  BY <1>3, <1>4
<1>12. \A v \in a : v = Row("actuals", sequence + m + 1) /\ n = 1
  BY <1>6, <1>7
<1>13. \A v \in b : /\ v.kind = "budget" /\ v.version = q["budget"].version /\ v.entity = q.entity
                    /\ v.of = x /\ v.sequence = sequence + 1 /\ v \in Versions
                    /\ Lookup(old, "budget", q["budget"].version) = {}
  BY <1>1, <1>2, <1>3, <1>11 DEF Kinds, Row
<1>14. \A v \in a : /\ v.kind = "actuals" /\ v.version = q["actuals"].version
                    /\ v.entity = q.entity /\ v.of = x /\ v.sequence = sequence + m + 1
                    /\ v \in Versions /\ Lookup(old, "actuals", q["actuals"].version) = {}
  BY <1>1, <1>2, <1>6, <1>12 DEF Kinds, Row
<1>15. \A k \in Kinds : Lookup(old \cup (b \cup a), k, q[k].version) # {}
  <2>1. Lookup(old \cup (b \cup a), "budget", q["budget"].version) # {}
    BY <1>3, <1>13 DEF Lookup, Row
  <2>2. Lookup(old \cup (b \cup a), "actuals", q["actuals"].version) # {}
    BY <1>6, <1>14 DEF Lookup, Row
  <2> QED
    BY <2>1, <2>2 DEF Kinds
<1>16. \A v \in b \cup a : /\ v.entity = q.entity /\ v.version = q[v.kind].version
                           /\ v.of = x /\ v.kind \in Kinds /\ v \in Versions
                           /\ Lookup(old, v.kind, v.version) = {}
  BY <1>13, <1>14 DEF Kinds
<1>17. \A v \in b \cup a : sequence < v.sequence /\ v.sequence <= sequence'
  BY <1>2, <1>10, <1>11, <1>12, <1>13, <1>14
<1>18. \A v, w \in b \cup a : v.kind = w.kind \/ v.sequence = w.sequence => v = w
  <2>1. \A v, w \in b : v = w
    BY <1>11
  <2>2. \A v, w \in a : v = w
    BY <1>12
  <2>3. \A v \in b, w \in a : v.kind # w.kind /\ v.sequence # w.sequence
    BY <1>2, <1>11, <1>13, <1>14
  <2> QED
    BY <2>1, <2>2, <2>3
<1>19. sequence' \in Nat /\ sequence <= sequence'
  BY <1>2, <1>10
<1> QED
  BY <1>15, <1>16, <1>17, <1>18, <1>19 DEF a, b

\* What it means for the connection to write them.
LEMMA WriteEffect ==
  ASSUME TypeOK, NEW t \in Threads, call[t].request \in Names, call[t].view \in Views, Writes(t)
  PROVE  /\ call' \in [Threads -> Calls] /\ \A s \in Threads \ {t} : call'[s] = call[s]
         /\ call'[t].at = "written" /\ call'[t].request = call[t].request
         /\ call'[t].run = call[t].run /\ call'[t].attempt = call[t].attempt
         /\ call'[t].view = call[t].view
         /\ call'[t].writes = Drawn(t, "budget") \cup Drawn(t, "actuals")
<1> DEFINE drawn == Drawn(t, "budget") \cup Drawn(t, "actuals")
<1>1. drawn \subseteq Versions
  BY DrawnFacts
<1>2. call' = [call EXCEPT ![t].at = "written", ![t].writes = drawn]
  BY DEF Writes
<1> HIDE DEF drawn
<1>3. call[t] \in Calls
  BY DEF TypeOK
<1>4. call' = [call EXCEPT ![t] = [[call[t] EXCEPT !.at = "written"] EXCEPT !.writes = drawn]]
  BY <1>2
<1>5. [[call[t] EXCEPT !.at = "written"] EXCEPT !.writes = drawn] \in Calls
  BY <1>1, <1>3 DEF Calls, Stages, Closing, Working
<1>6. call'[t] = [[call[t] EXCEPT !.at = "written"] EXCEPT !.writes = drawn]
  BY <1>4 DEF TypeOK
<1>7. /\ call'[t].at = "written" /\ call'[t].request = call[t].request
      /\ call'[t].run = call[t].run /\ call'[t].attempt = call[t].attempt
      /\ call'[t].view = call[t].view /\ call'[t].writes = drawn
  BY <1>3, <1>6 DEF Calls
<1> QED
  BY <1>4, <1>5, <1>7 DEF TypeOK, drawn

\* A commit adds one close under a new run ID, makes it the head of its entity
\* and leaves everything else as it was.
LEMMA CommitEffect ==
  ASSUME TypeOK, HandInv, NEW t \in Threads, Commits(t)
  PROVE  /\ call[t].request \in Names /\ Here(t).run = call[t].run /\ call[t].run \in Runs
         /\ Here(t).entity \in Entities /\ call[t].at = "written"
         /\ call' \in [Threads -> Calls] /\ \A s \in Threads \ {t} : call'[s] = call[s]
         /\ call'[t].at = "saved" /\ call'[t].request = call[t].request
         /\ call'[t].run = call[t].run /\ call'[t].attempt = call[t].attempt
         /\ call[t].run \notin DOMAIN saved /\ DOMAIN saved' = DOMAIN saved \cup {call[t].run}
         /\ \A s \in DOMAIN saved : saved'[s] = saved[s]
         /\ saved'[call[t].run].request = call[t].request
         /\ saved'[call[t].run].effective = Panel(All(t), Here(t))
         /\ heads' \in [Entities -> Heads]
         /\ heads'[Here(t).entity] = [run |-> call[t].run, close |-> Here(t).close]
         /\ \A e \in Entities \ {Here(t).entity} : heads'[e] = heads[e]
         /\ heads[Here(t).entity] = call[t].view.heads[Here(t).entity]
         /\ stored' = stored \cup call[t].writes
         /\ \A v \in call[t].writes : v \in Versions /\ Lookup(stored, v.kind, v.version) = {}
<1> DEFINE q == Here(t)
           r == call[t].run
           x == call[t].request
           panel == Panel(All(t), q)
<1>1. call[t].at = "written" /\ ~Collides(t)
  BY DEF Commits
<1>2. x \in Names /\ q.run = r /\ q.entity \in Entities /\ r \in Runs /\ call[t] \in Calls
  BY <1>1 DEF HandInv, TypeOK, Closing, Working, Here, Entities, Runs
<1>3. q.close \in Nat /\ [run |-> r, close |-> q.close] \in Heads
  BY <1>2, RequestAssumption, TreeAssumption DEF Here, Periods, Heads
<1>4. /\ r \notin DOMAIN saved /\ heads[q.entity] = call[t].view.heads[q.entity]
      /\ \A v \in call[t].writes : v \in Versions /\ Lookup(stored, v.kind, v.version) = {}
  BY <1>1, <1>2 DEF Collides, Calls
<1>5. heads' = [heads EXCEPT ![q.entity] = [run |-> r, close |-> q.close]]
  BY <1>2 DEF Commits
<1>6. saved' = [s \in DOMAIN saved \cup {r} |-> IF s = r THEN Bundle(x, panel) ELSE saved[s]]
  BY <1>2 DEF Commits
<1>7. Bundle(x, panel).request = x /\ Bundle(x, panel).effective = panel
  BY DEF Bundle
<1>8. /\ DOMAIN saved' = DOMAIN saved \cup {r} /\ saved'[r] = Bundle(x, panel)
      /\ \A s \in DOMAIN saved : saved'[s] = saved[s]
  BY <1>4, <1>6
<1>9. call' = [call EXCEPT ![t] = [Idle EXCEPT !.at = "saved", !.run = r, !.request = x,
                                     !.attempt = call[t].attempt]]
  BY <1>2 DEF Commits
<1>10. call'[t] = [Idle EXCEPT !.at = "saved", !.run = r, !.request = x,
                              !.attempt = call[t].attempt]
  BY <1>9 DEF TypeOK
<1>11. "saved" \in Stages /\ call[t].attempt \in Nat
  BY <1>2 DEF Stages, Closing, Calls
<1>12. call'[t] \in Calls
  <2>1. r \in Runs \cup {"none"} /\ x \in Names \cup {"none"}
    BY <1>2
  <2> HIDE DEF r, x
  <2> QED
    BY <1>10, <1>11, <2>1, IdleIsCall DEF Calls
<1>13. /\ call'[t].at = "saved" /\ call'[t].request = x /\ call'[t].run = r
       /\ call'[t].attempt = call[t].attempt
  BY <1>10, IdleIsCall DEF Calls
<1>14. call' \in [Threads -> Calls] /\ \A s \in Threads \ {t} : call'[s] = call[s]
  BY <1>9, <1>12, <1>10 DEF TypeOK
<1>15. stored' = stored \cup call[t].writes
  BY DEF Commits
<1>16. /\ heads' \in [Entities -> Heads] /\ heads'[q.entity] = [run |-> r, close |-> q.close]
       /\ \A e \in Entities \ {q.entity} : heads'[e] = heads[e]
  BY <1>2, <1>3, <1>5 DEF TypeOK
<1> HIDE DEF panel, q, r, x
<1>17. saved'[r].request = x /\ saved'[r].effective = panel
  BY <1>7, <1>8
<1> QED
  BY <1>1, <1>2, <1>4, <1>8, <1>13, <1>14, <1>15, <1>16, <1>17 DEF panel, q, r, x

\* Types are preserved.
LEMMA TypePreserved ==
  ASSUME TypeOK, HandInv, ViewInv, [Next]_vars
  PROVE  TypeOK'
<1>1. ASSUME NEW t \in Threads, NEW x \in Names, Start(t, x) PROVE TypeOK'
  BY <1>1, StartEffect DEF TypeOK, Start, db, audit, out
<1>2. ASSUME NEW t \in Threads, NEW r \in Runs, Deliver(t, r) PROVE TypeOK'
  <2>1. "placed" \in Stages /\ Place(t, r, "placed")
    BY <1>2 DEF Deliver, Stages
  <2> QED
    BY <1>2, <2>1, PlaceEffect DEF TypeOK, Deliver, db, audit, out
<1>3. ASSUME NEW t \in Threads, NEW r \in Runs, Shows(t, r) PROVE TypeOK'
  <2>1. "published" \in Stages /\ Place(t, r, "published")
    BY <1>3 DEF Shows, Stages
  <2> QED
    BY <1>3, <2>1, PlaceEffect DEF TypeOK, Shows, db, audit, out
<1>4. ASSUME NEW t \in Threads, NotSaved(t) PROVE TypeOK'
  <2>1. "unsaved" \in Stages /\ Go(t, "unsaved")
    BY <1>4 DEF NotSaved, Stages, Closing, Working
  <2> QED
    BY <1>4, <2>1, GoEffect DEF TypeOK, NotSaved, db, audit, out
<1>5. ASSUME NEW t \in Threads, Begin(t) PROVE TypeOK'
  BY <1>5, BeginEffect DEF TypeOK, Begin, db, audit, out
<1>6. ASSUME NEW t \in Threads, Committed(t) PROVE TypeOK'
  <2>1. call[t].attempt \in DOMAIN attempts
    BY <1>6 DEF Committed, HandInv, Closing
  <2>2. Event(call[t].attempt, "committed") /\ End(t)
    BY <1>6 DEF Committed
  <2> QED
    BY <1>6, <2>1, <2>2, EventEffect, EndEffect DEF TypeOK, Committed, db, audit, out
<1>7. ASSUME NEW t \in Threads, Delivered(t) PROVE TypeOK'
  <2>1. End(t)
    BY <1>7 DEF Delivered
  <2> QED
    BY <1>7, <2>1, EndEffect DEF TypeOK, Delivered, db, audit, out
<1>8. ASSUME NEW t \in Threads, Published(t) PROVE TypeOK'
  <2>1. End(t)
    BY <1>8 DEF Published
  <2> QED
    BY <1>8, <2>1, EndEffect DEF TypeOK, Published, db, audit, out
<1>9. ASSUME NEW t \in Threads, GivesUp(t) PROVE TypeOK'
  <2>1. call[t].attempt \in DOMAIN attempts
    BY <1>9 DEF GivesUp, HandInv, Closing
  <2>2. Event(call[t].attempt, "failed") /\ End(t)
    BY <1>9 DEF GivesUp
  <2> QED
    BY <1>9, <2>1, <2>2, EventEffect, EndEffect DEF TypeOK, GivesUp, db, audit, out
<1>10. ASSUME NEW t \in Threads, Replays(t) PROVE TypeOK'
  <2>1. call[t].attempt \in DOMAIN attempts
    BY <1>10 DEF Replays, HandInv, Closing, Working
  <2>2. Event(call[t].attempt, "replayed") /\ End(t)
    BY <1>10 DEF Replays
  <2> QED
    BY <1>10, <2>1, <2>2, EventEffect, EndEffect DEF TypeOK, Replays, db, audit, out
<1>11. ASSUME NEW t \in Threads, Writes(t) PROVE TypeOK'
  <2>1. call[t].request \in Names /\ call[t].view \in Views
    BY <1>11 DEF Writes, HandInv, ViewInv, Closing, Working
  <2> QED
    BY <1>11, <2>1, DrawnFacts, WriteEffect DEF TypeOK, Writes, db, audit, out
<1>12. ASSUME NEW t \in Threads, Commits(t) PROVE TypeOK'
  <2>1. stored' \subseteq Versions
    BY <1>12, CommitEffect DEF TypeOK
  <2>2. \A r \in DOMAIN saved' : saved'[r].request \in Names /\ Requests[saved'[r].request].run = r
    <3>1. ASSUME NEW r \in DOMAIN saved
          PROVE  saved'[r].request \in Names /\ Requests[saved'[r].request].run = r
      <4>1. saved'[r] = saved[r]
        BY <1>12, CommitEffect
      <4>2. saved[r].request \in Names /\ Requests[saved[r].request].run = r
        BY <3>1 DEF TypeOK
      <4> QED
        BY <4>1, <4>2
    <3>2. /\ saved'[call[t].run].request \in Names
          /\ Requests[saved'[call[t].run].request].run = call[t].run
      BY <1>12, CommitEffect DEF Here
    <3>3. DOMAIN saved' = DOMAIN saved \cup {call[t].run}
      BY <1>12, CommitEffect
    <3> QED
      BY <3>1, <3>2, <3>3
  <2>3. heads' \in [Entities -> Heads] /\ call' \in [Threads -> Calls]
    BY <1>12, CommitEffect
  <2>4. UNCHANGED <<sequence, attempts>>
    BY <1>12 DEF Commits, audit
  <2> QED
    BY <2>1, <2>2, <2>3, <2>4 DEF TypeOK
<1>13. ASSUME NEW t \in Threads, Quits(t) PROVE TypeOK'
  <2>1. End(t)
    BY <1>13 DEF Quits
  <2> QED
    BY <1>13, <2>1, EndEffect DEF TypeOK, Quits, db, audit, out
<1>14. ASSUME NEW r \in Runs, Refuses(r) PROVE TypeOK'
  BY <1>14 DEF TypeOK, Refuses, db, audit, out
<1>15. CASE Crash
  BY <1>15, IdleIsCall DEF TypeOK, Crash, db, audit, out
<1>16. CASE UNCHANGED vars
  BY <1>16 DEF TypeOK, vars, db, audit, out
<1> QED
  BY <1>1, <1>2, <1>3, <1>4, <1>5, <1>6, <1>7, <1>8, <1>9, <1>10, <1>11, <1>12, <1>13, <1>14, <1>15,
     <1>16, StepKinds
    DEF Steps

\* Only a commit changes the store, and only new versions draw numbers.
LEMMA OnlyCommits ==
  ASSUME [Next]_vars
  PROVE  /\ (UNCHANGED db) \/ \E t \in Threads : Commits(t)
         /\ sequence' = sequence \/ \E t \in Threads : Writes(t)
<1> DEFINE P == /\ (UNCHANGED db) \/ \E t \in Threads : Commits(t)
                /\ sequence' = sequence \/ \E t \in Threads : Writes(t)
<1>1. ASSUME NEW t \in Threads, NEW x \in Names, Start(t, x) PROVE P
  BY <1>1 DEF Start, db
<1>2. ASSUME NEW t \in Threads, NEW r \in Runs, Deliver(t, r) PROVE P
  BY <1>2 DEF Deliver, db
<1>3. ASSUME NEW t \in Threads, NEW r \in Runs, Shows(t, r) PROVE P
  BY <1>3 DEF Shows, db
<1>4. ASSUME NEW t \in Threads, NotSaved(t) PROVE P
  BY <1>4 DEF NotSaved, db
<1>5. ASSUME NEW t \in Threads, Begin(t) PROVE P
  BY <1>5 DEF Begin, db
<1>6. ASSUME NEW t \in Threads, Committed(t) PROVE P
  BY <1>6 DEF Committed, db
<1>7. ASSUME NEW t \in Threads, Delivered(t) PROVE P
  BY <1>7 DEF Delivered, db
<1>8. ASSUME NEW t \in Threads, Published(t) PROVE P
  BY <1>8 DEF Published, db
<1>9. ASSUME NEW t \in Threads, GivesUp(t) PROVE P
  BY <1>9 DEF GivesUp, db
<1>10. ASSUME NEW t \in Threads, Replays(t) PROVE P
  BY <1>10 DEF Replays, db
<1>11. ASSUME NEW t \in Threads, Writes(t) PROVE P
  BY <1>11 DEF Writes, db
<1>12. ASSUME NEW t \in Threads, Commits(t) PROVE P
  BY <1>12 DEF Commits, db
<1>13. ASSUME NEW t \in Threads, Quits(t) PROVE P
  BY <1>13 DEF Quits, db
<1>14. ASSUME NEW r \in Runs, Refuses(r) PROVE P
  BY <1>14 DEF Refuses, db
<1>15. CASE Crash
  BY <1>15 DEF Crash, db
<1>16. CASE UNCHANGED vars
  BY <1>16 DEF vars, db
<1> QED
  BY <1>1, <1>2, <1>3, <1>4, <1>5, <1>6, <1>7, <1>8, <1>9, <1>10, <1>11, <1>12, <1>13, <1>14, <1>15,
     <1>16, StepKinds
    DEF Steps

\* A saved close stays, as it is.
LEMMA SavedGrows ==
  ASSUME TypeOK, HandInv, [Next]_vars
  PROVE  DOMAIN saved \subseteq DOMAIN saved' /\ \A r \in DOMAIN saved : saved'[r] = saved[r]
<1>1. CASE UNCHANGED db
  BY <1>1 DEF db
<1>2. ASSUME NEW t \in Threads, Commits(t)
      PROVE  DOMAIN saved \subseteq DOMAIN saved' /\ \A r \in DOMAIN saved : saved'[r] = saved[r]
  BY <1>2, CommitEffect
<1> QED
  BY <1>1, <1>2, OnlyCommits

LEMMA SequenceGrows ==
  ASSUME TypeOK, HandInv, ViewInv, [Next]_vars
  PROVE  sequence \in Nat /\ sequence' \in Nat /\ sequence <= sequence'
<1>1. sequence \in Nat
  BY DEF TypeOK
<1>2. CASE sequence' = sequence
  BY <1>1, <1>2
<1>3. ASSUME NEW t \in Threads, Writes(t)
      PROVE  sequence' \in Nat /\ sequence <= sequence'
  <2>1. call[t].request \in Names /\ call[t].view \in Views
    BY <1>3 DEF Writes, HandInv, ViewInv, Closing, Working
  <2> QED
    BY <1>3, <2>1, DrawnFacts
<1> QED
  BY <1>1, <1>2, <1>3, OnlyCommits

\* A connection with an open transaction has opened it in this step, has
\* written its versions in this step, or has not moved.
LEMMA CallSteps ==
  ASSUME TypeOK, HandInv, ViewInv, [Next]_vars, NEW s \in Threads, call'[s].at \in Open
  PROVE  call'[s] = call[s] \/ Begin(s) \/ Writes(s)
<1> DEFINE P == call'[s] = call[s] \/ Begin(s) \/ Writes(s)
<1>1. ASSUME NEW t \in Threads, NEW x \in Names, Start(t, x) PROVE P
  BY <1>1, StartEffect DEF Open
<1>2. ASSUME NEW t \in Threads, NEW r \in Runs, Deliver(t, r) PROVE P
  <2>1. "placed" \in Stages /\ Place(t, r, "placed")
    BY <1>2 DEF Deliver, Stages
  <2> QED
    BY <1>2, <2>1, PlaceEffect DEF Open
<1>3. ASSUME NEW t \in Threads, NEW r \in Runs, Shows(t, r) PROVE P
  <2>1. "published" \in Stages /\ Place(t, r, "published")
    BY <1>3 DEF Shows, Stages
  <2> QED
    BY <1>3, <2>1, PlaceEffect DEF Open
<1>4. ASSUME NEW t \in Threads, NotSaved(t) PROVE P
  <2>1. "unsaved" \in Stages /\ Go(t, "unsaved")
    BY <1>4 DEF NotSaved, Stages, Closing, Working
  <2> QED
    BY <1>4, <2>1, GoEffect DEF Open
<1>5. ASSUME NEW t \in Threads, Begin(t) PROVE P
  BY <1>5, BeginEffect
<1>6. ASSUME NEW t \in Threads, Committed(t) PROVE P
<2>1. End(t)
    BY <1>6 DEF Committed
  <2> QED
    BY <1>6, <2>1, EndEffect DEF Open
<1>7. ASSUME NEW t \in Threads, Delivered(t) PROVE P
<2>1. End(t)
    BY <1>7 DEF Delivered
  <2> QED
    BY <1>7, <2>1, EndEffect DEF Open
<1>8. ASSUME NEW t \in Threads, Published(t) PROVE P
<2>1. End(t)
    BY <1>8 DEF Published
  <2> QED
    BY <1>8, <2>1, EndEffect DEF Open
<1>9. ASSUME NEW t \in Threads, GivesUp(t) PROVE P
<2>1. End(t)
    BY <1>9 DEF GivesUp
  <2> QED
    BY <1>9, <2>1, EndEffect DEF Open
<1>10. ASSUME NEW t \in Threads, Replays(t) PROVE P
<2>1. End(t)
    BY <1>10 DEF Replays
  <2> QED
    BY <1>10, <2>1, EndEffect DEF Open
<1>11. ASSUME NEW t \in Threads, Writes(t) PROVE P
  <2>1. call[t].request \in Names /\ call[t].view \in Views
    BY <1>11 DEF Writes, HandInv, ViewInv, Closing, Working
  <2> QED
    BY <1>11, <2>1, WriteEffect
<1>12. ASSUME NEW t \in Threads, Commits(t) PROVE P
  BY <1>12, CommitEffect DEF Open
<1>13. ASSUME NEW t \in Threads, Quits(t) PROVE P
<2>1. End(t)
    BY <1>13 DEF Quits
  <2> QED
    BY <1>13, <2>1, EndEffect DEF Open
<1>14. ASSUME NEW r \in Runs, Refuses(r) PROVE P
  BY <1>14 DEF Refuses
<1>15. CASE Crash
  BY <1>15 DEF Crash, Idle, Open
<1>16. CASE UNCHANGED vars
  BY <1>16 DEF vars
<1> QED
  BY <1>1, <1>2, <1>3, <1>4, <1>5, <1>6, <1>7, <1>8, <1>9, <1>10, <1>11, <1>12, <1>13, <1>14, <1>15,
     <1>16, StepKinds
    DEF Steps

\* What a commit adds to the store.
LEMMA CommitRows ==
  ASSUME TypeOK, HandInv, ViewInv, PreparedInv, NEW t \in Threads, Commits(t)
  PROVE  /\ \A v \in call[t].writes :
              /\ v \in Versions /\ v.entity = Here(t).entity /\ v.sequence <= sequence
              /\ Lookup(stored, v.kind, v.version) = {}
              /\ \A w \in stored : w.sequence # v.sequence
              /\ \A w \in OfEntity(stored, Here(t).entity) : w.sequence < v.sequence
              /\ \A w \in call[t].writes : w.kind = v.kind \/ w.sequence = v.sequence => w = v
         /\ \A e \in Entities \ {Here(t).entity} : OfEntity(stored', e) = OfEntity(stored, e)
         /\ OfEntity(stored', Here(t).entity) = OfEntity(All(t), Here(t).entity)
         /\ OfEntity(stored, Here(t).entity) = OfEntity(call[t].view.stored, Here(t).entity)
         /\ All(t) \subseteq stored'
<1>1. call[t].at = "written" /\ Here(t).entity \in Entities /\ stored' = stored \cup call[t].writes
  BY CommitEffect
<1>2. \A v \in call[t].writes :
        /\ v.entity = Here(t).entity /\ v.sequence <= sequence
        /\ \A w \in call[t].view.stored : w.sequence < v.sequence
        /\ \A w \in stored : w.sequence # v.sequence
        /\ \A w \in call[t].writes : w.kind = v.kind \/ w.sequence = v.sequence => w = v
  BY <1>1 DEF PreparedInv
<1>3. heads[Here(t).entity] = call[t].view.heads[Here(t).entity]
  BY CommitEffect
<1>4. /\ OfEntity(stored, Here(t).entity) = OfEntity(call[t].view.stored, Here(t).entity)
      /\ call[t].view.stored \subseteq stored
  BY <1>1, <1>3 DEF ViewInv
<1>5. \A w \in OfEntity(stored, Here(t).entity) : w \in call[t].view.stored
  BY <1>4 DEF OfEntity
<1>6. \A e \in Entities \ {Here(t).entity} : OfEntity(stored', e) = OfEntity(stored, e)
  BY <1>1, <1>2 DEF OfEntity
<1>7. OfEntity(stored', Here(t).entity) = OfEntity(All(t), Here(t).entity)
  BY <1>1, <1>4 DEF OfEntity, All
<1>8. \A v \in call[t].writes : v \in Versions /\ Lookup(stored, v.kind, v.version) = {}
  BY CommitEffect
<1>9. All(t) \subseteq stored'
  BY <1>1, <1>4 DEF All
<1> QED
  BY <1>2, <1>4, <1>5, <1>6, <1>7, <1>8, <1>9

\* Labels and numbers stay unique.
LEMMA StorePreserved ==
  ASSUME TypeOK, HandInv, ViewInv, StoreInv, PreparedInv, [Next]_vars
  PROVE  StoreInv'
<1>1. sequence \in Nat /\ sequence' \in Nat /\ sequence <= sequence'
  BY SequenceGrows
<1>2. \A v \in stored : v.sequence \in Nat
  BY DEF TypeOK, Versions
<1>3. CASE UNCHANGED db
  BY <1>1, <1>2, <1>3 DEF StoreInv, db
<1>4. ASSUME NEW t \in Threads, Commits(t) PROVE StoreInv'
  <2>1. stored' = stored \cup call[t].writes /\ sequence' = sequence
    BY <1>4 DEF Commits
  <2>2. \A v \in call[t].writes :
          /\ v \in Versions /\ v.sequence <= sequence /\ Lookup(stored, v.kind, v.version) = {}
          /\ \A w \in stored : w.sequence # v.sequence
          /\ \A w \in call[t].writes : w.kind = v.kind \/ w.sequence = v.sequence => w = v
    BY <1>4, CommitRows
  <2>3. \A v \in stored' : v.sequence <= sequence'
    BY <2>1, <2>2 DEF StoreInv
  <2>4. \A v \in call[t].writes, w \in stored :
          ~(v.kind = w.kind /\ v.version = w.version) /\ v.sequence # w.sequence
    BY <2>2 DEF Lookup
  <2>5. ASSUME NEW v \in stored', NEW w \in stored',
               (v.kind = w.kind /\ v.version = w.version) \/ v.sequence = w.sequence
        PROVE  v = w
    <3>1. CASE v \in stored /\ w \in stored
      BY <2>5, <3>1 DEF StoreInv
    <3>2. CASE v \in call[t].writes /\ w \in call[t].writes
      BY <2>2, <2>5, <3>2
    <3>3. CASE v \in call[t].writes /\ w \in stored
      BY <2>4, <2>5, <3>3
    <3>4. CASE v \in stored /\ w \in call[t].writes
      BY <2>4, <2>5, <3>4
    <3> QED
      BY <2>1, <3>1, <3>2, <3>3, <3>4
  <2> QED
    BY <2>3, <2>5 DEF StoreInv
<1> QED
  BY <1>3, <1>4, OnlyCommits

\* The line of one entity, by name.
Of(r)   == Requests[saved[r].request]
Line(e) == {r \in DOMAIN saved : Of(r).entity = e}
EndsInHead(e) ==
  IF Line(e) = {} THEN heads[e] = NoHead
  ELSE /\ heads[e].run \in Line(e)
       /\ \A r \in Line(e) : Of(r).close <= heads[e].close /\ Of(r).supersedes # heads[e].run
Succeeds(e) ==
  /\ \A r \in Line(e) : Of(r).supersedes # "none" =>
       Of(r).supersedes \in Line(e) /\ Of(Of(r).supersedes).close = Of(r).close
  /\ \A r, s \in Line(e) :
       r # s /\ Of(r).close = Of(s).close => Of(r).supersedes # Of(s).supersedes

LEMMA LinesByEntity ==
  /\ OneLineOfCloses <=> \A e \in Entities : EndsInHead(e) /\ Succeeds(e)
  /\ OneLineOfCloses' <=> \A e \in Entities : EndsInHead(e)' /\ Succeeds(e)'
BY DEF OneLineOfCloses, EndsInHead, Succeeds, Line, Of

\* The new close of a commit, in the line of its entity.
LEMMA LinePreserved ==
  ASSUME TypeOK, HandInv, ViewInv, PreparedInv, HeadInv, OneLineOfCloses, [Next]_vars
  PROVE  OneLineOfCloses'
<1>1. CASE UNCHANGED db
  BY <1>1 DEF OneLineOfCloses, db
<1>2. ASSUME NEW t \in Threads, Commits(t) PROVE OneLineOfCloses'
  <2>0. PICK q, n, d : q = Here(t) /\ n = call[t].run /\ d = Here(t).entity
    OBVIOUS
  <2>1. \A e \in Entities : EndsInHead(e) /\ Succeeds(e)
    BY LinesByEntity
  <2>2. /\ call[t].request \in Names /\ q.run = n /\ n \in Runs /\ d \in Entities
        /\ n \notin DOMAIN saved /\ DOMAIN saved' = DOMAIN saved \cup {n}
        /\ \A r \in DOMAIN saved : saved'[r] = saved[r]
        /\ saved'[n].request = call[t].request
        /\ heads'[d] = [run |-> n, close |-> q.close]
        /\ \A e \in Entities \ {d} : heads'[e] = heads[e]
        /\ heads[d] = call[t].view.heads[d] /\ call[t].at = "written"
    BY <1>2, <2>0, CommitEffect
  <2>3. Of(n)' = q
    BY <2>0, <2>2 DEF Of, Here
  <2>4. \A r \in DOMAIN saved : Of(r)' = Of(r)
    BY <2>2 DEF Of
  <2>5. \A e \in Entities \ {d} : Line(e)' = Line(e)
    BY <2>0, <2>2, <2>3, <2>4 DEF Line
  <2>6. Line(d)' = Line(d) \cup {n} /\ n \notin Line(d)
    BY <2>0, <2>2, <2>3, <2>4 DEF Line
  <2>7. \A e \in Entities : Line(e) \subseteq DOMAIN saved
    BY DEF Line
  <2>8. ASSUME NEW e \in Entities \ {d} PROVE EndsInHead(e)' /\ Succeeds(e)'
    <3>1. EndsInHead(e) /\ Succeeds(e) /\ Line(e)' = Line(e) /\ heads'[e] = heads[e]
      BY <2>1, <2>2, <2>5
    <3>2. \A r \in Line(e) : Of(r)' = Of(r)
      BY <2>4, <2>7
    <3> QED
      BY <3>1, <3>2 DEF EndsInHead, Succeeds
  <2>9. Fresh(heads[d], q)
    BY <2>0, <2>2 DEF PreparedInv
  <2>10. /\ q.close \in Nat /\ q.supersedes \in Runs \cup {"none"} /\ n # "none"
         /\ \A r \in DOMAIN saved : Of(r).close \in Nat /\ Of(r).supersedes \in Runs \cup {"none"}
    <3>1. \A x \in Names : Requests[x].close \in Nat /\ Requests[x].supersedes \in Runs \cup {"none"}
      BY RequestAssumption, TreeAssumption DEF Periods
    <3>2. \A r \in DOMAIN saved : saved[r].request \in Names
      BY DEF TypeOK
    <3> QED
      BY <2>0, <2>2, <3>1, <3>2, RequestAssumption DEF Of, Here
  <2>11. \A r \in Line(d) : Of(r).supersedes \in Line(d) \cup {"none"}
    BY <2>1, <2>2 DEF Succeeds
  <2>12. CASE Line(d) = {}
    <3>1. q.supersedes = "none"
      BY <2>1, <2>2, <2>9, <2>12 DEF EndsInHead, Fresh
    <3>2. Line(d)' = {n}
      BY <2>6, <2>12
    <3>3. EndsInHead(d)'
      BY <2>2, <2>3, <2>10, <3>1, <3>2 DEF EndsInHead
    <3>4. Succeeds(d)'
      BY <2>3, <3>1, <3>2 DEF Succeeds
    <3> QED
      BY <2>8, <3>3, <3>4, LinesByEntity
  <2>13. CASE Line(d) # {}
    <3>0. PICK h : h = heads[d].run
      OBVIOUS
    <3>1. /\ h \in Line(d)
          /\ \A r \in Line(d) : Of(r).close <= heads[d].close /\ Of(r).supersedes # h
      BY <2>1, <2>2, <2>13, <3>0 DEF EndsInHead
    <3>2. h # "none" /\ Of(h).close = heads[d].close
      <4>1. h \in Runs
        BY <2>7, <2>2, <3>1 DEF TypeOK, Runs
      <4>2. h # "none" /\ heads[d] # NoHead
        BY <3>0, <4>1, RequestAssumption DEF NoHead
      <4> QED
        BY <2>2, <3>0, <4>2 DEF HeadInv, Of
    <3>3. \/ q.close = heads[d].close /\ q.supersedes = h
          \/ q.close > heads[d].close /\ q.supersedes = "none"
      BY <2>9, <3>0, <3>2 DEF Fresh, NoHead
    <3>4. heads[d].close \in Nat /\ h \in DOMAIN saved
      BY <2>2, <2>7, <3>1 DEF TypeOK, Heads
    <3>5. \A r \in Line(d) : Of(r)' = Of(r) /\ Of(r).close \in Nat
      BY <2>2, <2>4, <2>7, <2>10
    <3>6. EndsInHead(d)'
      <4>1. \A r \in Line(d) : Of(r)'.close <= q.close
        BY <2>10, <3>1, <3>3, <3>4, <3>5
      <4>2. \A r \in Line(d) : Of(r)'.supersedes # n
        BY <2>6, <2>10, <2>11, <3>5
      <4>3. q.supersedes # n /\ q.close <= q.close
        BY <2>6, <2>10, <3>1, <3>3
      <4> QED
        BY <2>2, <2>3, <2>6, <4>1, <4>2, <4>3 DEF EndsInHead
    <3>7. ASSUME NEW r \in Line(d)', Of(r)'.supersedes # "none"
          PROVE  Of(r)'.supersedes \in Line(d)' /\ Of(Of(r).supersedes)'.close = Of(r)'.close
      <4>1. CASE r = n
        <5>1. q.supersedes = h /\ q.close = heads[d].close
          BY <2>3, <3>3, <3>7, <4>1
        <5> QED
          BY <2>3, <2>6, <3>1, <3>2, <3>5, <4>1, <5>1
      <4>2. CASE r \in Line(d)
        <5>1. Of(r).supersedes \in Line(d) /\ Of(Of(r).supersedes).close = Of(r).close
          BY <2>1, <2>2, <3>5, <3>7, <4>2 DEF Succeeds
        <5> QED
          BY <2>6, <3>5, <4>2, <5>1
      <4> QED
        BY <2>6, <4>1, <4>2
    <3>8. \A r \in Line(d) : Of(r).close = q.close => Of(r).supersedes # q.supersedes
      BY <2>10, <3>1, <3>3, <3>4, <3>5
    <3>9. ASSUME NEW r \in Line(d)', NEW s \in Line(d)', r # s, Of(r)'.close = Of(s)'.close
          PROVE  Of(r)'.supersedes # Of(s)'.supersedes
      <4>1. CASE r = n
        BY <2>3, <2>6, <3>5, <3>8, <3>9, <4>1
      <4>2. CASE s = n
        BY <2>3, <2>6, <3>5, <3>8, <3>9, <4>2
      <4>3. CASE r \in Line(d) /\ s \in Line(d)
        BY <2>1, <2>2, <3>5, <3>9, <4>3 DEF Succeeds
      <4> QED
        BY <2>6, <4>1, <4>2, <4>3
    <3>10. Succeeds(d)'
      BY <3>7, <3>9 DEF Succeeds
    <3> QED
      BY <2>8, <3>6, <3>10, LinesByEntity
  <2> QED
    BY <2>12, <2>13
<1> QED
  BY <1>1, <1>2, OnlyCommits

\* The head carries the period of its close.
LEMMA HeadPreserved ==
  ASSUME TypeOK, HandInv, OneLineOfCloses, HeadInv, [Next]_vars
  PROVE  HeadInv'
<1>1. CASE UNCHANGED db
  BY <1>1 DEF HeadInv, db
<1>2. ASSUME NEW t \in Threads, Commits(t) PROVE HeadInv'
  <2> SUFFICES ASSUME NEW e \in Entities, heads'[e] # NoHead
               PROVE  Requests[saved'[heads'[e].run].request].close = heads'[e].close
    BY DEF HeadInv
  <2>1. CASE e = Here(t).entity
    <3>1. PICK r : r = call[t].run
      OBVIOUS
    <3>2. /\ heads'[e].run = r /\ heads'[e].close = Here(t).close
          /\ saved'[r].request = call[t].request
      <4>1. saved'[call[t].run].request = call[t].request
        BY <1>2, CommitEffect
      <4>2. heads'[Here(t).entity] = [run |-> call[t].run, close |-> Here(t).close]
        BY <1>2, CommitEffect
      <4> QED
        BY <2>1, <3>1, <4>1, <4>2
    <3> QED
      BY <3>2 DEF Here
  <2>2. CASE e # Here(t).entity
    <3>1. heads'[e] = heads[e]
      BY <1>2, <2>2, CommitEffect
    <3>2. heads[e].run \in DOMAIN saved
      BY <3>1, LinesByEntity DEF EndsInHead, Line
    <3>3. saved'[heads[e].run] = saved[heads[e].run]
      BY <1>2, <3>2, CommitEffect
    <3> QED
      BY <3>1, <3>3 DEF HeadInv
  <2> QED
    BY <2>1, <2>2
<1> QED
  BY <1>1, <1>2, OnlyCommits

\* Snapshots stay behind the store in the same way.
LEMMA ViewPreserved ==
  ASSUME TypeOK, HandInv, ViewInv, PreparedInv, OneLineOfCloses, [Next]_vars
  PROVE  ViewInv'
<1> DEFINE Ok(view) ==
             /\ view \in Views /\ view.stored \subseteq stored /\ view.saved \subseteq DOMAIN saved
             /\ \A e \in Entities : /\ view.heads[e].run \in view.saved \cup {"none"}
                                    /\ view.heads[e] = heads[e] =>
                                         OfEntity(stored, e) = OfEntity(view.stored, e)
           Later(view) ==
             /\ view \in Views /\ view.stored \subseteq stored' /\ view.saved \subseteq DOMAIN saved'
             /\ \A e \in Entities : /\ view.heads[e].run \in view.saved \cup {"none"}
                                    /\ view.heads[e] = heads'[e] =>
                                         OfEntity(stored', e) = OfEntity(view.stored, e)
<1>1. \A s \in Threads : call[s].at \in Open => Ok(call[s].view)
  BY DEF ViewInv, Open
<1>2. ASSUME NEW view, Ok(view) PROVE Later(view)
  <2>1. CASE UNCHANGED db
    BY <1>2, <2>1 DEF db
  <2>2. ASSUME NEW t \in Threads, Commits(t) PROVE Later(view)
    <3>1. PICK d, n : d = Here(t).entity /\ n = call[t].run
      OBVIOUS
    <3>2. view.stored \subseteq stored' /\ view.saved \subseteq DOMAIN saved'
      BY <1>2, <2>2, CommitEffect
    <3>3. n \notin DOMAIN saved /\ n # "none"
      BY <2>2, <3>1, CommitEffect, RequestAssumption
    <3>4. heads'[d].run = n /\ \A e \in Entities \ {d} : heads'[e] = heads[e]
      <4>1. heads'[Here(t).entity] = [run |-> call[t].run, close |-> Here(t).close]
        BY <2>2, CommitEffect
      <4>2. \A e \in Entities \ {Here(t).entity} : heads'[e] = heads[e]
        BY <2>2, CommitEffect
      <4> QED
        BY <3>1, <4>1, <4>2
    <3>5. view.heads[d] # heads'[d] \/ d \notin Entities
      BY <1>2, <3>3, <3>4
    <3>6. \A e \in Entities \ {d} : OfEntity(stored', e) = OfEntity(stored, e)
      BY <2>2, <3>1, CommitRows
    <3> QED
      BY <1>2, <3>2, <3>4, <3>5, <3>6
  <2> QED
    BY <2>1, <2>2, OnlyCommits
<1>3. ASSUME NEW s \in Threads, call'[s].at \in Open PROVE Later(call'[s].view)
  <2>1. CASE call'[s] = call[s]
    BY <1>1, <1>2, <1>3, <2>1
  <2>2. CASE Begin(s)
    <3>1. PICK view : view = call'[s].view
      OBVIOUS
    <3>2. /\ view = [stored |-> stored, saved |-> DOMAIN saved, heads |-> heads]
          /\ view \in Views
      BY <2>2, <3>1, BeginEffect
    <3>3. \A e \in Entities : heads[e].run \in DOMAIN saved \cup {"none"}
      BY LinesByEntity DEF EndsInHead, Line, NoHead
    <3>4. Ok(view)
      BY <3>2, <3>3
    <3> QED
      BY <1>2, <3>1, <3>4
  <2>3. CASE Writes(s)
    <3>1. call[s].at \in Open /\ call[s].request \in Names
      BY <2>3 DEF Writes, Open, HandInv, Closing, Working
    <3>2. call[s].view \in Views
      BY <1>1, <3>1
    <3>3. call'[s].view = call[s].view
      BY <2>3, <3>1, <3>2, WriteEffect
    <3> QED
      BY <1>1, <1>2, <3>1, <3>3
  <2> QED
    BY <1>3, <2>1, <2>2, <2>3, CallSteps
<1> QED
  BY <1>3 DEF ViewInv, Open

\* What is ready to commit stays so, whoever commits before it.
Ready(t) ==
  /\ Fresh(call[t].view.heads[Here(t).entity], Here(t)) /\ LatestBasis(All(t), Here(t))
  /\ \A k \in Kinds : /\ Lookup(All(t), k, Here(t)[k].version) # {}
                      /\ \A v \in Lookup(All(t), k, Here(t)[k].version) :
                           v.entity = Here(t).entity /\ Rows(v) = Here(t)[k].rows
Numbered(t) ==
  \A v \in call[t].writes :
    /\ v.entity = Here(t).entity /\ v.version = Here(t)[v.kind].version /\ v.sequence <= sequence
    /\ \A w \in call[t].view.stored : w.sequence < v.sequence
    /\ \A w \in stored : w.sequence # v.sequence
    /\ \A w \in call[t].writes : w.kind = v.kind \/ w.sequence = v.sequence => w = v
Apart(s, t) == \A v \in call[s].writes, w \in call[t].writes : v.sequence # w.sequence

LEMMA PreparedParts ==
  /\ PreparedInv <=> /\ \A t \in Threads : call[t].at = "written" => Ready(t) /\ Numbered(t)
                     /\ \A s, t \in Threads :
                          s # t /\ call[s].at = "written" /\ call[t].at = "written" => Apart(s, t)
  /\ PreparedInv' <=> /\ \A t \in Threads : call'[t].at = "written" => Ready(t)' /\ Numbered(t)'
                      /\ \A s, t \in Threads :
                           s # t /\ call'[s].at = "written" /\ call'[t].at = "written"
                           => Apart(s, t)'
BY DEF PreparedInv, Ready, Numbered, Apart, All

LEMMA PreparedPreserved ==
  ASSUME TypeOK, HandInv, ViewInv, StoreInv, PreparedInv, [Next]_vars
  PROVE  PreparedInv'
<1>1. sequence \in Nat /\ sequence' \in Nat /\ sequence <= sequence'
  BY SequenceGrows
<1>2. \A t \in Threads : call[t].writes \subseteq Versions /\ \A v \in Versions : v.sequence \in Nat
  BY DEF TypeOK, Calls, Versions
<1>3. ASSUME NEW t \in Threads, Writes(t)
      PROVE  /\ call[t].at = "open" /\ call'[t].at = "written" /\ Ready(t)' /\ Numbered(t)'
             /\ \A s \in Threads \ {t} : call'[s] = call[s]
             /\ \A v \in call'[t].writes : v.sequence \in Nat /\ sequence < v.sequence
  <2> DEFINE view == call[t].view
  <2>1. PICK drawn : drawn = Drawn(t, "budget") \cup Drawn(t, "actuals")
    OBVIOUS
  <2>2. PICK q : q = Here(t)
    OBVIOUS
  <2>3. call[t].at = "open" /\ call[t].request \in Names /\ view \in Views /\ view.stored \subseteq stored
    BY <1>3 DEF Writes, HandInv, ViewInv, Closing, Working
  <2>4. /\ call'[t].at = "written" /\ call'[t].request = call[t].request
        /\ call'[t].view = view /\ call'[t].writes = drawn
        /\ \A s \in Threads \ {t} : call'[s] = call[s]
    BY <1>3, <2>1, <2>3, WriteEffect
  <2>5. /\ drawn \subseteq Versions
        /\ \A v \in drawn :
             /\ v.entity = q.entity /\ v.version = q[v.kind].version
             /\ v.of = call[t].request /\ v.kind \in Kinds
             /\ sequence < v.sequence /\ v.sequence <= sequence'
        /\ \A v, w \in drawn : v.kind = w.kind \/ v.sequence = w.sequence => v = w
        /\ \A k \in Kinds : Lookup(view.stored \cup drawn, k, q[k].version) # {}
    BY <1>3, <2>1, <2>2, <2>3, DrawnFacts
  <2>6. Here(t)' = q /\ All(t)' = view.stored \cup drawn
    BY <2>2, <2>4 DEF Here, All
  <2>7. /\ Fresh(view.heads[q.entity], q) /\ LatestBasis(view.stored \cup drawn, q)
        /\ \A k \in Kinds : Agrees(view.stored, k, q)
    BY <1>3, <2>1, <2>2 DEF Writes
  <2>8. ASSUME NEW k \in Kinds, NEW v \in Lookup(view.stored \cup drawn, k, q[k].version)
        PROVE  v.entity = q.entity /\ Rows(v) = q[k].rows
    <3>1. CASE v \in view.stored
      BY <2>7, <2>8, <3>1 DEF Agrees, Lookup
    <3>2. CASE v \in drawn
      BY <2>2, <2>5, <2>8, <3>2 DEF Lookup, Rows, Here
    <3> QED
      BY <2>8, <3>1, <3>2 DEF Lookup
  <2>9. Ready(t)'
    BY <2>4, <2>5, <2>6, <2>7, <2>8 DEF Ready
  <2>10. UNCHANGED stored
    BY <1>3 DEF Writes, db
  <2>11. \A w \in stored : w.sequence \in Nat /\ w.sequence <= sequence
    BY <1>2 DEF StoreInv, TypeOK
  <2>12. \A v \in drawn : v.sequence \in Nat
    BY <1>2, <2>5
  <2>13. \A v \in drawn, w \in stored : w.sequence < v.sequence /\ w.sequence # v.sequence
    BY <1>1, <2>5, <2>11, <2>12
  <2>14. Numbered(t)'
    BY <2>3, <2>4, <2>5, <2>6, <2>10, <2>13 DEF Numbered
  <2> QED
    BY <2>3, <2>4, <2>5, <2>9, <2>12, <2>14
<1>4. ASSUME NEW t \in Threads, call'[t].at = "written", ~Writes(t)
      PROVE  call'[t] = call[t] /\ call[t].at = "written" /\ Ready(t)' /\ Numbered(t)'
  <2>1. call'[t] = call[t]
    BY <1>4, CallSteps, BeginEffect DEF Open
  <2>2. Here(t)' = Here(t) /\ All(t)' = All(t)
    BY <2>1 DEF Here, All
  <2>3. Ready(t) /\ Numbered(t) /\ call[t].at = "written"
    BY <1>4, <2>1, PreparedParts
  <2>4. Ready(t)'
    BY <2>1, <2>2, <2>3 DEF Ready
  <2>5. ASSUME NEW v \in call[t].writes, NEW w \in stored' PROVE w.sequence # v.sequence
    <3>1. CASE UNCHANGED db
      BY <2>3, <2>5, <3>1 DEF Numbered, db
    <3>2. ASSUME NEW s \in Threads, Commits(s) PROVE w.sequence # v.sequence
      <4>1. /\ s # t /\ call[s].at = "written" /\ stored' = stored \cup call[s].writes
        BY <1>4, <3>2, CommitEffect
      <4>2. Apart(s, t)
        BY <2>3, <4>1, PreparedParts
      <4> QED
        BY <2>3, <2>5, <4>1, <4>2 DEF Numbered, Apart
    <3> QED
      BY <3>1, <3>2, OnlyCommits
  <2>6. \A v \in call[t].writes : v.sequence <= sequence'
    BY <1>1, <1>2, <2>3 DEF Numbered
  <2>7. Numbered(t)'
    BY <2>1, <2>2, <2>3, <2>5, <2>6 DEF Numbered
  <2> QED
    BY <2>1, <2>3, <2>4, <2>7
<1>5. ASSUME NEW s \in Threads, NEW t \in Threads, s # t,
             call'[s].at = "written", call'[t].at = "written"
      PROVE  Apart(s, t)'
  <2>1. CASE Writes(s)
    <3>1. call'[t] = call[t] /\ call[t].at = "written"
      BY <1>3, <1>5, <2>1
    <3>2. \A v \in call[t].writes : v.sequence \in Nat /\ v.sequence <= sequence
      BY <1>2, <3>1, PreparedParts DEF Numbered
    <3>3. \A v \in call'[s].writes : v.sequence \in Nat /\ sequence < v.sequence
      BY <1>3, <2>1
    <3> QED
      BY <1>1, <3>1, <3>2, <3>3 DEF Apart
  <2>2. CASE Writes(t)
    <3>1. call'[s] = call[s] /\ call[s].at = "written"
      BY <1>3, <1>5, <2>2
    <3>2. \A v \in call[s].writes : v.sequence \in Nat /\ v.sequence <= sequence
      BY <1>2, <3>1, PreparedParts DEF Numbered
    <3>3. \A v \in call'[t].writes : v.sequence \in Nat /\ sequence < v.sequence
      BY <1>3, <2>2
    <3> QED
      BY <1>1, <3>1, <3>2, <3>3 DEF Apart
  <2>3. CASE ~Writes(s) /\ ~Writes(t)
    BY <1>4, <1>5, <2>3, PreparedParts DEF Apart
  <2> QED
    BY <2>1, <2>2, <2>3
<1> QED
  BY <1>3, <1>4, <1>5, PreparedParts

\* A connection in a close, by itself.
Held(t) ==
  /\ call[t].request \in Names /\ call[t].run = Here(t).run
  /\ call[t].attempt \in DOMAIN attempts
  /\ attempts[call[t].attempt] = [request |-> call[t].request, status |-> "started"]
  /\ call[t].at = "saved" =>
       call[t].run \in DOMAIN saved /\ saved[call[t].run].request = call[t].request

LEMMA HandParts ==
  /\ HandInv <=> /\ \A t \in Threads : call[t].at \in Closing => Held(t)
                 /\ \A s, t \in Threads : call[s].at \in Closing /\ call[t].at \in Closing
                      /\ s # t => call[s].attempt # call[t].attempt
  /\ HandInv' <=> /\ \A t \in Threads : call'[t].at \in Closing => Held(t)'
                  /\ \A s, t \in Threads : call'[s].at \in Closing /\ call'[t].at \in Closing
                       /\ s # t => call'[s].attempt # call'[t].attempt
BY DEF HandInv, Held, Closing

\* What others do leaves a close as it is, as long as its attempt is not marked.
LEMMA HeldStays ==
  ASSUME TypeOK, HandInv, [Next]_vars, NEW s \in Threads, Held(s), call'[s] = call[s],
         DOMAIN attempts \subseteq DOMAIN attempts',
         attempts'[call[s].attempt] = attempts[call[s].attempt]
  PROVE  Held(s)'
<1>1. DOMAIN saved \subseteq DOMAIN saved' /\ \A r \in DOMAIN saved : saved'[r] = saved[r]
  BY SavedGrows
<1> QED
  BY <1>1 DEF Held, Here

\* Each close keeps an open attempt of its own.
LEMMA HandPreserved ==
  ASSUME TypeOK, HandInv, ViewInv, [Next]_vars
  PROVE  HandInv'
<1>1. ASSUME NEW t \in Threads, NEW x \in Names, Start(t, x) PROVE HandInv'
  <2>1. /\ \A s \in Threads \ {t} : call'[s] = call[s]
        /\ call'[t].at = "started" /\ call'[t].request = x /\ call'[t].run = Requests[x].run
        /\ call'[t].attempt = Len(attempts) + 1 /\ call[t].at = "idle"
        /\ DOMAIN attempts' = DOMAIN attempts \cup {Len(attempts) + 1}
        /\ Len(attempts) + 1 \notin DOMAIN attempts
        /\ \A n \in DOMAIN attempts : attempts'[n] = attempts[n]
        /\ attempts'[Len(attempts) + 1] = [request |-> x, status |-> "started"]
    BY <1>1, StartEffect
  <2>2. Held(t)'
    BY <2>1 DEF Held, Here
  <2>3. ASSUME NEW s \in Threads \ {t}, call'[s].at \in Closing
        PROVE  Held(s)' /\ call'[s].attempt \in DOMAIN attempts /\ call'[s] = call[s]
    <3>1. Held(s) /\ call'[s] = call[s]
      BY <2>1, <2>3, HandParts
    <3>2. call[s].attempt \in DOMAIN attempts
      BY <3>1 DEF Held
    <3> QED
      BY <2>1, <3>1, <3>2, HeldStays
  <2>4. \A s \in Threads \ {t} : call'[s].at \in Closing => call'[s].attempt # call'[t].attempt
    BY <2>1, <2>3
  <2> QED
    BY <2>2, <2>3, <2>4, HandParts
<1>2. ASSUME NEW t \in Threads, NEW r \in Runs, Deliver(t, r) PROVE HandInv'
  <2>1. "placed" \in Stages /\ Place(t, r, "placed")
    BY <1>2 DEF Deliver, Stages
  <2>3. /\ \A s \in Threads \ {t} : call'[s] = call[s]
        /\ call'[t].at \notin Closing
    BY <2>1, PlaceEffect DEF Closing, Working
  <2>4. attempts' = attempts
    BY <1>2 DEF Deliver, audit
  <2>5. ASSUME NEW s \in Threads, call'[s].at \in Closing
        PROVE  call'[s] = call[s] /\ Held(s)'
    BY <2>3, <2>4, <2>5, HeldStays, HandParts
  <2> QED
    BY <2>5, HandParts
<1>3. ASSUME NEW t \in Threads, NEW r \in Runs, Shows(t, r) PROVE HandInv'
  <2>1. "published" \in Stages /\ Place(t, r, "published")
    BY <1>3 DEF Shows, Stages
  <2>3. /\ \A s \in Threads \ {t} : call'[s] = call[s]
        /\ call'[t].at \notin Closing
    BY <2>1, PlaceEffect DEF Closing, Working
  <2>4. attempts' = attempts
    BY <1>3 DEF Shows, audit
  <2>5. ASSUME NEW s \in Threads, call'[s].at \in Closing
        PROVE  call'[s] = call[s] /\ Held(s)'
    BY <2>3, <2>4, <2>5, HeldStays, HandParts
  <2> QED
    BY <2>5, HandParts
<1>4. ASSUME NEW t \in Threads, NotSaved(t) PROVE HandInv'
  <2>1. "unsaved" \in Stages /\ Go(t, "unsaved")
    BY <1>4 DEF NotSaved, Stages, Closing, Working
  <2>3. /\ \A s \in Threads \ {t} : call'[s] = call[s]
        /\ call'[t].request = call[t].request /\ call'[t].run = call[t].run
        /\ call'[t].attempt = call[t].attempt /\ call'[t].at # "saved"
    BY <2>1, GoEffect
  <2>4. attempts' = attempts /\ call[t].at \in Closing
    BY <1>4 DEF NotSaved, audit, Closing, Working
  <2>5. Held(t)'
    BY <2>3, <2>4, HandParts DEF Held, Here
  <2>6. \A s \in Threads \ {t} : call'[s].at \in Closing => Held(s)'
    BY <2>3, <2>4, HeldStays, HandParts
  <2>7. \A s \in Threads : call'[s].attempt = call[s].attempt
    BY <2>3
  <2>8. \A s \in Threads : call'[s].at \in Closing => call[s].at \in Closing
    BY <2>3, <2>4
  <2> QED
    BY <2>5, <2>6, <2>7, <2>8, HandParts
<1>5. ASSUME NEW t \in Threads, Begin(t) PROVE HandInv'
  <2>3. /\ \A s \in Threads \ {t} : call'[s] = call[s]
        /\ call'[t].request = call[t].request /\ call'[t].run = call[t].run
        /\ call'[t].attempt = call[t].attempt /\ call'[t].at # "saved"
    BY <1>5, BeginEffect
  <2>4. attempts' = attempts /\ call[t].at \in Closing
    BY <1>5 DEF Begin, audit, Closing, Working
  <2>5. Held(t)'
    BY <2>3, <2>4, HandParts DEF Held, Here
  <2>6. \A s \in Threads \ {t} : call'[s].at \in Closing => Held(s)'
    BY <2>3, <2>4, HeldStays, HandParts
  <2>7. \A s \in Threads : call'[s].attempt = call[s].attempt
    BY <2>3
  <2>8. \A s \in Threads : call'[s].at \in Closing => call[s].at \in Closing
    BY <2>3, <2>4
  <2> QED
    BY <2>5, <2>6, <2>7, <2>8, HandParts
<1>6. ASSUME NEW t \in Threads, Committed(t) PROVE HandInv'
  <2>1. call[t].at \in Closing
    BY <1>6 DEF Committed, Closing
  <2>2. call[t].attempt \in DOMAIN attempts /\ Event(call[t].attempt, "committed") /\ End(t)
    BY <1>6, <2>1, HandParts DEF Committed, Held
  <2>3. /\ \A s \in Threads \ {t} : call'[s] = call[s]
        /\ call'[t].at = "idle"
    BY <2>2, EndEffect
  <2>4. /\ DOMAIN attempts' = DOMAIN attempts
        /\ \A m \in DOMAIN attempts \ {call[t].attempt} : attempts'[m] = attempts[m]
    BY <2>2, EventEffect
  <2>5. ASSUME NEW s \in Threads, call'[s].at \in Closing
        PROVE  call'[s] = call[s] /\ s # t /\ Held(s)'
    <3>1. s # t /\ call'[s] = call[s]
      BY <2>3, <2>5 DEF Closing, Working
    <3>2. Held(s) /\ call[s].attempt # call[t].attempt
      BY <2>1, <2>5, <3>1, HandParts
    <3> QED
      BY <2>4, <3>1, <3>2, HeldStays DEF Held
  <2> QED
    BY <2>5, HandParts
<1>7. ASSUME NEW t \in Threads, Delivered(t) PROVE HandInv'
  <2>1. End(t)
    BY <1>7 DEF Delivered
  <2>3. /\ \A s \in Threads \ {t} : call'[s] = call[s]
        /\ call'[t].at \notin Closing
    BY <2>1, EndEffect DEF Closing, Working
  <2>4. attempts' = attempts
    BY <1>7 DEF Delivered, audit
  <2>5. ASSUME NEW s \in Threads, call'[s].at \in Closing
        PROVE  call'[s] = call[s] /\ Held(s)'
    BY <2>3, <2>4, <2>5, HeldStays, HandParts
  <2> QED
    BY <2>5, HandParts
<1>8. ASSUME NEW t \in Threads, Published(t) PROVE HandInv'
  <2>1. End(t)
    BY <1>8 DEF Published
  <2>3. /\ \A s \in Threads \ {t} : call'[s] = call[s]
        /\ call'[t].at \notin Closing
    BY <2>1, EndEffect DEF Closing, Working
  <2>4. attempts' = attempts
    BY <1>8 DEF Published, audit
  <2>5. ASSUME NEW s \in Threads, call'[s].at \in Closing
        PROVE  call'[s] = call[s] /\ Held(s)'
    BY <2>3, <2>4, <2>5, HeldStays, HandParts
  <2> QED
    BY <2>5, HandParts
<1>9. ASSUME NEW t \in Threads, GivesUp(t) PROVE HandInv'
  <2>1. call[t].at \in Closing
    BY <1>9 DEF GivesUp, Closing
  <2>2. call[t].attempt \in DOMAIN attempts /\ Event(call[t].attempt, "failed") /\ End(t)
    BY <1>9, <2>1, HandParts DEF GivesUp, Held
  <2>3. /\ \A s \in Threads \ {t} : call'[s] = call[s]
        /\ call'[t].at = "idle"
    BY <2>2, EndEffect
  <2>4. /\ DOMAIN attempts' = DOMAIN attempts
        /\ \A m \in DOMAIN attempts \ {call[t].attempt} : attempts'[m] = attempts[m]
    BY <2>2, EventEffect
  <2>5. ASSUME NEW s \in Threads, call'[s].at \in Closing
        PROVE  call'[s] = call[s] /\ s # t /\ Held(s)'
    <3>1. s # t /\ call'[s] = call[s]
      BY <2>3, <2>5 DEF Closing, Working
    <3>2. Held(s) /\ call[s].attempt # call[t].attempt
      BY <2>1, <2>5, <3>1, HandParts
    <3> QED
      BY <2>4, <3>1, <3>2, HeldStays DEF Held
  <2> QED
    BY <2>5, HandParts
<1>10. ASSUME NEW t \in Threads, Replays(t) PROVE HandInv'
  <2>1. call[t].at \in Closing
    BY <1>10 DEF Replays, Closing, Working
  <2>2. call[t].attempt \in DOMAIN attempts /\ Event(call[t].attempt, "replayed") /\ End(t)
    BY <1>10, <2>1, HandParts DEF Replays, Held
  <2>3. /\ \A s \in Threads \ {t} : call'[s] = call[s]
        /\ call'[t].at = "idle"
    BY <2>2, EndEffect
  <2>4. /\ DOMAIN attempts' = DOMAIN attempts
        /\ \A m \in DOMAIN attempts \ {call[t].attempt} : attempts'[m] = attempts[m]
    BY <2>2, EventEffect
  <2>5. ASSUME NEW s \in Threads, call'[s].at \in Closing
        PROVE  call'[s] = call[s] /\ s # t /\ Held(s)'
    <3>1. s # t /\ call'[s] = call[s]
      BY <2>3, <2>5 DEF Closing, Working
    <3>2. Held(s) /\ call[s].attempt # call[t].attempt
      BY <2>1, <2>5, <3>1, HandParts
    <3> QED
      BY <2>4, <3>1, <3>2, HeldStays DEF Held
  <2> QED
    BY <2>5, HandParts
<1>11. ASSUME NEW t \in Threads, Writes(t) PROVE HandInv'
  <2>1. call[t].request \in Names /\ call[t].view \in Views
    BY <1>11 DEF Writes, HandInv, ViewInv, Closing, Working
  <2>3. /\ \A s \in Threads \ {t} : call'[s] = call[s]
        /\ call'[t].request = call[t].request /\ call'[t].run = call[t].run
        /\ call'[t].attempt = call[t].attempt /\ call'[t].at # "saved"
    BY <1>11, <2>1, WriteEffect
  <2>4. attempts' = attempts /\ call[t].at \in Closing
    BY <1>11 DEF Writes, audit, Closing, Working
  <2>5. Held(t)'
    BY <2>3, <2>4, HandParts DEF Held, Here
  <2>6. \A s \in Threads \ {t} : call'[s].at \in Closing => Held(s)'
    BY <2>3, <2>4, HeldStays, HandParts
  <2>7. \A s \in Threads : call'[s].attempt = call[s].attempt
    BY <2>3
  <2>8. \A s \in Threads : call'[s].at \in Closing => call[s].at \in Closing
    BY <2>3, <2>4
  <2> QED
    BY <2>5, <2>6, <2>7, <2>8, HandParts
<1>12. ASSUME NEW t \in Threads, Commits(t) PROVE HandInv'
  <2>1. /\ \A s \in Threads \ {t} : call'[s] = call[s]
        /\ call'[t].request = call[t].request /\ call'[t].run = call[t].run
        /\ call'[t].attempt = call[t].attempt /\ call[t].at = "written"
        /\ call[t].run \in DOMAIN saved' /\ saved'[call[t].run].request = call[t].request
    BY <1>12, CommitEffect
  <2>2. attempts' = attempts /\ call[t].at \in Closing
    BY <2>1, <1>12 DEF Commits, audit, Closing, Working
  <2>3. Held(t)'
    BY <2>1, <2>2, HandParts DEF Held, Here
  <2>4. \A s \in Threads \ {t} : call'[s].at \in Closing => Held(s)'
    BY <2>1, <2>2, HeldStays, HandParts
  <2>5. \A s \in Threads : call'[s].attempt = call[s].attempt
    BY <2>1
  <2>6. \A s \in Threads : call'[s].at \in Closing => call[s].at \in Closing
    BY <2>1, <2>2
  <2> QED
    BY <2>3, <2>4, <2>5, <2>6, HandParts
<1>13. ASSUME NEW t \in Threads, Quits(t) PROVE HandInv'
  <2>1. End(t)
    BY <1>13 DEF Quits
  <2>3. /\ \A s \in Threads \ {t} : call'[s] = call[s]
        /\ call'[t].at \notin Closing
    BY <2>1, EndEffect DEF Closing, Working
  <2>4. attempts' = attempts
    BY <1>13 DEF Quits, audit
  <2>5. ASSUME NEW s \in Threads, call'[s].at \in Closing
        PROVE  call'[s] = call[s] /\ Held(s)'
    BY <2>3, <2>4, <2>5, HeldStays, HandParts
  <2> QED
    BY <2>5, HandParts
<1>14. ASSUME NEW r \in Runs, Refuses(r) PROVE HandInv'
  <2>1. UNCHANGED <<attempts, call>>
    BY <1>14 DEF Refuses
  <2> QED
    BY <2>1, HeldStays, HandParts
<1>15. CASE Crash
  BY <1>15, HandParts DEF Crash, Idle, Closing, Working
<1>16. CASE UNCHANGED vars
  <2>1. UNCHANGED <<attempts, call>>
    BY <1>16 DEF vars, audit
  <2> QED
    BY <2>1, HeldStays, HandParts
<1> QED
  BY <1>1, <1>2, <1>3, <1>4, <1>5, <1>6, <1>7, <1>8, <1>9, <1>10, <1>11, <1>12, <1>13, <1>14, <1>15,
     <1>16, StepKinds
    DEF Steps

\* No attempt made a close that had not.
LEMMA MadeStays ==
  ASSUME AttemptInv, DOMAIN attempts \subseteq DOMAIN attempts',
         \A n \in DOMAIN attempts : attempts'[n].request = attempts[n].request,
         \A n \in DOMAIN attempts' : Made(n)' => n \in DOMAIN attempts /\ Made(n)
  PROVE  \A m, n \in DOMAIN attempts' : Made(m)' /\ Made(n)' /\ RunOf(m)' = RunOf(n)' => m = n
<1>1. \A n \in DOMAIN attempts : RunOf(n)' = RunOf(n)
  BY DEF RunOf
<1>2. \A m, n \in DOMAIN attempts : Made(m) /\ Made(n) /\ RunOf(m) = RunOf(n) => m = n
  BY DEF AttemptInv
<1> QED
  BY <1>1, <1>2

\* An attempt nobody works on stays what a saved close refers to.
LEMMA AttemptStays ==
  ASSUME AttemptInv, UNCHANGED <<attempts, saved>>,
         \A s \in Threads : call'[s].at \in Closing =>
           /\ call[s].at \in Closing /\ call'[s].attempt = call[s].attempt
           /\ call'[s].at \in Working <=> call[s].at \in Working
  PROVE  AttemptInv'
<1>1. \A n \in DOMAIN attempts' : attempts'[n].status \in {"committed", "replayed"} =>
        \E r \in DOMAIN saved' : saved'[r].request = attempts'[n].request
  BY DEF AttemptInv
<1>2. ASSUME NEW r \in DOMAIN saved'
      PROVE  \E n \in DOMAIN attempts' :
               /\ attempts'[n].request = saved'[r].request
               /\ attempts'[n].status # "replayed"
               /\ \A t \in Threads : call'[t].at \in Working => call'[t].attempt # n
  BY <1>2 DEF AttemptInv, Closing
<1>3. \A m, n \in DOMAIN attempts' : Made(m)' /\ Made(n)' /\ RunOf(m)' = RunOf(n)' => m = n
  <2>1. \A s \in Threads : call'[s].at = "saved" =>
          call[s].at = "saved" /\ call'[s].attempt = call[s].attempt
    BY DEF Closing, Working
  <2>2. \A n \in DOMAIN attempts' : Made(n)' => n \in DOMAIN attempts /\ Made(n)
    BY <2>1 DEF Made
  <2> QED
    BY <2>2, MadeStays
<1> QED
  BY <1>1, <1>2, <1>3 DEF AttemptInv

\* The attempt of a close ends with a mark.
LEMMA AttemptEnds ==
  ASSUME TypeOK, HandInv, AttemptInv, UNCHANGED saved, NEW t \in Threads, call[t].at \in Closing,
         NEW mark \in {"committed", "replayed", "failed"}, Event(call[t].attempt, mark), End(t),
         mark \in {"committed", "replayed"} =>
           \E r \in DOMAIN saved : saved[r].request = call[t].request,
         mark = "committed" => call[t].at = "saved",
         mark = "replayed" => call[t].at \in Working
  PROVE  AttemptInv'
<1>1. PICK k : k = call[t].attempt
  OBVIOUS
<1>2. k \in DOMAIN attempts /\ attempts[k].request = call[t].request
  <2>1. Held(t)
    BY HandParts
  <2> QED
    BY <1>1, <2>1 DEF Held
<1>3. /\ DOMAIN attempts' = DOMAIN attempts
      /\ \A m \in DOMAIN attempts : attempts'[m].request = attempts[m].request
      /\ \A m \in DOMAIN attempts \ {k} : attempts'[m] = attempts[m]
      /\ attempts'[k].status = mark
  BY <1>1, <1>2, EventEffect
<1>4. \A s \in Threads : call'[s].at \in Closing => call'[s] = call[s] /\ s # t
  BY EndEffect DEF Closing, Working
<1>5. ASSUME NEW n \in DOMAIN attempts', attempts'[n].status \in {"committed", "replayed"}
      PROVE  \E r \in DOMAIN saved' : saved'[r].request = attempts'[n].request
  <2>1. CASE n = k
    BY <1>2, <1>3, <1>5, <2>1
  <2>2. CASE n # k
    BY <1>3, <1>5, <2>2 DEF AttemptInv
  <2> QED
    BY <2>1, <2>2
<1>6. ASSUME NEW r \in DOMAIN saved'
      PROVE  \E n \in DOMAIN attempts' :
               /\ attempts'[n].request = saved'[r].request
               /\ attempts'[n].status # "replayed"
               /\ \A s \in Threads : call'[s].at \in Working => call'[s].attempt # n
  <2>1. PICK n \in DOMAIN attempts :
               /\ attempts[n].request = saved[r].request
               /\ attempts[n].status # "replayed"
               /\ \A s \in Threads : call[s].at \in Working => call[s].attempt # n
    BY <1>6 DEF AttemptInv
  <2>2. attempts'[n].request = saved'[r].request /\ n \in DOMAIN attempts'
    BY <1>3, <2>1
  <2>3. attempts'[n].status # "replayed"
    BY <1>1, <1>3, <2>1
  <2>4. \A s \in Threads : call'[s].at \in Working => call'[s].attempt # n
    BY <1>4, <2>1 DEF Closing
  <2> QED
    BY <2>2, <2>3, <2>4
<1>7. \A m, n \in DOMAIN attempts' : Made(m)' /\ Made(n)' /\ RunOf(m)' = RunOf(n)' => m = n
  <2>1. ASSUME NEW n \in DOMAIN attempts', Made(n)' PROVE n \in DOMAIN attempts /\ Made(n)
    <3>1. CASE attempts'[n].status = "committed" /\ n = k
      BY <1>1, <1>2, <1>3, <3>1 DEF Made
    <3>2. CASE attempts'[n].status = "committed" /\ n # k
      BY <1>3, <3>2 DEF Made
    <3>3. ASSUME NEW s \in Threads, call'[s].at = "saved", call'[s].attempt = n
          PROVE  n \in DOMAIN attempts /\ Made(n)
      BY <1>3, <1>4, <3>3 DEF Made, Closing
    <3> QED
      BY <2>1, <3>1, <3>2, <3>3 DEF Made
  <2> QED
    BY <1>3, <2>1, MadeStays
<1> QED
  BY <1>5, <1>6, <1>7 DEF AttemptInv

\* Every saved close keeps the attempt that made it, and one alone.
LEMMA AttemptPreserved ==
  ASSUME TypeOK, HandInv, ViewInv, AttemptInv, [Next]_vars
  PROVE  AttemptInv'
<1>1. ASSUME NEW t \in Threads, NEW x \in Names, Start(t, x) PROVE AttemptInv'
  <2>1. /\ \A s \in Threads \ {t} : call'[s] = call[s]
        /\ call'[t].attempt = Len(attempts) + 1 /\ call'[t].at = "started"
        /\ DOMAIN attempts' = DOMAIN attempts \cup {Len(attempts) + 1}
        /\ Len(attempts) + 1 \notin DOMAIN attempts
        /\ \A n \in DOMAIN attempts : attempts'[n] = attempts[n]
        /\ attempts'[Len(attempts) + 1] = [request |-> x, status |-> "started"]
    BY <1>1, StartEffect
  <2>2. UNCHANGED saved
    BY <1>1 DEF Start, db
  <2>3. ASSUME NEW n \in DOMAIN attempts', attempts'[n].status \in {"committed", "replayed"}
        PROVE  \E r \in DOMAIN saved' : saved'[r].request = attempts'[n].request
    <3>1. n \in DOMAIN attempts
      BY <2>1, <2>3
    <3> QED
      BY <2>1, <2>2, <2>3, <3>1 DEF AttemptInv
  <2>4. ASSUME NEW r \in DOMAIN saved'
        PROVE  \E n \in DOMAIN attempts' :
                 /\ attempts'[n].request = saved'[r].request
                 /\ attempts'[n].status # "replayed"
                 /\ \A s \in Threads : call'[s].at \in Working => call'[s].attempt # n
    <3>1. PICK n \in DOMAIN attempts :
                 /\ attempts[n].request = saved[r].request
                 /\ attempts[n].status # "replayed"
                 /\ \A s \in Threads : call[s].at \in Working => call[s].attempt # n
      BY <2>2, <2>4 DEF AttemptInv
    <3>2. \A s \in Threads : call'[s].at \in Working => call'[s].attempt # n
      BY <2>1, <3>1
    <3> QED
      BY <2>1, <2>2, <3>1, <3>2
  <2>5. ASSUME NEW n \in DOMAIN attempts', Made(n)' PROVE n \in DOMAIN attempts /\ Made(n)
    <3>1. CASE attempts'[n].status = "committed"
      BY <2>1, <3>1 DEF Made
    <3>2. ASSUME NEW s \in Threads, call'[s].at = "saved", call'[s].attempt = n
          PROVE  n \in DOMAIN attempts /\ Made(n)
      <4>1. call[s].at = "saved" /\ call[s].attempt = n
        BY <2>1, <3>2
      <4>2. n \in DOMAIN attempts
        BY <4>1, HandParts DEF Held, Closing
      <4> QED
        BY <4>1, <4>2 DEF Made
    <3> QED
      BY <2>5, <3>1, <3>2 DEF Made
  <2>6. \A m, n \in DOMAIN attempts' : Made(m)' /\ Made(n)' /\ RunOf(m)' = RunOf(n)' => m = n
    BY <2>1, <2>5, MadeStays
  <2> QED
    BY <2>3, <2>4, <2>6 DEF AttemptInv
<1>2. ASSUME NEW t \in Threads, NEW r \in Runs, Deliver(t, r) PROVE AttemptInv'
  <2>1. "placed" \in Stages /\ Place(t, r, "placed")
    BY <1>2 DEF Deliver, Stages
  <2>3. UNCHANGED <<attempts, saved>>
    BY <1>2 DEF Deliver, db, audit
  <2>4. \A s \in Threads : call'[s].at \in Closing =>
          /\ call[s].at \in Closing /\ call'[s].attempt = call[s].attempt
          /\ call'[s].at \in Working <=> call[s].at \in Working
    BY <2>1, PlaceEffect DEF Deliver, Closing, Working
  <2> QED
    BY <2>3, <2>4, AttemptStays
<1>3. ASSUME NEW t \in Threads, NEW r \in Runs, Shows(t, r) PROVE AttemptInv'
  <2>1. "published" \in Stages /\ Place(t, r, "published")
    BY <1>3 DEF Shows, Stages
  <2>3. UNCHANGED <<attempts, saved>>
    BY <1>3 DEF Shows, db, audit
  <2>4. \A s \in Threads : call'[s].at \in Closing =>
          /\ call[s].at \in Closing /\ call'[s].attempt = call[s].attempt
          /\ call'[s].at \in Working <=> call[s].at \in Working
    BY <2>1, PlaceEffect DEF Shows, Closing, Working
  <2> QED
    BY <2>3, <2>4, AttemptStays
<1>4. ASSUME NEW t \in Threads, NotSaved(t) PROVE AttemptInv'
  <2>1. "unsaved" \in Stages /\ Go(t, "unsaved")
    BY <1>4 DEF NotSaved, Stages, Closing, Working
  <2>3. UNCHANGED <<attempts, saved>>
    BY <1>4 DEF NotSaved, db, audit
  <2>4. \A s \in Threads : call'[s].at \in Closing =>
          /\ call[s].at \in Closing /\ call'[s].attempt = call[s].attempt
          /\ call'[s].at \in Working <=> call[s].at \in Working
    BY <1>4, <2>1, GoEffect DEF NotSaved, Closing, Working
  <2> QED
    BY <2>3, <2>4, AttemptStays
<1>5. ASSUME NEW t \in Threads, Begin(t) PROVE AttemptInv'
  <2>3. UNCHANGED <<attempts, saved>>
    BY <1>5 DEF Begin, db, audit
  <2>4. \A s \in Threads : call'[s].at \in Closing =>
          /\ call[s].at \in Closing /\ call'[s].attempt = call[s].attempt
          /\ call'[s].at \in Working <=> call[s].at \in Working
    BY <1>5, BeginEffect DEF Begin, Closing, Working
  <2> QED
    BY <2>3, <2>4, AttemptStays
<1>6. ASSUME NEW t \in Threads, Committed(t) PROVE AttemptInv'
  <2>1. /\ Event(call[t].attempt, "committed") /\ End(t) /\ UNCHANGED saved
        /\ call[t].at \in Closing
    BY <1>6 DEF Committed, db, Closing, Working
  <2>2. call[t].at = "saved"
    BY <1>6 DEF Committed
  <2>3. \E r \in DOMAIN saved : saved[r].request = call[t].request
    BY <2>1, <2>2, HandParts DEF Held
  <2> QED
    BY <2>1, <2>2, <2>3, AttemptEnds
<1>7. ASSUME NEW t \in Threads, Delivered(t) PROVE AttemptInv'
  <2>1. End(t)
    BY <1>7 DEF Delivered
  <2>3. UNCHANGED <<attempts, saved>>
    BY <1>7 DEF Delivered, db, audit
  <2>4. \A s \in Threads : call'[s].at \in Closing =>
          /\ call[s].at \in Closing /\ call'[s].attempt = call[s].attempt
          /\ call'[s].at \in Working <=> call[s].at \in Working
    BY <2>1, EndEffect DEF Delivered, Closing, Working
  <2> QED
    BY <2>3, <2>4, AttemptStays
<1>8. ASSUME NEW t \in Threads, Published(t) PROVE AttemptInv'
  <2>1. End(t)
    BY <1>8 DEF Published
  <2>3. UNCHANGED <<attempts, saved>>
    BY <1>8 DEF Published, db, audit
  <2>4. \A s \in Threads : call'[s].at \in Closing =>
          /\ call[s].at \in Closing /\ call'[s].attempt = call[s].attempt
          /\ call'[s].at \in Working <=> call[s].at \in Working
    BY <2>1, EndEffect DEF Published, Closing, Working
  <2> QED
    BY <2>3, <2>4, AttemptStays
<1>9. ASSUME NEW t \in Threads, GivesUp(t) PROVE AttemptInv'
  <2>1. /\ Event(call[t].attempt, "failed") /\ End(t) /\ UNCHANGED saved
        /\ call[t].at \in Closing
    BY <1>9 DEF GivesUp, db
  <2> QED
    BY <2>1, AttemptEnds
<1>10. ASSUME NEW t \in Threads, Replays(t) PROVE AttemptInv'
  <2>1. /\ Event(call[t].attempt, "replayed") /\ End(t) /\ UNCHANGED saved
        /\ call[t].at \in Closing
    BY <1>10 DEF Replays, db, Closing, Working
  <2>2. call[t].at \in Working /\ \E r \in DOMAIN saved : saved[r].request = call[t].request
    BY <1>10 DEF Replays, Working
  <2> QED
    BY <2>1, <2>2, AttemptEnds
<1>11. ASSUME NEW t \in Threads, Writes(t) PROVE AttemptInv'
  <2>1. call[t].request \in Names /\ call[t].view \in Views
    BY <1>11 DEF Writes, HandInv, ViewInv, Closing, Working
  <2>3. UNCHANGED <<attempts, saved>>
    BY <1>11 DEF Writes, db, audit
  <2>4. \A s \in Threads : call'[s].at \in Closing =>
          /\ call[s].at \in Closing /\ call'[s].attempt = call[s].attempt
          /\ call'[s].at \in Working <=> call[s].at \in Working
    BY <1>11, <2>1, WriteEffect DEF Writes, Closing, Working
  <2> QED
    BY <2>3, <2>4, AttemptStays
<1>12. ASSUME NEW t \in Threads, Commits(t) PROVE AttemptInv'
  <2>1. PICK k, n : k = call[t].attempt /\ n = call[t].run
    OBVIOUS
  <2>2. /\ \A s \in Threads \ {t} : call'[s] = call[s]
        /\ call'[t].at = "saved" /\ call[t].at = "written"
        /\ DOMAIN saved' = DOMAIN saved \cup {n}
        /\ \A r \in DOMAIN saved : saved'[r] = saved[r]
        /\ saved'[n].request = call[t].request
    BY <1>12, <2>1, CommitEffect
  <2>3. /\ k \in DOMAIN attempts
        /\ attempts[k] = [request |-> call[t].request, status |-> "started"]
    BY <2>1, <2>2, HandParts DEF Held, Closing, Working
  <2>4. attempts' = attempts
    BY <1>12 DEF Commits, audit
  <2>5. \A s \in Threads : call'[s].at \in Working => s # t /\ call'[s] = call[s]
    BY <2>2 DEF Working
  <2>6. \A s \in Threads : call'[s].at \in Working => call'[s].attempt # k
    BY <2>1, <2>2, <2>5, HandParts DEF Closing, Working
  <2>7. ASSUME NEW m \in DOMAIN attempts', attempts'[m].status \in {"committed", "replayed"}
        PROVE  \E r \in DOMAIN saved' : saved'[r].request = attempts'[m].request
    BY <2>2, <2>4, <2>7 DEF AttemptInv
  <2>8. ASSUME NEW r \in DOMAIN saved'
        PROVE  \E m \in DOMAIN attempts' :
                 /\ attempts'[m].request = saved'[r].request
                 /\ attempts'[m].status # "replayed"
                 /\ \A s \in Threads : call'[s].at \in Working => call'[s].attempt # m
    <3>1. CASE r = n
      BY <2>2, <2>3, <2>4, <2>6, <3>1
    <3>2. CASE r \in DOMAIN saved
      <4>1. PICK m \in DOMAIN attempts :
                 /\ attempts[m].request = saved[r].request
                 /\ attempts[m].status # "replayed"
                 /\ \A s \in Threads : call[s].at \in Working => call[s].attempt # m
        BY <3>2 DEF AttemptInv
      <4> QED
        BY <2>2, <2>4, <2>5, <3>2, <4>1
    <3> QED
      BY <2>2, <3>1, <3>2
  <2>9. ASSUME NEW m \in DOMAIN attempts, Made(m)' PROVE Made(m) \/ m = k
    <3>1. CASE attempts'[m].status = "committed"
      BY <2>4, <3>1 DEF Made
    <3>2. ASSUME NEW s \in Threads, call'[s].at = "saved", call'[s].attempt = m
          PROVE  Made(m) \/ m = k
      <4>1. CASE s = t
        <5>1. call'[t].attempt = call[t].attempt
          BY <1>12, CommitEffect
        <5> QED
          BY <2>1, <3>2, <4>1, <5>1
      <4>2. CASE s # t
        BY <2>2, <3>2, <4>2 DEF Made
      <4> QED
        BY <4>1, <4>2
    <3> QED
      BY <2>9, <3>1, <3>2 DEF Made
  <2>10. ASSUME NEW m \in DOMAIN attempts, Made(m) PROVE RunOf(m) \in DOMAIN saved
    <3>1. PICK r \in DOMAIN saved : saved[r].request = attempts[m].request
      <4>1. CASE attempts[m].status = "committed"
        BY <4>1 DEF AttemptInv
      <4>2. ASSUME NEW s \in Threads, call[s].at = "saved", call[s].attempt = m
            PROVE  \E r \in DOMAIN saved : saved[r].request = attempts[m].request
        <5>1. Held(s)
          BY <4>2, HandParts DEF Closing
        <5> QED
          BY <4>2, <5>1 DEF Held
      <4> QED
        BY <2>10, <4>1, <4>2 DEF Made
    <3> QED
      BY <3>1 DEF RunOf, TypeOK
  <2>11. RunOf(k) = n /\ n \notin DOMAIN saved
    <3>1. call[t].run = Here(t).run /\ call[t].run \notin DOMAIN saved
      BY <1>12, <2>2, HandParts DEF Held, Closing, Working, Commits, Collides
    <3> QED
      BY <2>1, <2>3, <3>1 DEF RunOf, Here
  <2>12. \A m \in DOMAIN attempts' : RunOf(m)' = RunOf(m)
    BY <2>4 DEF RunOf
  <2>13. \A m, o \in DOMAIN attempts' : Made(m)' /\ Made(o)' /\ RunOf(m)' = RunOf(o)' => m = o
    BY <2>4, <2>9, <2>10, <2>11, <2>12 DEF AttemptInv
  <2> QED
    BY <2>7, <2>8, <2>13 DEF AttemptInv
<1>13. ASSUME NEW t \in Threads, Quits(t) PROVE AttemptInv'
  <2>1. End(t)
    BY <1>13 DEF Quits
  <2>3. UNCHANGED <<attempts, saved>>
    BY <1>13 DEF Quits, db, audit
  <2>4. \A s \in Threads : call'[s].at \in Closing =>
          /\ call[s].at \in Closing /\ call'[s].attempt = call[s].attempt
          /\ call'[s].at \in Working <=> call[s].at \in Working
    BY <2>1, EndEffect DEF Quits, Closing, Working
  <2> QED
    BY <2>3, <2>4, AttemptStays
<1>14. ASSUME NEW r \in Runs, Refuses(r) PROVE AttemptInv'
  <2>3. UNCHANGED <<attempts, saved>>
    BY <1>14 DEF Refuses, db, audit
  <2>4. \A s \in Threads : call'[s].at \in Closing =>
          /\ call[s].at \in Closing /\ call'[s].attempt = call[s].attempt
          /\ call'[s].at \in Working <=> call[s].at \in Working
    BY <1>14 DEF Refuses, Closing, Working
  <2> QED
    BY <2>3, <2>4, AttemptStays
<1>15. CASE Crash
  <2>3. UNCHANGED <<attempts, saved>>
    BY <1>15 DEF Crash, db, audit
  <2>4. \A s \in Threads : call'[s].at \in Closing =>
          /\ call[s].at \in Closing /\ call'[s].attempt = call[s].attempt
          /\ call'[s].at \in Working <=> call[s].at \in Working
    BY <1>15 DEF Crash, Idle, Closing, Working
  <2> QED
    BY <2>3, <2>4, AttemptStays
<1>16. CASE UNCHANGED vars
  <2>1. UNCHANGED <<attempts, saved, call>>
    BY <1>16 DEF vars, db, audit
  <2> QED
    BY <2>1, AttemptStays
<1> QED
  BY <1>1, <1>2, <1>3, <1>4, <1>5, <1>6, <1>7, <1>8, <1>9, <1>10, <1>11, <1>12, <1>13, <1>14, <1>15,
     <1>16, StepKinds
    DEF Steps

\* A receipt of a delivery stands for what is there.
Covered(x) == IF x.what = "json" THEN x.run \in file ELSE \E p \in reports : x.run \in DOMAIN p

\* Nothing exported is taken back, and what is delivered stays covered.
LEMMA ExportStays ==
  ASSUME TypeOK, HandInv, ExportInv, [Next]_vars, file' \cap foreign' = {},
         file \subseteq file', reports \subseteq reports',
         \A p \in reports' \ reports : \A s \in DOMAIN p :
           s \in DOMAIN saved /\ p[s] = Reviewed(saved[s]),
         \A s \in Threads :
           /\ call'[s].at = "placed" => call'[s] = call[s] \/ call'[s].run \in file'
           /\ call'[s].at = "published" =>
                call'[s] = call[s] \/ \E p \in reports' : call'[s].run \in DOMAIN p,
         \A x \in receipts' : x.status = "delivered" => x \in receipts \/ Covered(x)
  PROVE  ExportInv'
<1>1. DOMAIN saved \subseteq DOMAIN saved' /\ \A r \in DOMAIN saved : saved'[r] = saved[r]
  BY SavedGrows
<1>2. \A s \in DOMAIN saved : Reviewed(saved'[s]) = Reviewed(saved[s])
  BY <1>1
<1>3. ASSUME NEW p \in reports', NEW s \in DOMAIN p
      PROVE  s \in DOMAIN saved' /\ p[s] = Reviewed(saved'[s])
  <2>1. s \in DOMAIN saved /\ p[s] = Reviewed(saved[s])
    BY <1>3 DEF ExportInv
  <2> QED
    BY <1>1, <1>2, <2>1
<1>4. \A s \in Threads : /\ call'[s].at = "placed" => call'[s].run \in file'
                         /\ call'[s].at = "published" =>
                              \E p \in reports' : call'[s].run \in DOMAIN p
  BY DEF ExportInv
<1>5. ASSUME NEW x \in receipts', x.status = "delivered"
      PROVE  IF x.what = "json" THEN x.run \in file' ELSE \E p \in reports' : x.run \in DOMAIN p
  BY <1>5 DEF ExportInv, Covered
<1> QED
  BY <1>3, <1>4, <1>5 DEF ExportInv

\* The output directory holds what the receipts say.
LEMMA ExportPreserved ==
  ASSUME TypeOK, HandInv, ViewInv, ExportInv, [Next]_vars
  PROVE  ExportInv'
<1>1. ASSUME NEW t \in Threads, NEW x \in Names, Start(t, x) PROVE ExportInv'
  <2>3. UNCHANGED <<file, foreign, reports>> /\ file' \cap foreign' = {}
    BY <1>1 DEF Start, audit, out, ExportInv
  <2>4. \A s \in Threads : call'[s].at \in {"placed", "published"} => call'[s] = call[s]
    BY <1>1, StartEffect
  <2>5. \A y \in receipts' : y.status = "delivered" => y \in receipts
    BY <1>1 DEF Start, audit, out
  <2> QED
    BY <2>3, <2>4, <2>5, ExportStays
<1>2. ASSUME NEW t \in Threads, NEW r \in Runs, Deliver(t, r) PROVE ExportInv'
  <2>1. "placed" \in Stages /\ Place(t, r, "placed")
    BY <1>2 DEF Deliver, Stages
  <2>2. /\ \A s \in Threads \ {t} : call'[s] = call[s]
        /\ call'[t].at = "placed" /\ call'[t].run = r
    BY <2>1, PlaceEffect
  <2>3. /\ file' = file \cup {r} /\ r \notin foreign
        /\ UNCHANGED <<foreign, reports, receipts>>
    BY <1>2 DEF Deliver, audit
  <2>4. file' \cap foreign' = {}
    BY <2>3 DEF ExportInv
  <2> QED
    BY <2>2, <2>3, <2>4, ExportStays
<1>3. ASSUME NEW t \in Threads, NEW r \in Runs, Shows(t, r) PROVE ExportInv'
  <2>1. "published" \in Stages /\ Place(t, r, "published")
    BY <1>3 DEF Shows, Stages
  <2>2. /\ \A s \in Threads \ {t} : call'[s] = call[s]
        /\ call'[t].at = "published" /\ call'[t].run = r
    BY <2>1, PlaceEffect
  <2>3. PICK p : p = [s \in Related(r) |-> Reviewed(saved[s])]
    OBVIOUS
  <2>4. /\ reports' = reports \cup {p} /\ r \in DOMAIN saved
        /\ UNCHANGED <<file, foreign, receipts>>
    BY <1>3, <2>3 DEF Shows, audit
  <2>5. /\ r \in DOMAIN p
        /\ \A s \in DOMAIN p : s \in DOMAIN saved /\ p[s] = Reviewed(saved[s])
    BY <2>3, <2>4 DEF Related
  <2>6. file' \cap foreign' = {}
    BY <2>4 DEF ExportInv
  <2> QED
    BY <2>2, <2>4, <2>5, <2>6, ExportStays
<1>4. ASSUME NEW t \in Threads, NotSaved(t) PROVE ExportInv'
  <2>1. "unsaved" \in Stages /\ Go(t, "unsaved")
    BY <1>4 DEF NotSaved, Stages, Closing, Working
  <2>3. UNCHANGED <<file, foreign, reports>> /\ file' \cap foreign' = {}
    BY <1>4 DEF NotSaved, audit, out, ExportInv
  <2>4. \A s \in Threads : call'[s].at \in {"placed", "published"} => call'[s] = call[s]
    BY <1>4, <2>1, GoEffect
  <2>5. \A x \in receipts' : x.status = "delivered" => x \in receipts
    BY <1>4 DEF NotSaved, audit, out
  <2> QED
    BY <2>3, <2>4, <2>5, ExportStays
<1>5. ASSUME NEW t \in Threads, Begin(t) PROVE ExportInv'
  <2>3. UNCHANGED <<file, foreign, reports>> /\ file' \cap foreign' = {}
    BY <1>5 DEF Begin, audit, out, ExportInv
  <2>4. \A s \in Threads : call'[s].at \in {"placed", "published"} => call'[s] = call[s]
    BY <1>5, BeginEffect
  <2>5. \A x \in receipts' : x.status = "delivered" => x \in receipts
    BY <1>5 DEF Begin, audit, out
  <2> QED
    BY <2>3, <2>4, <2>5, ExportStays
<1>6. ASSUME NEW t \in Threads, Committed(t) PROVE ExportInv'
  <2>1. End(t)
    BY <1>6 DEF Committed
  <2>3. UNCHANGED <<file, foreign, reports>> /\ file' \cap foreign' = {}
    BY <1>6 DEF Committed, audit, out, ExportInv
  <2>4. \A s \in Threads : call'[s].at \in {"placed", "published"} => call'[s] = call[s]
    BY <2>1, EndEffect
  <2>5. \A x \in receipts' : x.status = "delivered" => x \in receipts
    BY <1>6 DEF Committed, audit, out
  <2> QED
    BY <2>3, <2>4, <2>5, ExportStays
<1>7. ASSUME NEW t \in Threads, Delivered(t) PROVE ExportInv'
  <2>1. End(t) /\ call[t].at = "placed" /\ Receipt(call[t].run, "json", "delivered")
    BY <1>7 DEF Delivered
  <2>3. UNCHANGED <<file, foreign, reports>> /\ file' \cap foreign' = {}
    BY <1>7 DEF Delivered, out, ExportInv
  <2>4. \A s \in Threads : call'[s].at \in {"placed", "published"} => call'[s] = call[s]
    BY <2>1, EndEffect
  <2>5. \A x \in receipts' : x.status = "delivered" => x \in receipts \/ Covered(x)
    BY <2>1 DEF Receipt, Covered, ExportInv
  <2> QED
    BY <2>3, <2>4, <2>5, ExportStays
<1>8. ASSUME NEW t \in Threads, Published(t) PROVE ExportInv'
  <2>1. End(t) /\ call[t].at = "published" /\ Receipt(call[t].run, "html", "delivered")
    BY <1>8 DEF Published
  <2>3. UNCHANGED <<file, foreign, reports>> /\ file' \cap foreign' = {}
    BY <1>8 DEF Published, out, ExportInv
  <2>4. \A s \in Threads : call'[s].at \in {"placed", "published"} => call'[s] = call[s]
    BY <2>1, EndEffect
  <2>5. \A x \in receipts' : x.status = "delivered" => x \in receipts \/ Covered(x)
    BY <2>1 DEF Receipt, Covered, ExportInv
  <2> QED
    BY <2>3, <2>4, <2>5, ExportStays
<1>9. ASSUME NEW t \in Threads, GivesUp(t) PROVE ExportInv'
  <2>1. End(t)
    BY <1>9 DEF GivesUp
  <2>3. UNCHANGED <<file, foreign, reports>> /\ file' \cap foreign' = {}
    BY <1>9 DEF GivesUp, audit, out, ExportInv
  <2>4. \A s \in Threads : call'[s].at \in {"placed", "published"} => call'[s] = call[s]
    BY <2>1, EndEffect
  <2>5. \A x \in receipts' : x.status = "delivered" => x \in receipts
    BY <1>9 DEF GivesUp, audit, out
  <2> QED
    BY <2>3, <2>4, <2>5, ExportStays
<1>10. ASSUME NEW t \in Threads, Replays(t) PROVE ExportInv'
  <2>1. End(t)
    BY <1>10 DEF Replays
  <2>3. UNCHANGED <<file, foreign, reports>> /\ file' \cap foreign' = {}
    BY <1>10 DEF Replays, audit, out, ExportInv
  <2>4. \A s \in Threads : call'[s].at \in {"placed", "published"} => call'[s] = call[s]
    BY <2>1, EndEffect
  <2>5. \A x \in receipts' : x.status = "delivered" => x \in receipts
    BY <1>10 DEF Replays, audit, out
  <2> QED
    BY <2>3, <2>4, <2>5, ExportStays
<1>11. ASSUME NEW t \in Threads, Writes(t) PROVE ExportInv'
  <2>1. call[t].request \in Names /\ call[t].view \in Views
    BY <1>11 DEF Writes, HandInv, ViewInv, Closing, Working
  <2>3. UNCHANGED <<file, foreign, reports>> /\ file' \cap foreign' = {}
    BY <1>11 DEF Writes, audit, out, ExportInv
  <2>4. \A s \in Threads : call'[s].at \in {"placed", "published"} => call'[s] = call[s]
    BY <1>11, <2>1, WriteEffect
  <2>5. \A x \in receipts' : x.status = "delivered" => x \in receipts
    BY <1>11 DEF Writes, audit, out
  <2> QED
    BY <2>3, <2>4, <2>5, ExportStays
<1>12. ASSUME NEW t \in Threads, Commits(t) PROVE ExportInv'
  <2>3. UNCHANGED <<file, foreign, reports>> /\ file' \cap foreign' = {}
    BY <1>12 DEF Commits, audit, out, ExportInv
  <2>4. \A s \in Threads : call'[s].at \in {"placed", "published"} => call'[s] = call[s]
    BY <1>12, CommitEffect
  <2>5. \A x \in receipts' : x.status = "delivered" => x \in receipts
    BY <1>12 DEF Commits, audit, out
  <2> QED
    BY <2>3, <2>4, <2>5, ExportStays
<1>13. ASSUME NEW t \in Threads, Quits(t) PROVE ExportInv'
  <2>1. End(t)
    BY <1>13 DEF Quits
  <2>3. UNCHANGED <<file, foreign, reports>> /\ file' \cap foreign' = {}
    BY <1>13 DEF Quits, out, NoneDelivered, ExportInv
  <2>4. \A s \in Threads : call'[s].at \in {"placed", "published"} => call'[s] = call[s]
    BY <2>1, EndEffect
  <2>5. \A x \in receipts' : x.status = "delivered" => x \in receipts
    BY <1>13 DEF Quits, out, NoneDelivered
  <2> QED
    BY <2>3, <2>4, <2>5, ExportStays
<1>14. ASSUME NEW r \in Runs, Refuses(r) PROVE ExportInv'
  <2>1. UNCHANGED <<file, reports, call>> /\ file' \cap foreign' = {}
    BY <1>14 DEF Refuses, ExportInv
  <2>2. \A x \in receipts' : x.status = "delivered" => x \in receipts
    BY <1>14 DEF Refuses, NoneDelivered
  <2> QED
    BY <2>1, <2>2, ExportStays
<1>15. CASE Crash
  <2>3. UNCHANGED <<file, foreign, reports>> /\ file' \cap foreign' = {}
    BY <1>15 DEF Crash, audit, out, ExportInv
  <2>4. \A s \in Threads : call'[s].at \in {"placed", "published"} => call'[s] = call[s]
    BY <1>15 DEF Crash, Idle
  <2>5. \A x \in receipts' : x.status = "delivered" => x \in receipts
    BY <1>15 DEF Crash, audit, out
  <2> QED
    BY <2>3, <2>4, <2>5, ExportStays
<1>16. CASE UNCHANGED vars
  <2>1. UNCHANGED <<file, foreign, reports, call, receipts>>
    BY <1>16 DEF vars, audit, out
  <2>2. file' \cap foreign' = {}
    BY <2>1 DEF ExportInv
  <2> QED
    BY <2>1, <2>2, ExportStays
<1> QED
  BY <1>1, <1>2, <1>3, <1>4, <1>5, <1>6, <1>7, <1>8, <1>9, <1>10, <1>11, <1>12, <1>13, <1>14, <1>15,
     <1>16, StepKinds
    DEF Steps

-----------------------------------------------------------------------------
(* The effective panel, and what a saved close used.                       *)

\* Among numbered versions one is the latest.
LEMMA LatestMember ==
  ASSUME NEW D, D # {}, NEW n \in Nat, \A v \in D : v.sequence \in Nat /\ v.sequence <= n
  PROVE  \E v \in D : \A w \in D : w.sequence <= v.sequence
<1> DEFINE R == OpToRel(<, Nat)
           T == {n - v.sequence : v \in D}
<1>1. T \subseteq Nat /\ T # {}
  OBVIOUS
<1>2. PICK x \in T : \A y \in T : <<y, x>> \notin R
  <2>1. IsWellFoundedOn(R, Nat)
    BY NatLessThanWellFounded
  <2> HIDE DEF R, T
  <2> QED
    BY <1>1, <2>1, WFMin
<1>3. \A y \in T : y < x => <<y, x>> \in R
  <2> SUFFICES ASSUME NEW y \in T, y < x
               PROVE  <<y, x>> \in {ss \in Nat \X Nat : ss[1] < ss[2]}
    BY DEF OpToRel
  <2> HIDE DEF T
  <2> QED
    BY <1>1, <1>2
<1>4. \A y \in T : x <= y
  <2> HIDE DEF R, T
  <2>1. \A y \in T : ~(y < x)
    BY <1>2, <1>3
  <2> QED
    BY <1>1, <2>1
<1>5. PICK v \in D : x = n - v.sequence
  BY <1>2
<1>6. \A w \in D : w.sequence <= v.sequence
  <2> SUFFICES ASSUME NEW w \in D PROVE w.sequence <= v.sequence
    OBVIOUS
  <2>1. x <= n - w.sequence
    BY <1>4
  <2> QED
    BY <1>5, <2>1
<1> QED
  BY <1>6

\* Every observation of the effective panel is that of the latest version that
\* has it.
Explained(effective, deltas) ==
  /\ DOMAIN effective = UNION {DOMAIN Rows(v) : v \in deltas}
  /\ \A k \in DOMAIN effective : \E v \in deltas :
       /\ v.version = effective[k].source /\ k \in DOMAIN Rows(v)
       /\ Rows(v)[k] = effective[k].amount
       /\ \A w \in deltas : w.sequence > v.sequence => k \notin DOMAIN Rows(w)

LEMMA EffectiveFacts ==
  ASSUME NEW V \in SUBSET Versions, NEW e, NEW n \in Nat,
         NEW deltas, deltas = Deltas(V, e, n), NEW effective, effective = Effective(V, e, n)
  PROVE  Explained(effective, deltas)
<1>1. \A v \in deltas : v.sequence \in Nat /\ v.sequence <= n
  BY DEF Deltas, OfEntity, Versions
<1> DEFINE keys == UNION {DOMAIN Rows(v) : v \in deltas}
           Wins(v, k) == k \in DOMAIN Rows(v)
                         /\ \A w \in deltas : k \in DOMAIN Rows(w) => w.sequence <= v.sequence
           Winner(k) == CHOOSE v \in deltas :
                          /\ k \in DOMAIN Rows(v)
                          /\ \A w \in deltas : k \in DOMAIN Rows(w) => w.sequence <= v.sequence
<1>2. effective = [k \in keys |-> [amount |-> Rows(Winner(k))[k], source |-> Winner(k).version]]
  BY Zenon DEF Effective
<1>3. ASSUME NEW k \in keys PROVE Winner(k) \in deltas /\ Wins(Winner(k), k)
  <2>1. \E v \in deltas : Wins(v, k)
    <3> DEFINE D == {v \in deltas : k \in DOMAIN Rows(v)}
    <3>1. D # {} /\ \A v \in D : v.sequence \in Nat /\ v.sequence <= n
      BY <1>1, <1>3
    <3>2. \E v \in D : \A w \in D : w.sequence <= v.sequence
      <4> HIDE DEF D
      <4> QED
        BY <3>1, LatestMember
    <3> QED
      BY <3>2
  <2> QED
    BY <2>1
<1> HIDE DEF Winner
<1>4. DOMAIN effective = keys
  BY <1>2
<1>5. ASSUME NEW k \in keys
      PROVE  \E v \in deltas :
               /\ v.version = effective[k].source /\ k \in DOMAIN Rows(v)
               /\ Rows(v)[k] = effective[k].amount
               /\ \A w \in deltas : w.sequence > v.sequence => k \notin DOMAIN Rows(w)
  <2>1. PICK v : v = Winner(k)
    OBVIOUS
  <2>2. v \in deltas /\ Wins(v, k)
    BY <1>3, <2>1
  <2>3. effective[k] = [amount |-> Rows(v)[k], source |-> v.version]
    <3> HIDE DEF keys
    <3> QED
      BY <1>2, <1>5, <2>1
  <2>4. \A w \in deltas : w.sequence > v.sequence => k \notin DOMAIN Rows(w)
    BY <1>1, <2>2
  <2> QED
    BY <2>2, <2>3, <2>4
<1> QED
  BY <1>4, <1>5 DEF Explained

\* What stands behind one saved close, named without a choice.
Traced(q, effective, basis) ==
  /\ basis.entity = q.entity /\ Rows(basis) = q.actuals.rows
  /\ Explained(effective, Deltas(stored, q.entity, basis.sequence))
Sourced(q, effective) ==
  /\ \E v \in Lookup(stored, "budget", q.budget.version) :
       v.entity = q.entity /\ Rows(v) = q.budget.rows
  /\ \E basis \in Lookup(stored, "actuals", q.actuals.version) : Traced(q, effective, basis)

LEMMA SourcesByClose ==
  /\ SourcesInv <=> \A r \in DOMAIN saved : Sourced(Of(r), saved[r].effective)
  /\ SourcesInv' <=> \A r \in DOMAIN saved' : Sourced(Of(r), saved[r].effective)'
BY DEF SourcesInv, Sourced, Traced, Explained, Of

\* New versions come after all that saved closes of their entity have used.
LEMMA SourcesPreserved ==
  ASSUME TypeOK, HandInv, ViewInv, StoreInv, PreparedInv, SourcesInv, [Next]_vars
  PROVE  SourcesInv'
<1>1. CASE UNCHANGED db
  BY <1>1 DEF SourcesInv, db
<1>2. ASSUME NEW t \in Threads, Commits(t) PROVE SourcesInv'
  <2>0. PICK q, n, d, all, writes :
          /\ q = Here(t) /\ n = call[t].run /\ d = Here(t).entity
          /\ all = All(t) /\ writes = call[t].writes
    OBVIOUS
  <2>1. /\ call[t].request \in Names /\ call[t].at = "written"
        /\ DOMAIN saved' = DOMAIN saved \cup {n}
        /\ \A r \in DOMAIN saved : saved'[r] = saved[r]
        /\ saved'[n].request = call[t].request
        /\ saved'[n].effective = Panel(all, q)
        /\ stored' = stored \cup writes
    BY <1>2, <2>0, CommitEffect
  <2>2. /\ \A v \in writes : /\ v \in Versions /\ v.entity = d
                             /\ \A w \in OfEntity(stored, d) : w.sequence < v.sequence
        /\ \A e \in Entities \ {d} : OfEntity(stored', e) = OfEntity(stored, e)
        /\ OfEntity(stored', d) = OfEntity(all, d) /\ all \subseteq stored'
    BY <1>2, <2>0, CommitRows
  <2>3. \A v \in stored' : v \in Versions /\ v.sequence \in Nat
    BY <2>1, <2>2 DEF TypeOK, Versions
  <2>4. Ready(t)
    BY <2>1, PreparedParts
  <2>5. ASSUME NEW r \in DOMAIN saved PROVE Sourced(Of(r), saved[r].effective)'
    <3>1. PICK a, effective : a = Of(r) /\ effective = saved[r].effective
      OBVIOUS
    <3>2. Of(r)' = a /\ saved'[r].effective = effective
      BY <2>1, <3>1 DEF Of
    <3>3. a.entity \in Entities
      BY <3>1 DEF TypeOK, Of, Entities
    <3>4. Sourced(a, effective)
      BY <3>1, SourcesByClose
    <3>5. PICK basis \in Lookup(stored, "actuals", a.actuals.version) : Traced(a, effective, basis)
      BY <3>4 DEF Sourced
    <3>6. basis \in OfEntity(stored, a.entity) /\ basis.sequence \in Nat
      BY <2>1, <2>3, <3>5 DEF Lookup, OfEntity, Traced
    <3>7. Deltas(stored', a.entity, basis.sequence) = Deltas(stored, a.entity, basis.sequence)
      <4>1. CASE a.entity # d
        BY <2>2, <3>3, <4>1 DEF Deltas
      <4>2. CASE a.entity = d
        <5>1. \A v \in writes : ~(v.sequence <= basis.sequence)
          BY <2>1, <2>2, <2>3, <3>6, <4>2
        <5> QED
          BY <2>1, <5>1 DEF Deltas, OfEntity
      <4> QED
        BY <4>1, <4>2
    <3>8. Traced(a, effective, basis)'
      BY <3>5, <3>7 DEF Traced
    <3>9. /\ basis \in Lookup(stored', "actuals", a.actuals.version)
          /\ Lookup(stored, "budget", a.budget.version) \subseteq
               Lookup(stored', "budget", a.budget.version)
      BY <2>1, <3>5 DEF Lookup
    <3> QED
      BY <3>2, <3>4, <3>8, <3>9 DEF Sourced
  <2>6. Sourced(Of(n), saved[n].effective)'
    <3>1. Of(n)' = q
      BY <2>0, <2>1 DEF Of, Here
    <3>2. /\ LatestBasis(all, q)
          /\ \A k \in Kinds : /\ Lookup(all, k, q[k].version) # {}
                              /\ \A v \in Lookup(all, k, q[k].version) :
                                   v.entity = d /\ Rows(v) = q[k].rows
      BY <2>0, <2>4 DEF Ready
    <3>3. PICK basis : basis = CHOOSE v \in Lookup(all, "actuals", q.actuals.version) : TRUE
      OBVIOUS
    <3>4. /\ basis \in Lookup(all, "actuals", q.actuals.version)
          /\ basis.entity = d /\ Rows(basis) = q.actuals.rows
      BY <3>2, <3>3 DEF Kinds
    <3>5. PICK effective, deltas : /\ effective = Effective(all, d, basis.sequence)
                                   /\ deltas = Deltas(all, d, basis.sequence)
      OBVIOUS
    <3>6. all \in SUBSET Versions /\ basis.sequence \in Nat
      BY <2>2, <2>3, <3>4 DEF Lookup
    <3>7. saved'[n].effective = effective /\ Deltas(stored', d, basis.sequence) = deltas
      BY <2>0, <2>1, <2>2, <3>3, <3>5 DEF Panel, Deltas
    <3>8. Traced(q, effective, basis)'
      <4>1. Explained(effective, deltas)
        BY <3>5, <3>6, EffectiveFacts
      <4> QED
        BY <2>0, <3>4, <3>7, <4>1 DEF Traced, Explained
    <3>9. basis \in Lookup(stored', "actuals", q.actuals.version)
      BY <2>2, <3>4 DEF Lookup
    <3>10. \E v \in Lookup(stored', "budget", q.budget.version) :
             v.entity = q.entity /\ Rows(v) = q.budget.rows
      <4>1. PICK v \in Lookup(all, "budget", q.budget.version) :
              v.entity = d /\ Rows(v) = q.budget.rows
        BY <3>2 DEF Kinds
      <4> QED
        BY <2>0, <2>2, <4>1 DEF Lookup
    <3> QED
      BY <3>1, <3>7, <3>8, <3>9, <3>10 DEF Sourced
  <2> QED
    BY <2>1, <2>5, <2>6, SourcesByClose
<1> QED
  BY <1>1, <1>2, OnlyCommits

-----------------------------------------------------------------------------
(* The theorems.                                                           *)

LEMMA InitIInv == Init => IInv
<1> SUFFICES ASSUME Init PROVE IInv
  OBVIOUS
<1>1. /\ stored = {} /\ DOMAIN saved = {} /\ heads = [e \in Entities |-> NoHead]
      /\ sequence = 0 /\ attempts = <<>> /\ receipts = {}
      /\ file = {} /\ foreign = {} /\ reports = {} /\ call = [t \in Threads |-> Idle]
  BY DEF Init
<1>2. NoHead \in Heads
  BY DEF NoHead, Heads
<1>3. attempts \in Seq(Attempts) /\ DOMAIN attempts = {}
  BY <1>1
<1>4. TypeOK
  BY <1>1, <1>2, <1>3, IdleIsCall DEF TypeOK
<1>5. \A t \in Threads : call[t].at = "idle"
  BY <1>1 DEF Idle
<1>6. HandInv /\ ViewInv /\ PreparedInv
  BY <1>5 DEF HandInv, ViewInv, PreparedInv, Closing, Working
<1>7. StoreInv /\ SourcesInv
  BY <1>1 DEF StoreInv, SourcesInv
<1>8. OneLineOfCloses
  <2>1. \A e \in Entities : Line(e) = {} /\ heads[e] = NoHead
    BY <1>1 DEF Line
  <2> QED
    BY <2>1, LinesByEntity DEF EndsInHead, Succeeds
<1>9. HeadInv /\ AttemptInv /\ ExportInv
  BY <1>1, <1>3, <1>5 DEF HeadInv, AttemptInv, ExportInv
<1> QED
  BY <1>4, <1>6, <1>7, <1>8, <1>9 DEF IInv

LEMMA IInvPreserved == IInv /\ [Next]_vars => IInv'
BY TypePreserved, HandPreserved, ViewPreserved, StorePreserved, PreparedPreserved,
   SourcesPreserved, LinePreserved, HeadPreserved, AttemptPreserved, ExportPreserved DEF IInv

\* What the connections hold and what is saved agree in every reachable state.
THEOREM IInvariant == Spec => []IInv
<1> QED
  BY InitIInv, IInvPreserved, PTL DEF Spec

\* However many connections correct the same close at the same time, the closes
\* of an entity form one line that ends in its head (close.py:105-122).
THEOREM ClosesFormOneLine == Spec => []OneLineOfCloses
<1>1. IInv => OneLineOfCloses
  BY DEF IInv
<1> QED
  BY <1>1, IInvariant, PTL

\* What the database says of attempts and exports has happened, across crashes
\* between a commit or a renamed file and its record (close.py:125-140, 288-328).
THEOREM RecordsHold == Spec => []RecordsTruthful
<1>1. IInv => RecordsTruthful
  <2> SUFFICES ASSUME IInv PROVE RecordsTruthful
    OBVIOUS
  <2>1. AttemptInv /\ ExportInv
    BY DEF IInv
  <2>2. \A n \in DOMAIN attempts : attempts[n].status \in {"committed", "replayed"} =>
          \E r \in DOMAIN saved : saved[r].request = attempts[n].request
    BY <2>1 DEF AttemptInv
  <2>3. \A r \in DOMAIN saved : \E n \in DOMAIN attempts :
          attempts[n].request = saved[r].request /\ attempts[n].status # "replayed"
    BY <2>1 DEF AttemptInv
  <2>5. \A m, n \in DOMAIN attempts :
          /\ attempts[m].status = "committed" /\ attempts[n].status = "committed"
          /\ Requests[attempts[m].request].run = Requests[attempts[n].request].run
          => m = n
    BY <2>1 DEF AttemptInv, Made, RunOf
  <2>4. ASSUME NEW x \in receipts, x.status = "delivered"
        PROVE  IF x.what = "json" THEN x.run \in file \ foreign
               ELSE \E p \in reports : x.run \in DOMAIN p /\
                      \A s \in DOMAIN p : p[s] = Reviewed(saved[s])
    BY <2>1, <2>4 DEF ExportInv
  <2> QED
    BY <2>2, <2>3, <2>4, <2>5 DEF RecordsTruthful
<1> QED
  BY <1>1, IInvariant, PTL

\* A label names one version, so that a choice among its versions is that one.
LEMMA LabelsName ==
  ASSUME StoreInv, NEW kind, NEW label, NEW v \in Lookup(stored, kind, label)
  PROVE  (CHOOSE w \in Lookup(stored, kind, label) : TRUE) = v
<1>1. \A w \in Lookup(stored, kind, label) : w = v
  BY DEF StoreInv, Lookup
<1> QED
  BY <1>1

\* Whatever was restated or drew a number since, the store gives for the
\* version of a saved close exactly what the close used, observation by
\* observation (docs/agent4-close-recovery.md:83-92): the half of
\* SavedCloseStands that is about the store.
SourcesStand == \A r \in DOMAIN saved : AsStored(Requests[saved[r].request], saved[r])
THEOREM SourcesStayBehindCloses == Spec => []SourcesStand
<1>1. IInv => SourcesStand
  <2> SUFFICES ASSUME IInv, NEW r \in DOMAIN saved
               PROVE  AsStored(Requests[saved[r].request], saved[r])
    BY DEF SourcesStand
  <2>1. StoreInv
    BY DEF IInv
  <2>2. PICK q, b : q = Of(r) /\ b = saved[r]
    OBVIOUS
  <2>3. Sourced(q, b.effective)
    BY <2>2, SourcesByClose DEF IInv
  <2>4. PICK plan \in Lookup(stored, "budget", q.budget.version) :
          plan.entity = q.entity /\ Rows(plan) = q.budget.rows
    BY <2>3 DEF Sourced
  <2>5. PICK basis \in Lookup(stored, "actuals", q.actuals.version) : Traced(q, b.effective, basis)
    BY <2>3 DEF Sourced
  <2>6. basis = CHOOSE v \in Lookup(stored, "actuals", q.actuals.version) : TRUE
    BY <2>1, <2>5, LabelsName
  <2>7. PICK deltas : deltas = {v \in stored : /\ v.kind = "actuals" /\ v.entity = q.entity
                                               /\ v.sequence <= basis.sequence}
    OBVIOUS
  <2>8. Explained(b.effective, deltas)
    BY <2>5, <2>7 DEF Traced, Deltas, OfEntity
  <2>9. \A kind \in Kinds : \E v \in Lookup(stored, kind, q[kind].version) :
          v.entity = q.entity /\ Rows(v) = q[kind].rows
    BY <2>4, <2>5 DEF Kinds, Traced
  <2>10. ASSUME NEW k \in DOMAIN b.effective, NEW v,
                v = CHOOSE w \in Lookup(stored, "actuals", b.effective[k].source) : TRUE
         PROVE  /\ v \in deltas /\ k \in DOMAIN Rows(v)
                /\ Rows(v)[k] = b.effective[k].amount
                /\ \A w \in deltas : w.sequence > v.sequence => k \notin DOMAIN Rows(w)
    <3>1. PICK w \in deltas :
            /\ w.version = b.effective[k].source /\ k \in DOMAIN Rows(w)
            /\ Rows(w)[k] = b.effective[k].amount
            /\ \A u \in deltas : u.sequence > w.sequence => k \notin DOMAIN Rows(u)
      BY <2>8 DEF Explained
    <3>2. w \in Lookup(stored, "actuals", b.effective[k].source)
      BY <2>7, <3>1 DEF Lookup
    <3>3. v = w
      BY <2>1, <2>10, <3>2, LabelsName
    <3> QED
      BY <3>1, <3>3
  <2>11. DOMAIN b.effective = UNION {DOMAIN Rows(v) : v \in deltas}
    BY <2>8 DEF Explained
  <2>12. \A k \in DOMAIN b.effective :
           LET v == CHOOSE w \in Lookup(stored, "actuals", b.effective[k].source) : TRUE IN
           /\ v \in deltas /\ k \in DOMAIN Rows(v) /\ Rows(v)[k] = b.effective[k].amount
           /\ \A w \in deltas : w.sequence > v.sequence => k \notin DOMAIN Rows(w)
    BY <2>10
  <2>13. deltas = {v \in stored :
                     /\ v.kind = "actuals" /\ v.entity = q.entity
                     /\ v.sequence <= (CHOOSE w \in Lookup(stored, "actuals", q.actuals.version)
                                         : TRUE).sequence}
    BY <2>6, <2>7
  <2>14. AsStored(q, b)
    BY <2>9, <2>11, <2>12, <2>13, Zenon DEF AsStored
  <2> QED
    BY <2>2, <2>14 DEF Of
<1> QED
  BY <1>1, IInvariant, PTL

-----------------------------------------------------------------------------

(***************************************************************************)
(* LineVariance: no line that is well formed is refused for its residual,  *)
(* whatever its factors, its volumes and the unit: the tolerances of       *)
(* agent4/decomposition.py cover every rounding.                           *)
(***************************************************************************)

\* r whole units of d are at most half a unit from n.
Near(r, n, d) == r \in Int /\ -d <= 2 * (d * r - n) /\ 2 * (d * r - n) <= d

\* round of Fraction: the result is a whole number at most half away.
LEMMA RoundNearest ==
  ASSUME NEW a \in Int, NEW d \in Nat \ {0}
  PROVE  Near(Round(a, d), a, d)
<1> DEFINE q == a \div d
           r == a % d
<1>1. q \in Int /\ r \in 0..(d - 1) /\ a = d * q + r
  OBVIOUS
<1>2. Abs(d) = d /\ ~(d < 0)
  BY DEF Abs
<1>3. Round(a, d) = IF 2 * r < d \/ (2 * r = d /\ q % 2 = 0) THEN q ELSE q + 1
  BY <1>2 DEF Round
<1>4. CASE 2 * r < d \/ (2 * r = d /\ q % 2 = 0)
  <2>1. Round(a, d) = q
    BY <1>3, <1>4
  <2>2. d * q - a = -r
    BY <1>1
  <2> QED  BY <1>1, <1>4, <2>1, <2>2 DEF Near
<1>5. CASE ~(2 * r < d \/ (2 * r = d /\ q % 2 = 0))
  <2>1. Round(a, d) = q + 1
    BY <1>3, <1>5
  <2>2. d * (q + 1) - a = d - r
    BY <1>1
  <2> QED  BY <1>1, <1>5, <2>1, <2>2 DEF Near
<1> QED  BY <1>4, <1>5

\* Five roundings, each at most half a unit, leave at most two units over.
LEMMA FiveHalves ==
  ASSUME NEW u \in Nat \ {0}, NEW k \in Int,
         -(5 * u) <= 2 * (u * k), 2 * (u * k) <= 5 * u
  PROVE  k \in -2..2
<1>1. k <= 2
  <2> SUFFICES ASSUME k >= 3 PROVE FALSE
    OBVIOUS
  <2>1. u * k >= u * 3
    OBVIOUS
  <2> QED  BY <2>1
<1>2. k >= -2
  <2> SUFFICES ASSUME k <= -3 PROVE FALSE
    OBVIOUS
  <2>1. u * k <= u * (-3)
    OBVIOUS
  <2> QED  BY <2>1
<1> QED  BY <1>1, <1>2

\* Rounded amounts a, b and rounded effects x, y, z whose exact values tie.
LEMMA RoundedTie ==
  ASSUME NEW d \in Nat \ {0}, NEW a \in Int, NEW b \in Int,
         NEW x \in Int, NEW y \in Int, NEW z \in Int, a - b = x + y + z,
         NEW ra, NEW rb, NEW rx, NEW ry, NEW rz,
         Near(ra, a, d), Near(rb, b, d), Near(rx, x, d), Near(ry, y, d), Near(rz, z, d)
  PROVE  (ra - rb) - (rx + ry + rz) \in -2..2
<1> DEFINE k == (ra - rb) - (rx + ry + rz)
<1>1. ra \in Int /\ rb \in Int /\ rx \in Int /\ ry \in Int /\ rz \in Int
  BY DEF Near
<1>2. k \in Int
  BY <1>1
<1>3. d * k = d * ra - d * rb - (d * rx + d * ry + d * rz)
  BY <1>1
<1>4. -(5 * d) <= 2 * (d * k) /\ 2 * (d * k) <= 5 * d
  <2>1. \A r \in Int : d * r \in Int
    OBVIOUS
  <2> HIDE DEF k
  <2> QED  BY <1>1, <1>2, <1>3, <2>1 DEF Near
<1> QED  BY <1>2, <1>4, FiveHalves

-----------------------------------------------------------------------------

\* What a line in factors and volumes amounts to, and what moved.
LEMMA SidesTyped ==
  ASSUME NEW budget \in Quantities, NEW actual \in Quantities
  PROVE  /\ budget.factor \in Nat /\ budget.volume \in Nat
         /\ actual.factor \in Nat /\ actual.volume \in Nat
BY DEF Quantities

\* money: nothing is worth nothing, anything is at most half a cent off.
LEMMA MoneyNearest ==
  /\ \A n \in Int : Near(Money(n), n, Unit)
  /\ Near(0, 0, Unit)
BY RoundNearest, UnitAssumption DEF Money, Near

\* _decompose_pv never refuses a line for its residual, in either convention.
THEOREM ResidualWithinTolerance ==
  ASSUME NEW budget \in Quantities, NEW actual \in Quantities, NEW convention \in Conventions
  PROVE  Residual(budget, actual, convention) \in -Tolerance..Tolerance
<1> DEFINE bf == budget.factor
           bv == budget.volume
           af == actual.factor
           av == actual.volume
           total == Variance(budget, actual)
           volume == (av - bv) * bf
<1>1. bf \in Nat /\ bv \in Nat /\ af \in Nat /\ av \in Nat
  BY SidesTyped
<1>2. total = Money(af * av) - Money(bf * bv)
  BY DEF Variance, Extended
<1> HIDE DEF bf, bv, af, av
<1>3. CASE convention = "sequential"
  <2> DEFINE moved == (af - bf) * av
  <2>1. af * av - bf * bv = moved + volume + 0
    BY <1>1
  <2>2. af * av \in Int /\ bf * bv \in Int /\ moved \in Int /\ volume \in Int
    BY <1>1
  <2>3. (Money(af * av) - Money(bf * bv)) - (Money(moved) + Money(volume) + 0) \in -2..2
    <3> HIDE DEF moved, volume
    <3> QED  BY <2>1, <2>2, MoneyNearest, UnitAssumption, RoundedTie
  <2>4. Residual(budget, actual, convention) = total - (Money(moved) + Money(volume))
    BY <1>3 DEF Residual, Drivers, bf, bv, af, av
  <2>5. Money(moved) \in Int /\ Money(volume) \in Int
    <3> HIDE DEF moved, volume
    <3> QED  BY <2>2, MoneyNearest DEF Near
  <2> QED  BY <1>2, <2>3, <2>4, <2>5 DEF Tolerance
<1>4. CASE convention = "symmetric"
  <2> DEFINE moved == (af - bf) * bv
             joint == (af - bf) * (av - bv)
             half == Money(joint) \div 2
  <2>1. af * av - bf * bv = moved + volume + joint
    BY <1>1
  <2>2. af * av \in Int /\ bf * bv \in Int /\ moved \in Int /\ volume \in Int /\ joint \in Int
    BY <1>1
  <2>3. (Money(af * av) - Money(bf * bv)) - (Money(moved) + Money(volume) + Money(joint)) \in -2..2
    <3> HIDE DEF moved, volume, joint
    <3> QED  BY <2>1, <2>2, MoneyNearest, UnitAssumption, RoundedTie
  <2>4. Residual(budget, actual, convention)
        = total - ((Money(moved) + half) + (Money(volume) + Money(joint) - half))
    BY <1>4 DEF Residual, Drivers, Joint, bf, bv, af, av
  <2>5. Money(moved) \in Int /\ Money(volume) \in Int /\ Money(joint) \in Int
    <3> HIDE DEF moved, volume, joint
    <3> QED  BY <2>2, MoneyNearest DEF Near
  <2>6. half \in Int
    BY <2>5
  <2>7. (Money(moved) + half) + (Money(volume) + Money(joint) - half)
        = Money(moved) + Money(volume) + Money(joint)
    BY <2>5, <2>6
  <2> QED  BY <1>2, <2>3, <2>4, <2>7 DEF Tolerance
<1> QED  BY <1>3, <1>4 DEF Conventions

\* So the check of _decompose_pv is never the reason to refuse a line, and the
\* drivers of a report, with the residual shown beside them, are its variance.
THEOREM LineTies ==
  ASSUME NEW line, WellFormed(line), line.budget \in Quantities, line.actual \in Quantities,
         NEW convention \in Conventions
  PROVE  LET split == Split(line, convention)
         IN  /\ ~split.refused
             /\ split.drivers.factor + split.drivers.volume + split.residual = split.total
<1> DEFINE residual == Residual(line.budget, line.actual, convention)
           drivers == Drivers(line.budget, line.actual, convention)
           total == Variance(line.budget, line.actual)
<1>1. residual \in -2..2
  BY ResidualWithinTolerance DEF Tolerance
<1>2. ~(Abs(residual) > Tolerance)
  <2> HIDE DEF residual
  <2> QED  BY <1>1 DEF Abs, Tolerance
<1>3. /\ Split(line, convention).refused = FALSE
      /\ Split(line, convention).drivers = drivers
      /\ Split(line, convention).residual = residual
      /\ Split(line, convention).total = total
  BY <1>2 DEF Split
<1>4. drivers.factor \in Int /\ drivers.volume \in Int /\ total \in Int
  <2>1. \A n \in Int : Money(n) \in Int
    BY MoneyNearest DEF Near
  <2>2. /\ line.budget.factor \in Nat /\ line.budget.volume \in Nat
        /\ line.actual.factor \in Nat /\ line.actual.volume \in Nat
    BY SidesTyped
  <2>3. Joint(line.budget, line.actual) \in Int
    BY <2>1, <2>2 DEF Joint
  <2>4. total \in Int
    BY <2>1, <2>2 DEF Variance, Extended
  <2>5. drivers.factor \in Int
    BY <2>1, <2>2, <2>3 DEF Drivers
  <2>6. drivers.volume \in Int
    BY <2>1, <2>2, <2>3 DEF Drivers
  <2> QED  BY <2>4, <2>5, <2>6
<1>5. residual = total - (drivers.factor + drivers.volume)
  BY DEF Residual
<1> HIDE DEF residual, drivers, total
<1> QED  BY <1>3, <1>4, <1>5

-----------------------------------------------------------------------------

\* The same distance, counted in finer units.
LEMMA NearScales ==
  ASSUME NEW d \in Nat \ {0}, NEW m \in Nat \ {0}, NEW n \in Int, NEW r, Near(r, n, d)
  PROVE  Near(r, m * n, d * m)
<1> DEFINE off == 2 * (d * r - n)
<1>1. r \in Int /\ off \in Int /\ -d <= off /\ off <= d
  BY DEF Near
<1>2. 2 * ((d * m) * r - m * n) = m * off
  BY <1>1
<1>3. \A i, j \in Int : i <= j => m * i <= m * j
  OBVIOUS
<1>4. m * (-d) <= m * off /\ m * off <= m * d
  <2> HIDE DEF off
  <2> QED  BY <1>1, <1>3
<1>5. m * (-d) = -(d * m) /\ m * d = d * m
  OBVIOUS
<1> HIDE DEF off
<1> QED  BY <1>1, <1>2, <1>4, <1>5 DEF Near

\* A product of a basket, whatever the volumes of the others, leaves over less
\* than decompose_multiproduct allows for it.
THEOREM ProductWithinTolerance ==
  ASSUME NEW product, product.budget \in Quantities, product.actual \in Quantities,
         NEW planned \in Nat \ {0}, NEW sold \in Nat
  PROVE  ProductResidual(product, planned, sold) \in -(ProductTolerance - 1)..(ProductTolerance - 1)
<1> DEFINE bf == product.budget.factor
           bv == product.budget.volume
           af == product.actual.factor
           av == product.actual.volume
           d == Unit * planned
           moved == (af - bf) * av
           volume == (sold - planned) * bv * bf
           mix == (av * planned - sold * bv) * bf
<1>1. bf \in Nat /\ bv \in Nat /\ af \in Nat /\ av \in Nat
  BY SidesTyped
<1>2. ProductResidual(product, planned, sold)
      = (Money(af * av) - Money(bf * bv)) - (Money(moved) + Round(volume, d) + Round(mix, d))
  BY DEF ProductResidual, Effects, Variance, Extended
<1> HIDE DEF bf, bv, af, av
<1>3. d \in Nat \ {0}
  BY UnitAssumption
<1>4. /\ af * av \in Int /\ bf * bv \in Int /\ moved \in Int /\ volume \in Int /\ mix \in Int
      /\ planned * (af * av) \in Int /\ planned * (bf * bv) \in Int /\ planned * moved \in Int
  BY <1>1
<1>5. planned * (af * av) - planned * (bf * bv) = planned * moved + volume + mix
  <2>1. volume + mix = planned * ((av - bv) * bf)
    BY <1>1
  <2>2. planned * moved + planned * ((av - bv) * bf) = planned * (af * av) - planned * (bf * bv)
    BY <1>1
  <2>3. planned * ((av - bv) * bf) \in Int
    BY <1>1
  <2> HIDE DEF moved, volume, mix
  <2> QED  BY <1>4, <2>1, <2>2, <2>3
<1> HIDE DEF d, moved, volume, mix
<1>6. /\ Near(Money(af * av), planned * (af * av), d)
      /\ Near(Money(bf * bv), planned * (bf * bv), d)
      /\ Near(Money(moved), planned * moved, d)
  <2>1. \A n \in Int : Near(Money(n), planned * n, d)
    BY MoneyNearest, NearScales, UnitAssumption DEF d
  <2> QED  BY <1>4, <2>1
<1>7. Near(Round(volume, d), volume, d) /\ Near(Round(mix, d), mix, d)
  BY <1>3, <1>4, RoundNearest
<1>8. (Money(af * av) - Money(bf * bv)) - (Money(moved) + Round(volume, d) + Round(mix, d)) \in -2..2
  <2> DEFINE a == planned * (af * av)
             b == planned * (bf * bv)
             x == planned * moved
  <2>1. a \in Int /\ b \in Int /\ x \in Int /\ a - b = x + volume + mix
    BY <1>4, <1>5
  <2>2. Near(Money(af * av), a, d) /\ Near(Money(bf * bv), b, d) /\ Near(Money(moved), x, d)
    BY <1>6
  <2> HIDE DEF a, b, x
  <2> QED  BY <1>3, <1>4, <1>7, <2>1, <2>2, RoundedTie
<1> QED  BY <1>2, <1>8 DEF ProductTolerance

-----------------------------------------------------------------------------
(* Recursion over a finite set.                                            *)

LEMMA LeastOf ==
  ASSUME NEW S \in SUBSET Nat, S # {}
  PROVE  \E k \in S : \A m \in S : k <= m
<1> DEFINE R == OpToRel(<, Nat)
<1>1. PICK k \in S : \A m \in S : ~(<<m, k>> \in R)
  <2> HIDE DEF R
  <2> QED
    BY NatLessThanWellFounded, WFMin DEF R
<1>2. ASSUME NEW m \in S, m < k PROVE FALSE
  <2>1. <<m, k>> \in {ss \in Nat \X Nat : ss[1] < ss[2]}
    BY <1>2
  <2> QED
    BY <1>1, <2>1 DEF OpToRel
<1> QED
  BY <1>2

\* step[n] looks at a function on what lies below n only.
Alike(f, g, D) == \A d \in D : f[d] = g[d]
LooksBelow(N, V, dep, step) ==
  \A n \in N, f \in [N -> V], g \in [N -> V] : Alike(f, g, dep[n]) => step[n][f] = step[n][g]
Founded(N, dep) ==
  /\ IsFiniteSet(N) /\ \A n \in N : dep[n] \subseteq N
  /\ \A T \in SUBSET N : T # {} => \E n \in T : dep[n] \cap T = {}
Within(N, V, step) == \A n \in N, f \in [N -> V] : step[n][f] \in V
Repeats(N, V, step, f) == f \in [N -> V] /\ \A n \in N : f[n] = step[n][f]
LEMMA SameBelow ==
  ASSUME NEW N, NEW V, NEW dep, NEW step, LooksBelow(N, V, dep, step),
         NEW n \in N, NEW f \in [N -> V], NEW g \in [N -> V], Alike(f, g, dep[n])
  PROVE  step[n][f] = step[n][g]
BY DEF LooksBelow

\* Such a step has a function that repeats it, when nothing lies below itself.
LEMMA FiniteRecursion ==
  ASSUME NEW N, NEW V, NEW dep, NEW step, NEW v, v \in V,
         Founded(N, dep), Within(N, V, step), LooksBelow(N, V, dep, step)
  PROVE  \E f : Repeats(N, V, step, f)
<1> DEFINE Good(D, g) == (\A n \in D : dep[n] \subseteq D /\ g[n] = step[n][g])
           K == {k \in Nat : \E D \in SUBSET N, g \in [N -> V] :
                               Good(D, g) /\ k = Cardinality(N \ D)}
<1>0. /\ IsFiniteSet(N) /\ \A n \in N : dep[n] \subseteq N
      /\ \A T \in SUBSET N : T # {} => \E n \in T : dep[n] \cap T = {}
      /\ \A n \in N, f \in [N -> V] : step[n][f] \in V
  BY DEF Founded, Within
<1>1. K # {}
  <2>1. [n \in N |-> v] \in [N -> V] /\ Good({}, [n \in N |-> v])
    OBVIOUS
  <2>2. Cardinality(N \ {}) \in Nat
    BY <1>0, FS_CardinalityType
  <2> QED
    BY <2>1, <2>2
<1>2. PICK k \in K : \A m \in K : k <= m
  <2> HIDE DEF K
  <2>1. K \in SUBSET Nat
    BY DEF K
  <2> QED
    BY <1>1, <2>1, LeastOf
<1>3. PICK D \in SUBSET N, g \in [N -> V] : Good(D, g) /\ k = Cardinality(N \ D)
  OBVIOUS
<1> HIDE DEF K
<1>4. CASE D = N
  BY <1>3, <1>4 DEF Repeats
<1>5. CASE D # N
  <2>1. PICK n \in N \ D : dep[n] \cap (N \ D) = {}
    BY <1>0, <1>5
  <2>2. PICK h \in [N -> V] : h[n] = step[n][g] /\ \A m \in N \ {n} : h[m] = g[m]
    <3>1. step[n][g] \in V /\ n \in N
      BY <1>0
    <3> QED
      BY <3>1, [g EXCEPT ![n] = step[n][g]] \in [N -> V]
  <2>3. ASSUME NEW m \in D \cup {n} PROVE dep[m] \subseteq D \cup {n} /\ h[m] = step[m][h]
    <3>1. dep[m] \subseteq D
      <4>1. dep[m] \in SUBSET N
        BY <1>0, <2>1
      <4> QED
        BY <1>3, <2>1, <4>1
    <3>2. Alike(h, g, dep[m])
      BY <2>1, <2>2, <3>1 DEF Alike
    <3>3. step[m][h] = step[m][g]
      <4>1. m \in N /\ h \in [N -> V] /\ g \in [N -> V]
        BY <2>2
      <4> QED
        BY <3>2, <4>1, SameBelow
    <3>4. h[m] = step[m][g]
      BY <1>3, <2>2
    <3> QED
      BY <3>1, <3>3, <3>4
  <2>4. Good(D \cup {n}, h)
    BY <2>3
  <2>5. Cardinality(N \ (D \cup {n})) = k - 1 /\ k - 1 \in Nat
    <3>1. N \ (D \cup {n}) = (N \ D) \ {n} /\ n \in N \ D /\ IsFiniteSet(N \ D)
      BY <1>0, FS_Difference
    <3>2. Cardinality((N \ D) \ {n}) = Cardinality(N \ D) - 1
      BY <3>1, FS_RemoveElement
    <3>3. IsFiniteSet((N \ D) \ {n})
      BY <3>1, FS_Difference
    <3>4. Cardinality((N \ D) \ {n}) \in Nat
      BY <3>3, FS_CardinalityType
    <3> QED
      BY <1>3, <3>1, <3>2, <3>4
  <2>6. k - 1 \in K
    <3>1. D \cup {n} \in SUBSET N
      OBVIOUS
    <3> HIDE DEF Good
    <3> QED
      BY <2>2, <2>4, <2>5, <3>1 DEF K
  <2>7. k \in Nat
    BY DEF K
  <2> QED
    BY <1>2, <2>6, <2>7
<1> QED
  BY <1>4, <1>5

-----------------------------------------------------------------------------
(* Sums over a finite set.                                                 *)

LEMMA SetInduction ==
  ASSUME NEW S, IsFiniteSet(S), NEW P,
         \A s \in SUBSET S : (\A x \in s : s \ {x} \in P) => s \in P
  PROVE  \A s \in SUBSET S : s \in P
<1> SUFFICES ASSUME NEW u \in SUBSET S, u \notin P PROVE FALSE
  OBVIOUS
<1> DEFINE K == {k \in Nat : \E s \in SUBSET S : s \notin P /\ k = Cardinality(s)}
<1>1. \A s \in SUBSET S : IsFiniteSet(s) /\ Cardinality(s) \in Nat
  BY FS_Subset, FS_CardinalityType
<1>2. K # {} /\ K \in SUBSET Nat
  BY <1>1
<1> HIDE DEF K
<1>3. PICK k \in K : \A m \in K : k <= m
  BY <1>2, LeastOf
<1>4. PICK s \in SUBSET S : s \notin P /\ k = Cardinality(s)
  BY <1>3 DEF K
<1>5. PICK x \in s : s \ {x} \notin P
  BY <1>4
<1>6. Cardinality(s \ {x}) = k - 1 /\ k \in Nat /\ s \ {x} \in SUBSET S
  BY <1>1, <1>4, FS_RemoveElement
<1>7. k - 1 \in K
  BY <1>1, <1>5, <1>6 DEF K
<1> QED
  BY <1>3, <1>6, <1>7

\* it[s] is the sum of g over s, however its elements are taken one by one.
Adds(S, g, it) ==
  /\ it \in [SUBSET S -> Int] /\ it[{}] = 0
  /\ \A s \in SUBSET S : \A x \in s : it[s] = g[x] + it[s \ {x}]
\* The order MapThenSumSet takes them in.
Taken(s) == CHOOSE x \in s : TRUE
Iterates(S, g, it) ==
  it = [s \in SUBSET S |-> IF s = {} THEN 0 ELSE g[Taken(s)] + it[s \ {Taken(s)}]]

LEMMA TakenIn == \A s : s # {} => Taken(s) \in s
BY DEF Taken

LEMMA IterationAdds ==
  ASSUME NEW S, IsFiniteSet(S), NEW g \in [S -> Int], NEW it, Iterates(S, g, it)
  PROVE  Adds(S, g, it)
<1>1. \A s \in SUBSET S : it[s] = IF s = {} THEN 0 ELSE g[Taken(s)] + it[s \ {Taken(s)}]
  BY DEF Iterates
<1>2. \A s \in SUBSET S : it[s] \in Int
  <2> DEFINE P == {s \in SUBSET S : it[s] \in Int}
  <2>1. ASSUME NEW s \in SUBSET S, \A x \in s : s \ {x} \in P PROVE s \in P
    <3>1. CASE s = {}
      <4>1. it[s] = 0
        BY <1>1, <3>1
      <4> QED
        BY <4>1
    <3>2. CASE s # {}
      <4>1. Taken(s) \in s
        BY <3>2, TakenIn
      <4>2. g[Taken(s)] \in Int
        BY <4>1
      <4>3. it[s \ {Taken(s)}] \in Int
        BY <2>1, <4>1
      <4>4. it[s] = g[Taken(s)] + it[s \ {Taken(s)}]
        BY <1>1, <3>2
      <4> QED
        BY <4>2, <4>3, <4>4
    <3> QED
      BY <3>1, <3>2
  <2> HIDE DEF P
  <2>2. \A s \in SUBSET S : s \in P
    BY <2>1, SetInduction
  <2> QED
    BY <2>2 DEF P
<1>3. \A s \in SUBSET S : \A x \in s : it[s] = g[x] + it[s \ {x}]
  <2> DEFINE P == {s \in SUBSET S : \A x \in s : it[s] = g[x] + it[s \ {x}]}
  <2>1. ASSUME NEW s \in SUBSET S, \A y \in s : s \ {y} \in P PROVE s \in P
    <3> SUFFICES ASSUME NEW x \in s PROVE it[s] = g[x] + it[s \ {x}]
      OBVIOUS
    <3>1. PICK c : c = Taken(s) /\ c \in s
      BY TakenIn
    <3>2. it[s] = g[c] + it[s \ {c}]
      BY <1>1, <3>1
    <3>3. CASE x # c
      <4>1. it[s \ {c}] = g[x] + it[(s \ {c}) \ {x}]
        BY <2>1, <3>1, <3>3
      <4>2. it[s \ {x}] = g[c] + it[(s \ {x}) \ {c}]
        BY <2>1, <3>1, <3>3
      <4>3. it[(s \ {c}) \ {x}] = it[(s \ {x}) \ {c}]
        <5>1. (s \ {c}) \ {x} = (s \ {x}) \ {c}
          OBVIOUS
        <5> QED
          BY <5>1
      <4>4. /\ g[c] \in Int /\ g[x] \in Int /\ it[(s \ {x}) \ {c}] \in Int
            /\ it[s] \in Int /\ it[s \ {c}] \in Int /\ it[s \ {x}] \in Int
        BY <1>2, <3>1
      <4>5. PICK rest, a, b : rest = it[(s \ {x}) \ {c}] /\ a = g[c] /\ b = g[x]
        OBVIOUS
      <4>6. rest \in Int /\ a \in Int /\ b \in Int
        BY <4>4, <4>5
      <4>7. it[s] = a + (b + rest) /\ it[s \ {x}] = a + rest
        BY <3>2, <4>1, <4>2, <4>3, <4>5
      <4>8. it[s] = b + (a + rest)
        BY <4>6, <4>7
      <4> QED
        BY <4>5, <4>7, <4>8
    <3> QED
      BY <3>2, <3>3
  <2> HIDE DEF P
  <2>2. \A s \in SUBSET S : s \in P
    BY <2>1, SetInduction
  <2> QED
    BY <2>2 DEF P
<1>4. it[{}] = 0
  BY <1>1
<1>5. it \in [SUBSET S -> Int]
  BY <1>2 DEF Iterates
<1> QED
  BY <1>3, <1>4, <1>5 DEF Adds

LEMMA IterationExists ==
  ASSUME NEW S, IsFiniteSet(S), NEW g \in [S -> Int]
  PROVE  \E it : Iterates(S, g, it)
<1> DEFINE N == SUBSET S
           dep == [s \in N |-> IF s = {} THEN {} ELSE {s \ {Taken(s)}}]
           step == [s \in N |-> [f \in [N -> Int] |->
                     IF s = {} THEN 0 ELSE g[Taken(s)] + f[s \ {Taken(s)}]]]
<1>1. IsFiniteSet(N)
  BY FS_SUBSET
<1>2. \A s \in N : dep[s] \subseteq N
  OBVIOUS
<1>3. ASSUME NEW T \in SUBSET N, T # {} PROVE \E s \in T : dep[s] \cap T = {}
  <2> DEFINE K == {k \in Nat : \E s \in T : k = Cardinality(s)}
  <2>1. \A s \in N : IsFiniteSet(s) /\ Cardinality(s) \in Nat
    BY FS_Subset, FS_CardinalityType
  <2>2. K # {} /\ K \in SUBSET Nat
    BY <1>3, <2>1
  <2> HIDE DEF K
  <2>3. PICK k \in K : \A m \in K : k <= m
    BY <2>2, LeastOf
  <2>4. PICK s \in T : k = Cardinality(s)
    BY <2>3 DEF K
  <2>5. ASSUME s # {}, s \ {Taken(s)} \in T PROVE FALSE
    <3>1. Taken(s) \in s /\ s \in N
      BY <2>5, TakenIn
    <3>2. Cardinality(s \ {Taken(s)}) = k - 1 /\ k \in Nat
      BY <2>1, <2>4, <3>1, FS_RemoveElement
    <3>3. k - 1 \in K
      BY <2>1, <2>5, <3>2 DEF K
    <3> QED
      BY <2>3, <3>2, <3>3
  <2> QED
    BY <2>4, <2>5
<1>4. \A s \in N, f \in [N -> Int] : step[s][f] \in Int
  <2> SUFFICES ASSUME NEW s \in N, NEW f \in [N -> Int] PROVE step[s][f] \in Int
    OBVIOUS
  <2>1. s # {} => g[Taken(s)] \in Int /\ f[s \ {Taken(s)}] \in Int
    BY TakenIn
  <2> QED
    BY <2>1
<1>5. LooksBelow(N, Int, dep, step)
  BY DEF LooksBelow, Alike
<1>6. Founded(N, dep) /\ Within(N, Int, step)
  BY <1>1, <1>2, <1>3, <1>4 DEF Founded, Within
<1>7. PICK f : Repeats(N, Int, step, f)
  <2>1. 0 \in Int
    OBVIOUS
  <2> HIDE DEF N, dep, step
  <2> QED
    BY <1>5, <1>6, <2>1, FiniteRecursion
<1>8. f = [s \in SUBSET S |-> IF s = {} THEN 0 ELSE g[Taken(s)] + f[s \ {Taken(s)}]]
  BY <1>7 DEF Repeats
<1> QED
  BY <1>8 DEF Iterates

LEMMA AdderExists ==
  ASSUME NEW S, IsFiniteSet(S), NEW g \in [S -> Int]
  PROVE  \E it : Adds(S, g, it)
BY IterationExists, IterationAdds

LEMMA AddsOnce ==
  ASSUME NEW S, NEW g, NEW it, Adds(S, g, it),
         NEW T \in SUBSET S, IsFiniteSet(T), NEW h, NEW jt, Adds(T, h, jt), \A x \in T : h[x] = g[x]
  PROVE  \A s \in SUBSET T : jt[s] = it[s]
<1> DEFINE P == {s \in SUBSET T : jt[s] = it[s]}
<1>1. ASSUME NEW s \in SUBSET T, \A x \in s : s \ {x} \in P PROVE s \in P
  <2>1. CASE s = {}
    BY <2>1 DEF Adds
  <2>2. CASE s # {}
    <3>1. PICK x \in s : TRUE
      BY <2>2
    <3>2. jt[s] = h[x] + jt[s \ {x}] /\ it[s] = g[x] + it[s \ {x}]
      BY <3>1 DEF Adds
    <3>3. jt[s \ {x}] = it[s \ {x}]
      BY <1>1, <3>1
    <3> QED
      BY <3>1, <3>2, <3>3
  <2> QED
    BY <2>1, <2>2
<1> HIDE DEF P
<1>2. \A s \in SUBSET T : s \in P
  BY <1>1, SetInduction
<1> QED
  BY <1>2 DEF P

LEMMA AddsUnion ==
  ASSUME NEW S, IsFiniteSet(S), NEW g \in [S -> Int], NEW it, Adds(S, g, it), NEW t \in SUBSET S
  PROVE  \A s \in SUBSET S : s \cap t = {} => it[s \cup t] = it[s] + it[t]
<1> DEFINE P == {s \in SUBSET S : s \cap t = {} => it[s \cup t] = it[s] + it[t]}
<1>1. ASSUME NEW s \in SUBSET S, \A x \in s : s \ {x} \in P PROVE s \in P
  <2> SUFFICES ASSUME s \cap t = {} PROVE it[s \cup t] = it[s] + it[t]
    OBVIOUS
  <2>0. it[t] \in Int /\ it[s] \in Int
    BY DEF Adds
  <2>1. CASE s = {}
    <3>1. s \cup t = t /\ it[s] = 0
      BY <2>1 DEF Adds
    <3>2. it[s \cup t] = it[t] /\ it[s] = 0
      BY <3>1
    <3>3. it[s \cup t] = it[s] + it[t]
      <4> HIDE DEF P
      <4> QED
        BY <2>0, <3>2
    <3> QED
      BY <3>3
  <2>2. CASE s # {}
    <3>1. PICK x \in s : TRUE
      BY <2>2
    <3>2. /\ x \notin t /\ x \in S /\ s \cup t \in SUBSET S
          /\ (s \ {x}) \cup t \in SUBSET S /\ s \ {x} \in SUBSET S
      BY <3>1
    <3>3. it[s] = g[x] + it[s \ {x}]
      BY <3>1 DEF Adds
    <3>4. it[s \cup t] = g[x] + it[(s \ {x}) \cup t]
      <4>1. it[s \cup t] = g[x] + it[(s \cup t) \ {x}]
        BY <3>1, <3>2 DEF Adds
      <4>2. (s \cup t) \ {x} = (s \ {x}) \cup t
        BY <3>2
      <4> QED
        BY <4>1, <4>2
    <3>5. it[(s \ {x}) \cup t] = it[s \ {x}] + it[t]
      BY <1>1, <3>1
    <3>6. g[x] \in Int /\ it[s \ {x}] \in Int
      BY <3>2 DEF Adds
    <3> HIDE DEF P
    <3>7. PICK a, b, c : a = g[x] /\ b = it[s \ {x}] /\ c = it[t]
      OBVIOUS
    <3>8. a \in Int /\ b \in Int /\ c \in Int /\ it[s] = a + b /\ it[s \cup t] = a + (b + c)
      BY <2>0, <3>3, <3>4, <3>5, <3>6, <3>7
    <3> QED
      BY <3>7, <3>8
  <2> QED
    BY <2>1, <2>2
<1> HIDE DEF P
<1>2. \A s \in SUBSET S : s \in P
  BY <1>1, SetInduction
<1> QED
  BY <1>2 DEF P

\* The sum of the sums over disjoint parts is the sum over their union.
LEMMA AddsParts ==
  ASSUME NEW S, IsFiniteSet(S), NEW g \in [S -> Int], NEW it, Adds(S, g, it),
         NEW C, IsFiniteSet(C), NEW h, NEW jt, Adds(C, h, jt),
         NEW part, \A c \in C : part[c] \in SUBSET S /\ h[c] = it[part[c]],
         \A c, d \in C : c # d => part[c] \cap part[d] = {}
  PROVE  jt[C] = it[UNION {part[c] : c \in C}]
<1> DEFINE Joined(s) == UNION {part[c] : c \in s}
           P == {s \in SUBSET C : jt[s] = it[Joined(s)]}
<1>1. ASSUME NEW s \in SUBSET C, \A x \in s : s \ {x} \in P PROVE s \in P
  <2>1. CASE s = {}
    <3>1. Joined(s) = {}
      BY <2>1
    <3> HIDE DEF Joined
    <3> QED
      BY <2>1, <3>1 DEF Adds
  <2>2. CASE s # {}
    <3>1. PICK x \in s : TRUE
      BY <2>2
    <3>2. jt[s] = h[x] + jt[s \ {x}]
      BY <3>1 DEF Adds
    <3>3. jt[s \ {x}] = it[Joined(s \ {x})]
      BY <1>1, <3>1
    <3>4. Joined(s) = part[x] \cup Joined(s \ {x}) /\ part[x] \in SUBSET S /\ Joined(s \ {x}) \in SUBSET S
      BY <3>1
    <3>5. part[x] \cap Joined(s \ {x}) = {}
      BY <3>1
    <3> HIDE DEF Joined
    <3>6. it[part[x] \cup Joined(s \ {x})] = it[part[x]] + it[Joined(s \ {x})]
      <4>1. PICK u, v : u = part[x] /\ v = Joined(s \ {x})
        OBVIOUS
      <4>2. u \in SUBSET S /\ v \in SUBSET S /\ u \cap v = {}
        BY <3>4, <3>5, <4>1
      <4>3. it[u \cup v] = it[u] + it[v]
        BY <4>2, AddsUnion
      <4> QED
        BY <4>1, <4>3
    <3>7. h[x] = it[part[x]]
      BY <3>1
    <3>8. jt[s] = it[part[x]] + it[Joined(s \ {x})]
      BY <3>2, <3>3, <3>7
    <3>9. jt[s] = it[Joined(s)]
      BY <3>4, <3>6, <3>8
    <3> QED
      BY <3>9 DEF Joined
  <2> QED
    BY <2>1, <2>2
<1> HIDE DEF P
<1>2. \A s \in SUBSET C : s \in P
  BY <1>1, SetInduction
<1> QED
  BY <1>2 DEF P

LEMMA AddsScaled ==
  ASSUME NEW S, NEW g \in [S -> Int], NEW it, Adds(S, g, it), NEW k \in Int,
         NEW h, \A x \in S : h[x] = k * g[x],
         NEW jt, jt = [s \in SUBSET S |-> k * it[s]]
  PROVE  Adds(S, h, jt)
<1>1. \A s \in SUBSET S : it[s] \in Int /\ jt[s] = k * it[s]
  BY DEF Adds
<1>2. ASSUME NEW s \in SUBSET S, NEW x \in s PROVE jt[s] = h[x] + jt[s \ {x}]
  <2>1. PICK a, b : a = g[x] /\ b = it[s \ {x}] /\ a \in Int /\ b \in Int
    BY <1>1
  <2>2. it[s] = a + b /\ jt[s] = k * it[s] /\ jt[s \ {x}] = k * b /\ h[x] = k * a
    BY <1>1, <2>1 DEF Adds
  <2>3. k * (a + b) = k * a + k * b
    BY <2>1
  <2> QED
    BY <2>2, <2>3
<1>3. jt \in [SUBSET S -> Int] /\ jt[{}] = 0
  <2>1. {} \in SUBSET S /\ it[{}] = 0
    BY DEF Adds
  <2>2. \A s \in SUBSET S : k * it[s] \in Int
    <3> SUFFICES ASSUME NEW s \in SUBSET S PROVE k * it[s] \in Int
      OBVIOUS
    <3>1. PICK x : x = it[s] /\ x \in Int
      BY <1>1
    <3> QED
      BY <3>1
  <2>3. k * 0 = 0
    OBVIOUS
  <2>4. jt[{}] = 0
    BY <2>1, <2>3
  <2> QED
    BY <2>2, <2>4
<1> QED
  BY <1>2, <1>3 DEF Adds

Less(S, it, jt) == [s \in SUBSET S |-> it[s] - jt[s]]
Differs(S, g, h, d) == \A x \in S : g[x] \in Int /\ h[x] \in Int /\ d[x] = g[x] - h[x]
LEMMA AddsDifference ==
  ASSUME NEW S, NEW g, NEW it, Adds(S, g, it), NEW h, NEW jt, Adds(S, h, jt),
         NEW d, Differs(S, g, h, d)
  PROVE  Adds(S, d, Less(S, it, jt))
<1>0. PICK kt : kt = Less(S, it, jt) /\ kt = [s \in SUBSET S |-> it[s] - jt[s]]
  BY DEF Less
<1>1. \A s \in SUBSET S : it[s] \in Int /\ jt[s] \in Int /\ kt[s] = it[s] - jt[s]
  BY <1>0 DEF Adds
<1>2. ASSUME NEW s \in SUBSET S, NEW x \in s PROVE kt[s] = d[x] + kt[s \ {x}]
  <2>1. PICK a, b, e, f : /\ a = g[x] /\ b = it[s \ {x}] /\ a \in Int /\ b \in Int
                          /\ e = h[x] /\ f = jt[s \ {x}] /\ e \in Int /\ f \in Int
    BY <1>1 DEF Differs
  <2>2. it[s] = a + b /\ jt[s] = e + f
    BY <2>1 DEF Adds
  <2>3. kt[s] = it[s] - jt[s] /\ kt[s \ {x}] = b - f /\ d[x] = a - e
    BY <1>1, <2>1 DEF Differs
  <2> QED
    BY <2>1, <2>2, <2>3
<1>3. kt \in [SUBSET S -> Int] /\ kt[{}] = 0
  <2>1. {} \in SUBSET S /\ it[{}] = 0 /\ jt[{}] = 0
    BY DEF Adds
  <2>2. kt[{}] = 0
    BY <1>0, <2>1
  <2>3. \A s \in SUBSET S : it[s] - jt[s] \in Int
    <3> SUFFICES ASSUME NEW s \in SUBSET S PROVE it[s] - jt[s] \in Int
      OBVIOUS
    <3>1. PICK x, y : x = it[s] /\ y = jt[s] /\ x \in Int /\ y \in Int
      BY <1>1
    <3> QED
      BY <3>1
  <2> QED
    BY <1>0, <2>2, <2>3
<1>4. Adds(S, d, kt)
  BY <1>2, <1>3 DEF Adds
<1> QED
  BY <1>0, <1>4

\* SumOver, of a function given by an expression, is such a sum.
Impacts(S, accounts) == SumOver(S, LAMBDA l : accounts[l].impact)
Signed(S, accounts, amount) == SumOver(S, LAMBDA c : Sign[c] * accounts[c][amount])
LEMMA SumOfImpacts ==
  ASSUME NEW S, IsFiniteSet(S), NEW accounts, NEW g \in [S -> Int],
         \A l \in S : g[l] = accounts[l].impact, NEW it, Adds(S, g, it)
  PROVE  Impacts(S, accounts) = it[S]
<1> DEFINE Eq(j) == j = [s \in SUBSET S |-> IF s = {} THEN 0
                          ELSE accounts[CHOOSE y \in s : TRUE].impact
                               + j[s \ {CHOOSE y \in s : TRUE}]]
           iter == CHOOSE j : Eq(j)
<1>1. PICK j : Iterates(S, g, j)
  BY IterationExists
<1>2. \A k : Eq(k) <=> Iterates(S, g, k)
  <2>1. \A s \in SUBSET S : s # {} => g[Taken(s)] = accounts[Taken(s)].impact
    BY TakenIn
  <2> SUFFICES ASSUME NEW k PROVE Eq(k) <=> Iterates(S, g, k)
    OBVIOUS
  <2> QED
    BY <2>1 DEF Iterates, Taken
<1>3. Eq(iter)
  <2> HIDE DEF Eq
  <2> QED
    BY <1>1, <1>2
<1>4. iter[S] = it[S]
  <2> HIDE DEF Eq, iter
  <2>1. Adds(S, g, iter)
    BY <1>2, <1>3, IterationAdds
  <2> QED
    BY <2>1, AddsOnce
<1>5. Impacts(S, accounts) = iter[S]
  BY DEF Impacts, SumOver, MapThenSumSet, MapThenFoldSet
<1> QED
  BY <1>4, <1>5

LEMMA SumOfSigned ==
  ASSUME NEW S, IsFiniteSet(S), NEW accounts, NEW amount, NEW g \in [S -> Int],
         \A c \in S : g[c] = Sign[c] * accounts[c][amount], NEW it, Adds(S, g, it)
  PROVE  Signed(S, accounts, amount) = it[S]
<1> DEFINE Eq(j) == j = [s \in SUBSET S |-> IF s = {} THEN 0
                          ELSE Sign[CHOOSE y \in s : TRUE] * accounts[CHOOSE y \in s : TRUE][amount]
                               + j[s \ {CHOOSE y \in s : TRUE}]]
           iter == CHOOSE j : Eq(j)
<1>1. PICK j : Iterates(S, g, j)
  BY IterationExists
<1>2. \A k : Eq(k) <=> Iterates(S, g, k)
  <2>1. \A s \in SUBSET S : s # {} => g[Taken(s)] = Sign[Taken(s)] * accounts[Taken(s)][amount]
    BY TakenIn
  <2> SUFFICES ASSUME NEW k PROVE Eq(k) <=> Iterates(S, g, k)
    OBVIOUS
  <2> QED
    BY <2>1 DEF Iterates, Taken
<1>3. Eq(iter)
  <2> HIDE DEF Eq
  <2> QED
    BY <1>1, <1>2
<1>4. iter[S] = it[S]
  <2> HIDE DEF Eq, iter
  <2>1. Adds(S, g, iter)
    BY <1>2, <1>3, IterationAdds
  <2> QED
    BY <2>1, AddsOnce
<1>5. Signed(S, accounts, amount) = iter[S]
  BY DEF Signed, SumOver, MapThenSumSet, MapThenFoldSet
<1> QED
  BY <1>4, <1>5

-----------------------------------------------------------------------------
(* The account tree.                                                       *)

LEMMA TreeFacts ==
  /\ Root \in Nodes /\ IsFiniteSet(Nodes)
  /\ \A n \in Nodes \ {Root} : Parent[n] \in Nodes /\ Sign[n] \in {1, -1}
  /\ \A S \in SUBSET (Nodes \ {Root}) : S # {} => \E n \in S : Parent[n] \notin S
BY TreeAssumption DEF ValidTree

LEMMA ChildrenFacts ==
  ASSUME NEW n \in Nodes
  PROVE  /\ Children(n) \in SUBSET Nodes /\ Root \notin Children(n) /\ IsFiniteSet(Children(n))
         /\ \A c \in Children(n) : c \in Nodes \ {Root} /\ Parent[c] = n
BY TreeFacts, FS_Subset DEF Children

\* From the top: what holds of the root, and of a node when of its parent.
LEMMA DownTheTree ==
  ASSUME NEW P, \A n \in Nodes : (n # Root => Parent[n] \in P) => n \in P
  PROVE  Nodes \subseteq P
<1> SUFFICES ASSUME NEW m \in Nodes, m \notin P PROVE FALSE
  OBVIOUS
<1> DEFINE T == {n \in Nodes : n \notin P}
<1>1. T \in SUBSET (Nodes \ {Root}) /\ T # {}
  OBVIOUS
<1>2. PICK n \in T : Parent[n] \notin T
  <2> HIDE DEF T
  <2> QED
    BY <1>1, TreeFacts
<1> QED
  BY <1>2, TreeFacts

\* From the lines: what holds of a node when of all its children.
LEMMA UpTheTree ==
  ASSUME NEW P, \A n \in Nodes : Children(n) \subseteq P => n \in P
  PROVE  Nodes \subseteq P
<1>1. \A T \in SUBSET Nodes : T # {} => \E n \in T : Children(n) \cap T = {}
  <2> DEFINE Q == {T \in SUBSET Nodes : T # {} => \E n \in T : Children(n) \cap T = {}}
  <2>1. ASSUME NEW T \in SUBSET Nodes, \A x \in T : T \ {x} \in Q PROVE T \in Q
    <3> SUFFICES ASSUME T # {} PROVE \E n \in T : Children(n) \cap T = {}
      OBVIOUS
    <3>1. PICK x \in T : x # Root => Parent[x] \notin T
      <4>1. CASE Root \in T
        BY <4>1
      <4>2. CASE Root \notin T
        <5>1. T \in SUBSET (Nodes \ {Root})
          BY <4>2
        <5> QED
          BY <5>1, TreeFacts
      <4> QED
        BY <4>1, <4>2
    <3>2. CASE T \ {x} = {}
      <4>1. T = {x}
        BY <3>2
      <4>2. x \notin Children(x)
        BY <3>1, <4>1 DEF Children
      <4> QED
        BY <4>1, <4>2
    <3>3. CASE T \ {x} # {}
      <4>1. PICK n \in T \ {x} : Children(n) \cap (T \ {x}) = {}
        BY <2>1, <3>3
      <4>2. x \notin Children(n)
        BY <3>1, <4>1 DEF Children
      <4> QED
        BY <4>1, <4>2
    <3> QED
      BY <3>2, <3>3
  <2> HIDE DEF Q
  <2>2. \A T \in SUBSET Nodes : T \in Q
    BY <2>1, TreeFacts, SetInduction
  <2> QED
    BY <2>2 DEF Q
<1> SUFFICES ASSUME NEW m \in Nodes, m \notin P PROVE FALSE
  OBVIOUS
<1> DEFINE T == {n \in Nodes : n \notin P}
<1>2. T \in SUBSET Nodes /\ T # {}
  OBVIOUS
<1>3. PICK n \in T : Children(n) \cap T = {}
  <2> HIDE DEF T
  <2> QED
    BY <1>1, <1>2
<1>4. Children(n) \subseteq P
  BY <1>3, ChildrenFacts
<1> QED
  BY <1>3, <1>4

LEMMA TreeFounded ==
  /\ Founded(Nodes, [n \in Nodes |-> Children(n)])
  /\ Founded(Nodes, [n \in Nodes |-> IF n = Root THEN {} ELSE {Parent[n]}])
<1> DEFINE down == [n \in Nodes |-> Children(n)]
           up == [n \in Nodes |-> IF n = Root THEN {} ELSE {Parent[n]}]
<1>1. \A n \in Nodes : down[n] = Children(n) /\ down[n] \subseteq Nodes
  BY ChildrenFacts
<1>2. \A n \in Nodes : up[n] = (IF n = Root THEN {} ELSE {Parent[n]}) /\ up[n] \subseteq Nodes
  BY TreeFacts
<1> HIDE DEF down, up
<1>3. ASSUME NEW T \in SUBSET Nodes, T # {} PROVE \E n \in T : down[n] \cap T = {}
  <2> SUFFICES ASSUME \A n \in T : down[n] \cap T # {} PROVE FALSE
    OBVIOUS
  <2> DEFINE P == Nodes \ T
  <2>1. ASSUME NEW n \in Nodes, Children(n) \subseteq P PROVE n \in P
    BY <1>1, <2>1
  <2> HIDE DEF P
  <2>2. Nodes \subseteq P
    BY <2>1, UpTheTree
  <2> QED
    BY <1>3, <2>2 DEF P
<1>4. ASSUME NEW T \in SUBSET Nodes, T # {} PROVE \E n \in T : up[n] \cap T = {}
  <2> SUFFICES ASSUME \A n \in T : up[n] \cap T # {} PROVE FALSE
    OBVIOUS
  <2> DEFINE P == Nodes \ T
  <2>1. ASSUME NEW n \in Nodes, n # Root => Parent[n] \in P PROVE n \in P
    <3> SUFFICES ASSUME n \in T PROVE FALSE
      OBVIOUS
    <3>1. PICK d \in up[n] : d \in T
      OBVIOUS
    <3>2. n # Root /\ d = Parent[n]
      BY <1>2, <3>1
    <3> QED
      BY <2>1, <3>1, <3>2
  <2> HIDE DEF P
  <2>2. Nodes \subseteq P
    BY <2>1, DownTheTree
  <2> QED
    BY <1>4, <2>2 DEF P
<1>5. Founded(Nodes, down) /\ Founded(Nodes, up)
  BY <1>1, <1>2, <1>3, <1>4, TreeFacts DEF Founded
<1> QED
  BY <1>5 DEF down, up

\* A function by the children of a node, and one by its parent, exist.
LEMMA ByChildren ==
  ASSUME NEW V, NEW v, v \in V, NEW step,
         Within(Nodes, V, step), LooksBelow(Nodes, V, [n \in Nodes |-> Children(n)], step)
  PROVE  \E f : Repeats(Nodes, V, step, f)
<1>1. PICK dep : dep = [n \in Nodes |-> Children(n)]
  OBVIOUS
<1>2. Founded(Nodes, dep) /\ LooksBelow(Nodes, V, dep, step)
  BY <1>1, TreeFounded
<1> QED
  BY <1>2, FiniteRecursion
LEMMA ByParent ==
  ASSUME NEW V, NEW v, v \in V, NEW step, Within(Nodes, V, step),
         LooksBelow(Nodes, V, [n \in Nodes |-> IF n = Root THEN {} ELSE {Parent[n]}], step)
  PROVE  \E f : Repeats(Nodes, V, step, f)
<1>1. PICK dep : dep = [n \in Nodes |-> IF n = Root THEN {} ELSE {Parent[n]}]
  OBVIOUS
<1>2. Founded(Nodes, dep) /\ LooksBelow(Nodes, V, dep, step)
  BY <1>1, TreeFounded
<1> QED
  BY <1>2, FiniteRecursion

\* sign_toward_profit: one for the root, and its parent's by its own sign.
LEMMA TowardFacts ==
  /\ Toward \in [Nodes -> Int]
  /\ \A n \in Nodes \ {Root} : Toward[n] = Toward[Parent[n]] * Sign[n]
<1> DEFINE top == IF Measure = "cost" THEN -1 ELSE 1
           Eq(f) == f = [n \in Nodes |-> IF n = Root THEN top ELSE f[Parent[n]] * Sign[n]]
           step == [n \in Nodes |-> [f \in [Nodes -> Int] |->
                      IF n = Root THEN top ELSE f[Parent[n]] * Sign[n]]]
<1>1. Within(Nodes, Int, step)
  <2> SUFFICES ASSUME NEW n \in Nodes, NEW f \in [Nodes -> Int] PROVE step[n][f] \in Int
    BY DEF Within
  <2>1. n # Root => f[Parent[n]] \in Int /\ Sign[n] \in Int
    BY TreeFacts
  <2>2. top \in Int
    OBVIOUS
  <2> HIDE DEF top
  <2>3. step[n][f] = IF n = Root THEN top ELSE f[Parent[n]] * Sign[n]
    OBVIOUS
  <2> QED
    BY <2>1, <2>2, <2>3
<1>2. LooksBelow(Nodes, Int, [n \in Nodes |-> IF n = Root THEN {} ELSE {Parent[n]}], step)
  BY DEF LooksBelow, Alike
<1>3. PICK f : Repeats(Nodes, Int, step, f)
  <2> HIDE DEF step
  <2>1. 0 \in Int
    OBVIOUS
  <2> QED
    BY <1>1, <1>2, <2>1, ByParent
<1>4. Eq(f)
  BY <1>3 DEF Repeats
<1>5. \A g : Eq(g) => /\ g \in [Nodes -> Int]
                      /\ \A n \in Nodes \ {Root} : g[n] = g[Parent[n]] * Sign[n]
  <2> HIDE DEF top
  <2> SUFFICES ASSUME NEW g, Eq(g)
               PROVE  /\ \A n \in Nodes : g[n] \in Int
                      /\ \A n \in Nodes \ {Root} : g[n] = g[Parent[n]] * Sign[n]
    OBVIOUS
  <2> DEFINE P == {n \in Nodes : g[n] \in Int}
  <2>1. ASSUME NEW n \in Nodes, n # Root => Parent[n] \in P PROVE n \in P
    <3>1. g[n] = IF n = Root THEN top ELSE g[Parent[n]] * Sign[n]
      OBVIOUS
    <3>2. top \in Int
      BY DEF top
    <3>3. n # Root => g[Parent[n]] \in Int /\ Sign[n] \in Int
      BY <2>1, TreeFacts
    <3>4. g[n] \in Int
      <4> HIDE DEF Eq, P
      <4> QED
        BY <3>1, <3>2, <3>3
    <3> QED
      BY <3>4
  <2> HIDE DEF P
  <2>2. Nodes \subseteq P
    BY <2>1, DownTheTree
  <2> QED
    BY <2>2 DEF P
<1>6. Toward = CHOOSE g : Eq(g)
  BY DEF Toward
<1> HIDE DEF Eq
<1>7. Eq(Toward)
  BY <1>4, <1>6
<1> QED
  BY <1>5, <1>7

\* The lines below a node, and that two children of a node share none.
LEMMA LinesBelowFacts ==
  /\ LinesBelow \in [Nodes -> SUBSET Leaves]
  /\ \A n \in Nodes : LinesBelow[n] = IF n \in Leaves THEN {n}
                                      ELSE UNION {LinesBelow[c] : c \in Children(n)}
<1> DEFINE Eq(f) == f = [n \in Nodes |-> IF n \in Leaves THEN {n}
                                         ELSE UNION {f[c] : c \in Children(n)}]
           step == [n \in Nodes |-> [f \in [Nodes -> SUBSET Leaves] |->
                      IF n \in Leaves THEN {n} ELSE UNION {f[c] : c \in Children(n)}]]
<1>1. Within(Nodes, SUBSET Leaves, step)
  <2> SUFFICES ASSUME NEW n \in Nodes, NEW f \in [Nodes -> SUBSET Leaves]
               PROVE  step[n][f] \in SUBSET Leaves
    BY DEF Within
  <2>1. step[n][f] = IF n \in Leaves THEN {n} ELSE UNION {f[c] : c \in Children(n)}
    OBVIOUS
  <2>2. \A c \in Children(n) : f[c] \in SUBSET Leaves
    BY ChildrenFacts
  <2>3. n \in Leaves => {n} \subseteq Leaves
    OBVIOUS
  <2>4. UNION {f[c] : c \in Children(n)} \subseteq Leaves
    BY <2>2
  <2>5. CASE n \in Leaves
    BY <2>3, <2>5
  <2>6. CASE n \notin Leaves
    <3>1. PICK union : union = UNION {f[c] : c \in Children(n)}
      OBVIOUS
    <3>2. step[n][f] = union
      BY <2>6, <3>1
    <3>3. union \in SUBSET Leaves
      BY <2>4, <3>1
    <3> HIDE DEF step
    <3> QED
      BY <3>2, <3>3
  <2> QED
    BY <2>5, <2>6
<1>2. LooksBelow(Nodes, SUBSET Leaves, [n \in Nodes |-> Children(n)], step)
  <2>1. PICK dep : dep = [n \in Nodes |-> Children(n)]
    OBVIOUS
  <2>2. ASSUME NEW n \in Nodes, NEW f \in [Nodes -> SUBSET Leaves],
               NEW g \in [Nodes -> SUBSET Leaves], Alike(f, g, dep[n])
        PROVE  step[n][f] = step[n][g]
    <3>1. \A c \in Children(n) : f[c] = g[c]
      BY <2>1, <2>2 DEF Alike
    <3>2. {f[c] : c \in Children(n)} = {g[c] : c \in Children(n)}
      BY <3>1
    <3> QED
      BY <3>2
  <2> HIDE DEF step
  <2>3. LooksBelow(Nodes, SUBSET Leaves, dep, step)
    BY <2>2 DEF LooksBelow
  <2> QED
    BY <2>1, <2>3
<1>3. PICK f : Repeats(Nodes, SUBSET Leaves, step, f)
  <2> HIDE DEF step
  <2>1. {} \in SUBSET Leaves
    OBVIOUS
  <2> QED
    BY <1>1, <1>2, <2>1, ByChildren
<1>4. Eq(f)
  BY <1>3 DEF Repeats
<1>5. LinesBelow = CHOOSE g : Eq(g)
  BY DEF LinesBelow
<1>6. Eq(LinesBelow)
  <2> HIDE DEF Eq
  <2> QED
    BY <1>4, <1>5
<1>7. PICK below : below = LinesBelow /\ Eq(below)
  <2> HIDE DEF Eq
  <2> QED
    BY <1>6
<1>8. \A n \in Nodes : below[n] = IF n \in Leaves THEN {n} ELSE UNION {below[c] : c \in Children(n)}
  BY <1>7
<1>9. DOMAIN below = Nodes /\ below = [n \in Nodes |-> below[n]]
  BY <1>7
<1> HIDE DEF Eq, step
<1>10. \A n \in Nodes : below[n] \subseteq Leaves
  <2> DEFINE P == {n \in Nodes : below[n] \subseteq Leaves}
  <2>1. ASSUME NEW n \in Nodes, Children(n) \subseteq P PROVE n \in P
    <3>1. \A c \in Children(n) : below[c] \subseteq Leaves
      BY <2>1
    <3>2. UNION {below[c] : c \in Children(n)} \subseteq Leaves
      BY <3>1
    <3>3. below[n] \subseteq Leaves
      <4>1. CASE n \in Leaves
        BY <1>8, <4>1
      <4>2. CASE n \notin Leaves
        BY <1>8, <3>2, <4>2
      <4> QED
        BY <4>1, <4>2
    <3> QED
      BY <3>3
  <2> HIDE DEF P
  <2>2. Nodes \subseteq P
    BY <2>1, UpTheTree
  <2> QED
    BY <2>2 DEF P
<1>11. below \in [Nodes -> SUBSET Leaves]
  BY <1>9, <1>10
<1> QED
  BY <1>7, <1>8, <1>11

\* How deep a node hangs, and what it hangs below.
LEMMA DepthExists ==
  \E depth \in [Nodes -> Nat] : \A n \in Nodes \ {Root} : depth[n] = depth[Parent[n]] + 1
<1> DEFINE step == [n \in Nodes |-> [f \in [Nodes -> Nat] |->
                      IF n = Root THEN 0 ELSE f[Parent[n]] + 1]]
<1>1. Within(Nodes, Nat, step)
  <2> SUFFICES ASSUME NEW n \in Nodes, NEW f \in [Nodes -> Nat] PROVE step[n][f] \in Nat
    BY DEF Within
  <2>1. n # Root => f[Parent[n]] \in Nat
    BY TreeFacts
  <2> QED
    BY <2>1
<1>2. LooksBelow(Nodes, Nat, [n \in Nodes |-> IF n = Root THEN {} ELSE {Parent[n]}], step)
  BY DEF LooksBelow, Alike
<1>3. PICK f : Repeats(Nodes, Nat, step, f)
  <2> HIDE DEF step
  <2>1. 0 \in Nat
    OBVIOUS
  <2> QED
    BY <1>1, <1>2, <2>1, ByParent
<1> QED
  BY <1>3 DEF Repeats

LEMMA AboveExists ==
  \E above \in [Nodes -> SUBSET Nodes] :
    \A n \in Nodes : above[n] = {n} \cup IF n = Root THEN {} ELSE above[Parent[n]]
<1> DEFINE step == [n \in Nodes |-> [f \in [Nodes -> SUBSET Nodes] |->
                      {n} \cup IF n = Root THEN {} ELSE f[Parent[n]]]]
<1>1. Within(Nodes, SUBSET Nodes, step)
  <2> SUFFICES ASSUME NEW n \in Nodes, NEW f \in [Nodes -> SUBSET Nodes]
               PROVE  step[n][f] \in SUBSET Nodes
    BY DEF Within
  <2>1. n # Root => f[Parent[n]] \in SUBSET Nodes
    BY TreeFacts
  <2> QED
    BY <2>1
<1>2. LooksBelow(Nodes, SUBSET Nodes, [n \in Nodes |-> IF n = Root THEN {} ELSE {Parent[n]}], step)
  BY DEF LooksBelow, Alike
<1>3. PICK f : Repeats(Nodes, SUBSET Nodes, step, f)
  <2> HIDE DEF step
  <2>1. {} \in SUBSET Nodes
    OBVIOUS
  <2> QED
    BY <1>1, <1>2, <2>1, ByParent
<1> QED
  BY <1>3 DEF Repeats

LEMMA SiblingsShareNoLine ==
  ASSUME NEW n \in Nodes, NEW c \in Children(n), NEW d \in Children(n), c # d
  PROVE  LinesBelow[c] \cap LinesBelow[d] = {}
<1>1. PICK depth \in [Nodes -> Nat] : \A m \in Nodes \ {Root} : depth[m] = depth[Parent[m]] + 1
  BY DepthExists
<1>2. PICK above \in [Nodes -> SUBSET Nodes] :
        \A m \in Nodes : above[m] = {m} \cup IF m = Root THEN {} ELSE above[Parent[m]]
  BY AboveExists
<1>3. \A m \in Nodes : \A a \in above[m] : depth[a] <= depth[m]
  <2> DEFINE P == {m \in Nodes : \A a \in above[m] : depth[a] <= depth[m]}
  <2>1. ASSUME NEW m \in Nodes, m # Root => Parent[m] \in P PROVE m \in P
    <3> SUFFICES ASSUME NEW a \in above[m] PROVE depth[a] <= depth[m]
      OBVIOUS
    <3>1. CASE a = m
      BY <3>1
    <3>2. CASE a # m
      <4>1. m # Root /\ a \in above[Parent[m]] /\ Parent[m] \in Nodes
        BY <1>2, <3>2, TreeFacts
      <4>2. depth[a] <= depth[Parent[m]]
        BY <2>1, <4>1
      <4>3. depth[m] = depth[Parent[m]] + 1 /\ a \in Nodes
        BY <1>1, <4>1
      <4>4. depth[a] \in Nat /\ depth[Parent[m]] \in Nat
        BY <4>1, <4>3
      <4> HIDE DEF P
      <4> QED
        BY <4>2, <4>3, <4>4
    <3> QED
      BY <3>1, <3>2
  <2> HIDE DEF P
  <2>2. Nodes \subseteq P
    BY <2>1, DownTheTree
  <2> QED
    BY <2>2 DEF P
<1>4. \A m \in Nodes : \A a, b \in above[m] : depth[a] = depth[b] => a = b
  <2> DEFINE P == {m \in Nodes : \A a, b \in above[m] : depth[a] = depth[b] => a = b}
  <2>1. ASSUME NEW m \in Nodes, m # Root => Parent[m] \in P PROVE m \in P
    <3>1. \A a \in above[m] : a # m => /\ m # Root /\ a \in above[Parent[m]]
                                       /\ depth[a] # depth[m]
      <4> SUFFICES ASSUME NEW a \in above[m], a # m
                   PROVE  m # Root /\ a \in above[Parent[m]] /\ depth[a] # depth[m]
        OBVIOUS
      <4>1. m # Root /\ a \in above[Parent[m]] /\ Parent[m] \in Nodes /\ a \in Nodes
        BY <1>2, TreeFacts
      <4>2. depth[a] <= depth[Parent[m]] /\ depth[m] = depth[Parent[m]] + 1
        BY <1>1, <1>3, <4>1
      <4>3. depth[a] \in Nat /\ depth[Parent[m]] \in Nat
        BY <4>1
      <4> HIDE DEF P
      <4> QED
        BY <4>1, <4>2, <4>3
    <3> SUFFICES ASSUME NEW a \in above[m], NEW b \in above[m], depth[a] = depth[b] PROVE a = b
      OBVIOUS
    <3> QED
      BY <2>1, <3>1
  <2> HIDE DEF P
  <2>2. Nodes \subseteq P
    BY <2>1, DownTheTree
  <2> QED
    BY <2>2 DEF P
<1>5. \A m \in Nodes : \A a \in above[m] : a # Root => Parent[a] \in above[m]
  <2> DEFINE P == {m \in Nodes : \A a \in above[m] : a # Root => Parent[a] \in above[m]}
  <2>1. ASSUME NEW m \in Nodes, m # Root => Parent[m] \in P PROVE m \in P
    <3>1. above[m] = {m} \cup IF m = Root THEN {} ELSE above[Parent[m]]
      BY <1>2
    <3>2. m # Root => Parent[m] \in above[Parent[m]]
      BY <1>2, TreeFacts
    <3> QED
      BY <2>1, <3>1, <3>2
  <2> HIDE DEF P
  <2>2. Nodes \subseteq P
    BY <2>1, DownTheTree
  <2> QED
    BY <2>2 DEF P
<1>6. \A m \in Nodes : \A l \in LinesBelow[m] : m \in above[l]
  <2> DEFINE P == {m \in Nodes : \A l \in LinesBelow[m] : m \in above[l]}
  <2>1. ASSUME NEW m \in Nodes, Children(m) \subseteq P PROVE m \in P
    <3> SUFFICES ASSUME NEW l \in LinesBelow[m] PROVE m \in above[l]
      OBVIOUS
    <3>1. l \in Nodes
      BY LinesBelowFacts DEF Leaves
    <3>2. CASE m \in Leaves
      BY <1>2, <3>1, <3>2, LinesBelowFacts
    <3>3. CASE m \notin Leaves
      <4>1. PICK k \in Children(m) : l \in LinesBelow[k]
        BY <3>3, LinesBelowFacts
      <4>2. k \in above[l] /\ k # Root /\ Parent[k] = m
        BY <2>1, <4>1, ChildrenFacts
      <4> QED
        BY <1>5, <3>1, <4>2
    <3> QED
      BY <3>2, <3>3
  <2> HIDE DEF P
  <2>2. Nodes \subseteq P
    BY <2>1, UpTheTree
  <2> QED
    BY <2>2 DEF P
<1> SUFFICES ASSUME NEW l \in LinesBelow[c], l \in LinesBelow[d] PROVE FALSE
  OBVIOUS
<1>7. /\ c \in Nodes \ {Root} /\ d \in Nodes \ {Root} /\ Parent[c] = n /\ Parent[d] = n
      /\ l \in Nodes
  BY ChildrenFacts, LinesBelowFacts DEF Leaves
<1>8. depth[c] = depth[d]
  BY <1>1, <1>7
<1> QED
  BY <1>4, <1>6, <1>7, <1>8

-----------------------------------------------------------------------------

\* What validate_result checks of an account and its children says what the
\* effect of the lines below it comes to.
LEMMA ReconciledAmounts ==
  ASSUME NEW accounts, Reconciles(accounts), NEW amount \in {"budget", "actual"},
         \A l \in Leaves : accounts[l][amount] \in Int
  PROVE  /\ \A n \in Nodes : accounts[n][amount] \in Int
         /\ \A n \in Nodes \ Leaves : \E g, it :
              /\ Adds(Children(n), g, it) /\ g \in [Children(n) -> Int]
              /\ \A c \in Children(n) : g[c] = Sign[c] * accounts[c][amount]
              /\ accounts[n][amount] = it[Children(n)]
<1>1. \A n \in Nodes \ Leaves :
        accounts[n][amount] = Signed(Children(n), accounts, amount)
  <2>1. \A n \in Nodes \ Leaves :
          /\ accounts[n]["budget"] = Signed(Children(n), accounts, "budget")
          /\ accounts[n]["actual"] = Signed(Children(n), accounts, "actual")
    BY DEF Reconciles, Signed, SumOver, MapThenSumSet, MapThenFoldSet
  <2> QED
    BY <2>1
<1>2. ASSUME NEW n \in Nodes \ Leaves, \A c \in Children(n) : accounts[c][amount] \in Int
      PROVE  \E g, it :
              /\ Adds(Children(n), g, it) /\ g \in [Children(n) -> Int]
              /\ \A c \in Children(n) : g[c] = Sign[c] * accounts[c][amount]
              /\ accounts[n][amount] = it[Children(n)]
  <2>1. PICK g : g = [c \in Children(n) |-> Sign[c] * accounts[c][amount]]
    OBVIOUS
  <2>2. \A c \in Children(n) : Sign[c] * accounts[c][amount] \in Int
    <3> SUFFICES ASSUME NEW c \in Children(n) PROVE Sign[c] * accounts[c][amount] \in Int
      OBVIOUS
    <3>1. Sign[c] \in {1, -1} /\ accounts[c][amount] \in Int
      BY <1>2, ChildrenFacts, TreeFacts
    <3> QED
      BY <3>1
  <2>3. g \in [Children(n) -> Int] /\ \A c \in Children(n) : g[c] = Sign[c] * accounts[c][amount]
    BY <2>1, <2>2
  <2>4. PICK it : Adds(Children(n), g, it)
    BY <2>3, ChildrenFacts, AdderExists
  <2>5. Signed(Children(n), accounts, amount) = it[Children(n)]
    BY <2>3, <2>4, ChildrenFacts, SumOfSigned
  <2> QED
    BY <1>1, <2>3, <2>4, <2>5
<1>3. \A n \in Nodes : accounts[n][amount] \in Int
  <2> DEFINE P == {n \in Nodes : accounts[n][amount] \in Int}
  <2>1. ASSUME NEW n \in Nodes, Children(n) \subseteq P PROVE n \in P
    <3>1. CASE n \in Leaves
      BY <3>1
    <3>2. CASE n \notin Leaves
      <4>1. PICK g, it : Adds(Children(n), g, it) /\ accounts[n][amount] = it[Children(n)]
        BY <1>2, <2>1, <3>2
      <4>2. it[Children(n)] \in Int
        BY <4>1 DEF Adds
      <4> QED
        BY <4>1, <4>2
    <3> QED
      BY <3>1, <3>2
  <2> HIDE DEF P
  <2>2. Nodes \subseteq P
    BY <2>1, UpTheTree
  <2> QED
    BY <2>2 DEF P
<1> QED
  BY <1>2, <1>3, ChildrenFacts

\* The effects of an account's children are its own, split up.
LEMMA ImpactOfChildren ==
  ASSUME NEW accounts, Reconciles(accounts),
         \A l \in Leaves : accounts[l]["budget"] \in Int /\ accounts[l]["actual"] \in Int,
         NEW n \in Nodes \ Leaves
  PROVE  \E h, jt : /\ Adds(Children(n), h, jt) /\ accounts[n].impact = jt[Children(n)]
                    /\ \A c \in Children(n) : h[c] = accounts[c].impact
<1> DEFINE C == Children(n)
           v == [m \in Nodes |-> accounts[m]["actual"] - accounts[m]["budget"]]
<1>1. PICK gb, b : /\ Adds(C, gb, b) /\ gb \in [C -> Int] /\ accounts[n]["budget"] = b[C]
                   /\ \A c \in C : gb[c] = Sign[c] * accounts[c]["budget"]
  BY ReconciledAmounts
<1>2. PICK ga, a : /\ Adds(C, ga, a) /\ ga \in [C -> Int] /\ accounts[n]["actual"] = a[C]
                   /\ \A c \in C : ga[c] = Sign[c] * accounts[c]["actual"]
  BY ReconciledAmounts
<1>3. \A m \in Nodes : /\ accounts[m]["budget"] \in Int /\ accounts[m]["actual"] \in Int
                       /\ accounts[m].impact = Toward[m] * v[m]
  BY ReconciledAmounts DEF Reconciles
<1>4. PICK d : d = [c \in C |-> ga[c] - gb[c]]
  OBVIOUS
<1>5. PICK e : e = Less(C, a, b) /\ e[C] = a[C] - b[C]
  <2> HIDE DEF C
  <2>1. Less(C, a, b)[C] = a[C] - b[C]
    BY DEF Less
  <2> QED
    BY <2>1
<1>6. Adds(C, d, e)
  <2>1. Differs(C, ga, gb, d)
    BY <1>1, <1>2, <1>4 DEF Differs
  <2> HIDE DEF C
  <2> QED
    BY <1>1, <1>2, <1>5, <2>1, AddsDifference
<1>7. d \in [C -> Int] /\ e[C] = a[C] - b[C]
  <2>1. \A c \in C : ga[c] - gb[c] \in Int
    BY <1>1, <1>2
  <2> QED
    BY <1>4, <1>5, <2>1
<1>8. PICK k : k = Toward[n] /\ k \in Int
  BY TowardFacts
<1>9. PICK h, jt : h = [c \in C |-> k * d[c]] /\ jt = [s \in SUBSET C |-> k * e[s]]
  OBVIOUS
<1>10. Adds(C, h, jt)
  <2> HIDE DEF C
  <2> QED
    BY <1>6, <1>7, <1>8, <1>9, AddsScaled
<1>11. jt[C] = k * (a[C] - b[C])
  BY <1>7, <1>9
<1>12. accounts[n].impact = jt[C]
  BY <1>1, <1>2, <1>3, <1>8, <1>11
<1>13. ASSUME NEW c \in C PROVE h[c] = accounts[c].impact
  <2>1. PICK x, y, s : x = accounts[c]["actual"] /\ y = accounts[c]["budget"] /\ s = Sign[c]
    OBVIOUS
  <2>2. x \in Int /\ y \in Int /\ s \in {1, -1} /\ Parent[c] = n /\ c \in Nodes \ {Root}
    BY <1>3, <2>1, ChildrenFacts, TreeFacts
  <2>3. Toward[c] = k * s
    BY <1>8, <2>1, <2>2, TowardFacts
  <2>4. h[c] = k * (s * x - s * y)
    BY <1>1, <1>2, <1>4, <1>9, <2>1
  <2>5. accounts[c].impact = (k * s) * (x - y)
    BY <1>3, <2>1, <2>2, <2>3
  <2>6. k * (s * x - s * y) = (k * s) * (x - y)
    <3>1. CASE s = 1
      BY <1>8, <2>2, <3>1
    <3>2. CASE s = -1
      BY <1>8, <2>2, <3>2
    <3> QED
      BY <2>2, <3>1, <3>2
  <2> QED
    BY <2>4, <2>5, <2>6
<1> QED
  BY <1>10, <1>12, <1>13

\* A report that validate_result passes ties over the whole tree: an account's
\* effect on the result is the sum of those of the lines below it, however
\* deep they hang and whatever their signs are (hierarchy.py:10-25).
THEOREM ReconciledAccountsTie ==
  ASSUME NEW accounts, Reconciles(accounts),
         \A l \in Leaves : accounts[l].budget \in Int /\ accounts[l].actual \in Int
  PROVE  Ties(accounts)
<1>1. \A l \in Leaves : accounts[l]["budget"] \in Int /\ accounts[l]["actual"] \in Int
  OBVIOUS
<1>2. PICK i : i = [n \in Nodes |-> accounts[n].impact]
  OBVIOUS
<1>3. i \in [Nodes -> Int]
  <2>1. \A n \in Nodes : accounts[n]["budget"] \in Int /\ accounts[n]["actual"] \in Int
    BY <1>1, ReconciledAmounts
  <2>2. \A n \in Nodes : accounts[n].impact = Toward[n] * (accounts[n]["actual"] - accounts[n]["budget"])
    BY DEF Reconciles
  <2>3. \A n \in Nodes : Toward[n] \in Int
    BY TowardFacts
  <2>4. ASSUME NEW n \in Nodes PROVE accounts[n].impact \in Int
    <3>1. PICK x, y, k : /\ x = accounts[n]["actual"] /\ y = accounts[n]["budget"] /\ k = Toward[n]
                         /\ x \in Int /\ y \in Int /\ k \in Int
      BY <2>1, <2>3
    <3>2. accounts[n].impact = k * (x - y) /\ k * (x - y) \in Int
      BY <2>2, <3>1
    <3> QED
      BY <3>2
  <2> QED
    BY <1>2, <2>4
<1>4. PICK A : Adds(Nodes, i, A)
  BY <1>3, TreeFacts, AdderExists
<1>5. \A n \in Nodes : i[n] = A[LinesBelow[n]]
  <2> DEFINE P == {n \in Nodes : i[n] = A[LinesBelow[n]]}
  <2>1. ASSUME NEW n \in Nodes, Children(n) \subseteq P PROVE n \in P
    <3>1. CASE n \in Leaves
      <4>1. LinesBelow[n] = {n}
        BY <3>1, LinesBelowFacts
      <4>2. A[{n}] = i[n] + A[{n} \ {n}]
        BY <1>4 DEF Adds
      <4>3. {n} \ {n} = {} /\ A[{}] = 0 /\ i[n] \in Int
        BY <1>3, <1>4 DEF Adds
      <4>4. i[n] = A[LinesBelow[n]]
        BY <4>1, <4>2, <4>3
      <4> QED
        BY <4>4
    <3>2. CASE n \notin Leaves
      <4>1. PICK h, jt : /\ Adds(Children(n), h, jt) /\ i[n] = jt[Children(n)]
                         /\ \A c \in Children(n) : h[c] = accounts[c].impact
        BY <1>1, <1>2, <3>2, ImpactOfChildren
      <4>2. \A c \in Children(n) : h[c] = A[LinesBelow[c]]
        BY <1>2, <2>1, <4>1
      <4>3. \A c \in Children(n) : LinesBelow[c] \in SUBSET Nodes
        BY ChildrenFacts, LinesBelowFacts DEF Leaves
      <4>4. \A c, d \in Children(n) : c # d => LinesBelow[c] \cap LinesBelow[d] = {}
        BY SiblingsShareNoLine
      <4>5. PICK part : part = LinesBelow
        OBVIOUS
      <4>6. jt[Children(n)] = A[UNION {part[c] : c \in Children(n)}]
        <5>1. \A c \in Children(n) : part[c] \in SUBSET Nodes /\ h[c] = A[part[c]]
          BY <4>2, <4>3, <4>5
        <5>2. \A c, d \in Children(n) : c # d => part[c] \cap part[d] = {}
          BY <4>4, <4>5
        <5>3. IsFiniteSet(Children(n)) /\ IsFiniteSet(Nodes)
          BY ChildrenFacts, TreeFacts
        <5> HIDE DEF P
        <5> QED
          BY <1>3, <1>4, <4>1, <5>1, <5>2, <5>3, AddsParts
      <4>7. LinesBelow[n] = UNION {LinesBelow[c] : c \in Children(n)}
        BY <3>2, LinesBelowFacts
      <4>8. i[n] = A[LinesBelow[n]]
        BY <4>1, <4>5, <4>6, <4>7
      <4> QED
        BY <4>8
    <3> QED
      BY <3>1, <3>2
  <2> HIDE DEF P
  <2>2. Nodes \subseteq P
    BY <2>1, UpTheTree
  <2> QED
    BY <2>2 DEF P
<1>6. ASSUME NEW n \in Nodes
      PROVE  accounts[n].impact = Impacts(LinesBelow[n], accounts)
  <2>1. PICK S : S = LinesBelow[n]
    OBVIOUS
  <2>2. S \in SUBSET Nodes /\ IsFiniteSet(S)
    BY <2>1, LinesBelowFacts, TreeFacts, FS_Subset DEF Leaves
  <2>3. PICK g : g = [l \in S |-> i[l]]
    OBVIOUS
  <2>4. g \in [S -> Int] /\ \A l \in S : g[l] = accounts[l].impact /\ g[l] = i[l]
    BY <1>2, <1>3, <2>2, <2>3
  <2>5. PICK it : Adds(S, g, it)
    BY <2>2, <2>4, AdderExists
  <2>6. it[S] = A[S]
    BY <1>4, <2>2, <2>4, <2>5, AddsOnce
  <2>7. Impacts(S, accounts) = it[S]
    BY <2>2, <2>4, <2>5, SumOfImpacts
  <2> QED
    BY <1>2, <1>5, <2>1, <2>6, <2>7
<1> QED
  BY <1>6 DEF Ties, Impacts

-----------------------------------------------------------------------------
(* The roll-up of what the lines hold.                                     *)

SignedSum(S, f) == SumOver(S, LAMBDA c : Sign[c] * f[c])
RollUp(w, f) == f = [n \in Nodes |-> IF n \in Leaves THEN w[n] ELSE SignedSum(Children(n), f)]

\* SignedSum is a sum in any order, of whole amounts.
Terms(S, f, g) == g \in [S -> Int] /\ \A c \in S : g[c] = Sign[c] * f[c]
LEMMA SignedSumAdds ==
  ASSUME NEW S, IsFiniteSet(S), NEW f, NEW g, Terms(S, f, g), NEW it, Adds(S, g, it)
  PROVE  SignedSum(S, f) = it[S]
<1> DEFINE Eq(j) == j = [s \in SUBSET S |-> IF s = {} THEN 0
                          ELSE Sign[CHOOSE y \in s : TRUE] * f[CHOOSE y \in s : TRUE]
                               + j[s \ {CHOOSE y \in s : TRUE}]]
           iter == CHOOSE j : Eq(j)
<1>0. g \in [S -> Int]
  BY DEF Terms
<1>1. PICK j : Iterates(S, g, j)
  BY <1>0, IterationExists
<1>2. \A k : Eq(k) <=> Iterates(S, g, k)
  <2>1. \A s \in SUBSET S : s # {} => g[Taken(s)] = Sign[Taken(s)] * f[Taken(s)]
    BY TakenIn DEF Terms
  <2> SUFFICES ASSUME NEW k PROVE Eq(k) <=> Iterates(S, g, k)
    OBVIOUS
  <2> QED
    BY <2>1 DEF Iterates, Taken
<1>3. Eq(iter)
  <2> HIDE DEF Eq
  <2> QED
    BY <1>1, <1>2
<1>4. iter[S] = it[S]
  <2> HIDE DEF Eq, iter
  <2>1. Adds(S, g, iter)
    BY <1>0, <1>2, <1>3, IterationAdds
  <2> QED
    BY <1>0, <2>1, AddsOnce
<1>5. SignedSum(S, f) = iter[S]
  BY DEF SignedSum, SumOver, MapThenSumSet, MapThenFoldSet
<1> QED
  BY <1>4, <1>5

\* Of a node whose children hold whole amounts.
LEMMA SignedSumOfChildren ==
  ASSUME NEW n \in Nodes, NEW f, \A c \in Children(n) : f[c] \in Int
  PROVE  \E g, it : /\ Terms(Children(n), f, g) /\ Adds(Children(n), g, it)
                    /\ SignedSum(Children(n), f) = it[Children(n)]
                    /\ it[Children(n)] \in Int
<1>1. PICK g : g = [c \in Children(n) |-> Sign[c] * f[c]]
  OBVIOUS
<1>2. \A c \in Children(n) : Sign[c] * f[c] \in Int
  <2> SUFFICES ASSUME NEW c \in Children(n) PROVE Sign[c] * f[c] \in Int
    OBVIOUS
  <2>1. Sign[c] \in {1, -1} /\ f[c] \in Int
    BY ChildrenFacts, TreeFacts
  <2> QED
    BY <2>1
<1>3. Terms(Children(n), f, g) /\ g \in [Children(n) -> Int]
  BY <1>1, <1>2 DEF Terms
<1>4. PICK it : Adds(Children(n), g, it)
  BY <1>3, ChildrenFacts, AdderExists
<1>5. it[Children(n)] \in Int
  BY <1>4 DEF Adds
<1>6. SignedSum(Children(n), f) = it[Children(n)]
  BY <1>3, <1>4, ChildrenFacts, SignedSumAdds
<1> QED
  BY <1>3, <1>4, <1>5, <1>6

LEMMA SameSignedSum ==
  ASSUME NEW n \in Nodes, NEW f, NEW h, \A c \in Children(n) : f[c] \in Int /\ h[c] = f[c]
  PROVE  SignedSum(Children(n), h) = SignedSum(Children(n), f)
<1>1. PICK g, it : /\ Terms(Children(n), f, g) /\ Adds(Children(n), g, it)
                   /\ SignedSum(Children(n), f) = it[Children(n)]
  BY SignedSumOfChildren
<1>2. Terms(Children(n), h, g)
  BY <1>1 DEF Terms
<1> QED
  BY <1>1, <1>2, ChildrenFacts, SignedSumAdds

LEMMA RollUpExists ==
  ASSUME NEW w, \A l \in Leaves : w[l] \in Int
  PROVE  \E f : RollUp(w, f)
<1> DEFINE step == [n \in Nodes |-> [f \in [Nodes -> Int] |->
                      IF n \in Leaves THEN w[n] ELSE SignedSum(Children(n), f)]]
<1>1. Within(Nodes, Int, step)
  <2> SUFFICES ASSUME NEW n \in Nodes, NEW f \in [Nodes -> Int] PROVE step[n][f] \in Int
    BY DEF Within
  <2>1. SignedSum(Children(n), f) \in Int
    <3>1. \A c \in Children(n) : f[c] \in Int
      BY ChildrenFacts
    <3> QED
      BY <3>1, SignedSumOfChildren
  <2> QED
    BY <2>1
<1>2. LooksBelow(Nodes, Int, [n \in Nodes |-> Children(n)], step)
  <2>1. PICK dep : dep = [n \in Nodes |-> Children(n)]
    OBVIOUS
  <2>2. ASSUME NEW n \in Nodes, NEW f \in [Nodes -> Int], NEW g \in [Nodes -> Int],
               Alike(f, g, dep[n])
        PROVE  step[n][f] = step[n][g]
    <3>1. \A c \in Children(n) : f[c] = g[c] /\ g[c] \in Int
      BY <2>1, <2>2, ChildrenFacts DEF Alike
    <3>2. SignedSum(Children(n), f) = SignedSum(Children(n), g)
      BY <3>1, SameSignedSum
    <3> QED
      BY <3>2
  <2> HIDE DEF step
  <2>3. LooksBelow(Nodes, Int, dep, step)
    BY <2>2 DEF LooksBelow
  <2> QED
    BY <2>1, <2>3
<1>3. PICK f : Repeats(Nodes, Int, step, f)
  <2> HIDE DEF step
  <2>1. 0 \in Int
    OBVIOUS
  <2> QED
    BY <1>1, <1>2, <2>1, ByChildren
<1>4. f = [n \in Nodes |-> IF n \in Leaves THEN w[n] ELSE SignedSum(Children(n), f)]
  BY <1>3 DEF Repeats
<1> QED
  BY <1>4 DEF RollUp

LEMMA RollUpTyped ==
  ASSUME NEW w, \A l \in Leaves : w[l] \in Int, NEW f, RollUp(w, f)
  PROVE  /\ \A n \in Nodes : f[n] \in Int
         /\ \A n \in Leaves : f[n] = w[n]
         /\ \A n \in Nodes \ Leaves : f[n] = SignedSum(Children(n), f)
<1>1. \A n \in Nodes : f[n] = IF n \in Leaves THEN w[n] ELSE SignedSum(Children(n), f)
  BY DEF RollUp
<1>2. \A n \in Leaves : n \in Nodes
  BY DEF Leaves
<1> DEFINE P == {n \in Nodes : f[n] \in Int}
<1>3. ASSUME NEW n \in Nodes, Children(n) \subseteq P PROVE n \in P
  <2>1. CASE n \in Leaves
    <3>1. f[n] = w[n] /\ w[n] \in Int
      BY <1>1, <2>1
    <3> QED
      BY <3>1
  <2>2. CASE n \notin Leaves
    <3>1. \A c \in Children(n) : f[c] \in Int
      BY <1>3
    <3>2. SignedSum(Children(n), f) \in Int
      BY <3>1, SignedSumOfChildren
    <3>3. f[n] = SignedSum(Children(n), f)
      BY <1>1, <2>2
    <3> QED
      BY <3>2, <3>3
  <2> QED
    BY <2>1, <2>2
<1> HIDE DEF P
<1>4. Nodes \subseteq P
  BY <1>3, UpTheTree
<1>5. \A n \in Nodes : f[n] \in Int
  BY <1>4 DEF P
<1> QED
  BY <1>1, <1>2, <1>5

\* Rolling up is linear: the variances roll up to the variance of the totals.
LEMMA RollUpDifference ==
  ASSUME NEW w, NEW f, RollUp(w, f), NEW x, NEW g, RollUp(x, g),
         NEW y, Differs(Leaves, w, x, y), NEW h, RollUp(y, h)
  PROVE  \A n \in Nodes : h[n] = f[n] - g[n]
<1>0. \A l \in Leaves : w[l] \in Int /\ x[l] \in Int /\ y[l] = w[l] - x[l]
  BY DEF Differs
<1>1. /\ \A n \in Nodes : f[n] \in Int
      /\ \A n \in Leaves : f[n] = w[n]
      /\ \A n \in Nodes \ Leaves : f[n] = SignedSum(Children(n), f)
  BY <1>0, RollUpTyped
<1>2. /\ \A n \in Nodes : g[n] \in Int
      /\ \A n \in Leaves : g[n] = x[n]
      /\ \A n \in Nodes \ Leaves : g[n] = SignedSum(Children(n), g)
  BY <1>0, RollUpTyped
<1>3. \A l \in Leaves : y[l] \in Int
  <2> SUFFICES ASSUME NEW l \in Leaves PROVE y[l] \in Int
    OBVIOUS
  <2>1. PICK a, b : a = w[l] /\ b = x[l] /\ a \in Int /\ b \in Int
    BY <1>0
  <2>2. y[l] = a - b
    BY <1>0, <2>1
  <2> QED
    BY <2>1, <2>2
<1>4. /\ \A n \in Leaves : h[n] = y[n]
      /\ \A n \in Nodes \ Leaves : h[n] = SignedSum(Children(n), h)
  BY <1>3, RollUpTyped
<1> DEFINE P == {n \in Nodes : h[n] = f[n] - g[n]}
<1>5. ASSUME NEW n \in Nodes, Children(n) \subseteq P PROVE n \in P
  <2>1. CASE n \in Leaves
    BY <1>0, <1>1, <1>2, <1>4, <2>1
  <2>2. CASE n \notin Leaves
    <3>1. \A c \in Children(n) : f[c] \in Int /\ g[c] \in Int /\ h[c] = f[c] - g[c]
      BY <1>1, <1>2, <1>5, ChildrenFacts
    <3>2. PICK C : C = Children(n)
      OBVIOUS
    <3>3. PICK tf, a : Terms(C, f, tf) /\ Adds(C, tf, a) /\ SignedSum(C, f) = a[C]
      BY <3>1, <3>2, SignedSumOfChildren
    <3>4. PICK tg, b : Terms(C, g, tg) /\ Adds(C, tg, b) /\ SignedSum(C, g) = b[C]
      BY <3>1, <3>2, SignedSumOfChildren
    <3>5. PICK th : th = [c \in C |-> Sign[c] * h[c]]
      OBVIOUS
    <3>6. ASSUME NEW c \in C
          PROVE  th[c] \in Int /\ th[c] = Sign[c] * h[c] /\ th[c] = tf[c] - tg[c]
                 /\ tf[c] \in Int /\ tg[c] \in Int
      <4>1. PICK p, q, s : p = f[c] /\ q = g[c] /\ s = Sign[c]
        OBVIOUS
      <4>2. p \in Int /\ q \in Int /\ s \in {1, -1} /\ h[c] = p - q
        BY <3>1, <3>2, <4>1, ChildrenFacts, TreeFacts
      <4>3. th[c] = s * (p - q) /\ tf[c] = s * p /\ tg[c] = s * q /\ th[c] = Sign[c] * h[c]
        BY <3>3, <3>4, <3>5, <4>1, <4>2 DEF Terms
      <4>4. s * (p - q) = s * p - s * q /\ s * p \in Int /\ s * q \in Int /\ s * (p - q) \in Int
        BY <4>2
      <4> QED
        BY <4>3, <4>4
    <3>7. Differs(C, tf, tg, th)
      BY <3>6 DEF Differs
    <3>8. Terms(C, h, th)
      BY <3>5, <3>6 DEF Terms
    <3>9. Adds(C, th, Less(C, a, b))
      BY <3>3, <3>4, <3>7, AddsDifference
    <3>10. SignedSum(C, h) = Less(C, a, b)[C]
      BY <3>2, <3>8, <3>9, ChildrenFacts, SignedSumAdds
    <3>11. Less(C, a, b)[C] = a[C] - b[C]
      BY DEF Less
    <3>12. h[n] = f[n] - g[n]
      BY <1>1, <1>2, <1>4, <2>2, <3>2, <3>3, <3>4, <3>10, <3>11
    <3> QED
      BY <3>12
  <2> QED
    BY <2>1, <2>2
<1> HIDE DEF P
<1>6. Nodes \subseteq P
  BY <1>5, UpTheTree
<1> QED
  BY <1>6 DEF P

LEMMA WholeIsItself == \A f : Whole(f) = f
BY DEF Whole

\* The figures of an account, and the roll-up of their variances.
Rolled(budget, actual, close) ==
  LET rolled[n \in Nodes] ==
        IF n \in Leaves THEN Spending(budget[<<n, close>>], actual[<<n, close>>])
        ELSE SumOver(Children(n), LAMBDA c : Sign[c] * rolled[c])
  IN  rolled
LEMMA AccountFigures ==
  ASSUME NEW budget, NEW actual, NEW close \in Periods, NEW n \in Nodes
  PROVE  LET account == Accounts(budget, actual, close)[n] IN
         /\ account.budget = Totals(budget, close)[n]
         /\ account.actual = Totals(actual, close)[n]
         /\ account.variance = Rolled(budget, actual, close)[n]
         /\ account.impact = Toward[n] * Rolled(budget, actual, close)[n]
         /\ account.favourable = (Toward[n] * Rolled(budget, actual, close)[n] >= 0)
<1>1. close \in Annual(close) /\ close \in {p \in Annual(close) : p <= close}
  <2>1. close \in Int /\ close <= close
    BY TreeAssumption DEF Periods
  <2> QED
    BY <2>1 DEF Annual
<1>2. Accounts(budget, actual, close)[n].budget
      = Whole([p \in History(budget, actual, close) \cup Annual(close) |-> Totals(budget, p)])[close][n]
  BY DEF Accounts
<1>3. Accounts(budget, actual, close)[n].actual
      = Whole([p \in History(budget, actual, close) \cup {p \in Annual(close) : p <= close}
                 |-> Totals(actual, p)])[close][n]
  BY DEF Accounts
<1>4. PICK rolled : rolled = Rolled(budget, actual, close)
  OBVIOUS
<1>5. Accounts(budget, actual, close)[n].variance = rolled[n]
  BY <1>4 DEF Accounts, Rolled
<1>6. Accounts(budget, actual, close)[n].impact = Toward[n] * rolled[n]
  BY <1>4 DEF Accounts, Rolled
<1>7. Accounts(budget, actual, close)[n].favourable = (Toward[n] * rolled[n] >= 0)
  BY <1>4 DEF Accounts, Rolled
<1> QED
  BY <1>1, <1>2, <1>3, <1>4, <1>5, <1>6, <1>7, WholeIsItself

\* _totals, and the variances, are roll-ups.
LEMMA TotalsRollUp ==
  ASSUME NEW panel, NEW period, NEW w, \A l \in Leaves : w[l] = panel[<<l, period>>] /\ w[l] \in Int
  PROVE  RollUp(w, Totals(panel, period))
<1> DEFINE Eq(f) == f = [n \in Nodes |-> IF n \in Leaves THEN panel[<<n, period>>]
                                         ELSE SumOver(Children(n), LAMBDA c : Sign[c] * f[c])]
<1>1. Totals(panel, period) = CHOOSE f : Eq(f)
  BY WholeIsItself DEF Totals
<1>2. \A f : Eq(f) <=> RollUp(w, f)
  BY DEF RollUp, SignedSum
<1>3. \E f : RollUp(w, f)
  BY RollUpExists
<1> HIDE DEF Eq
<1> QED
  BY <1>1, <1>2, <1>3

LEMMA RolledRollUp ==
  ASSUME NEW budget, NEW actual, NEW close, NEW w,
         \A l \in Leaves : w[l] = actual[<<l, close>>] - budget[<<l, close>>] /\ w[l] \in Int
  PROVE  RollUp(w, Rolled(budget, actual, close))
<1> DEFINE Eq(f) == f = [n \in Nodes |->
                           IF n \in Leaves THEN Spending(budget[<<n, close>>], actual[<<n, close>>])
                           ELSE SumOver(Children(n), LAMBDA c : Sign[c] * f[c])]
<1>1. Rolled(budget, actual, close) = CHOOSE f : Eq(f)
  BY DEF Rolled
<1>2. \A f : Eq(f) <=> RollUp(w, f)
  BY DEF RollUp, SignedSum, Spending
<1>3. \E f : RollUp(w, f)
  BY RollUpExists
<1> HIDE DEF Eq
<1> QED
  BY <1>1, <1>2, <1>3

\* validate_result passes every report that a close builds of whole cents: what
\* is rolled up of the variances is the variance of what is rolled up, at
\* every account, so no close is refused for its figures (close.py:244-262).
THEOREM ReportsReconcile ==
  ASSUME NEW budget, NEW actual, NEW close \in Periods,
         \A l \in Leaves : budget[<<l, close>>] \in Int /\ actual[<<l, close>>] \in Int
  PROVE  Reconciles(Accounts(budget, actual, close))
<1> DEFINE accounts == Accounts(budget, actual, close)
           planned == Totals(budget, close)
           booked == Totals(actual, close)
           rolled == Rolled(budget, actual, close)
<1>1. PICK w : w = [l \in Leaves |-> actual[<<l, close>>]]
  OBVIOUS
<1>2. PICK x : x = [l \in Leaves |-> budget[<<l, close>>]]
  OBVIOUS
<1>3. PICK y : y = [l \in Leaves |-> actual[<<l, close>>] - budget[<<l, close>>]]
  OBVIOUS
<1>4. \A l \in Leaves : /\ w[l] = actual[<<l, close>>] /\ w[l] \in Int
                        /\ x[l] = budget[<<l, close>>] /\ x[l] \in Int
  BY <1>1, <1>2
<1>5. ASSUME NEW l \in Leaves
      PROVE  /\ y[l] = w[l] - x[l] /\ y[l] \in Int
             /\ y[l] = actual[<<l, close>>] - budget[<<l, close>>]
  <2>1. PICK a, b : a = actual[<<l, close>>] /\ b = budget[<<l, close>>] /\ a \in Int /\ b \in Int
    OBVIOUS
  <2>2. y[l] = a - b /\ a - b \in Int /\ w[l] = a /\ x[l] = b
    BY <1>3, <1>4, <2>1
  <2> QED
    BY <2>1, <2>2
<1>6. RollUp(w, booked) /\ RollUp(x, planned) /\ RollUp(y, rolled)
  BY <1>4, <1>5, TotalsRollUp, RolledRollUp
<1> HIDE DEF planned, booked, rolled
<1>7. \A n \in Nodes : rolled[n] = booked[n] - planned[n]
  <2>1. Differs(Leaves, w, x, y)
    BY <1>4, <1>5 DEF Differs
  <2> QED
    BY <1>6, <2>1, RollUpDifference
<1>8. /\ \A n \in Nodes : booked[n] \in Int
      /\ \A n \in Nodes \ Leaves : booked[n] = SignedSum(Children(n), booked)
  BY <1>4, <1>6, RollUpTyped
<1>9. /\ \A n \in Nodes : planned[n] \in Int
      /\ \A n \in Nodes \ Leaves : planned[n] = SignedSum(Children(n), planned)
  BY <1>4, <1>6, RollUpTyped
<1>10. \A n \in Nodes :
         /\ accounts[n].budget = planned[n] /\ accounts[n].actual = booked[n]
         /\ accounts[n].variance = rolled[n] /\ accounts[n].impact = Toward[n] * rolled[n]
         /\ accounts[n].favourable = (Toward[n] * rolled[n] >= 0)
  BY AccountFigures DEF planned, booked, rolled
<1> HIDE DEF accounts
<1>11. ASSUME NEW n \in Nodes \ Leaves, NEW amount, NEW f, \A m \in Nodes : f[m] \in Int /\ accounts[m][amount] = f[m]
       PROVE  Signed(Children(n), accounts, amount) = SignedSum(Children(n), f)
  <2>1. PICK g, it : /\ Terms(Children(n), f, g) /\ Adds(Children(n), g, it)
                     /\ SignedSum(Children(n), f) = it[Children(n)]
    BY <1>11, ChildrenFacts, SignedSumOfChildren
  <2>2. g \in [Children(n) -> Int] /\ \A c \in Children(n) : g[c] = Sign[c] * accounts[c][amount]
    BY <1>11, <2>1, ChildrenFacts DEF Terms
  <2>3. Signed(Children(n), accounts, amount) = it[Children(n)]
    BY <2>1, <2>2, ChildrenFacts, SumOfSigned
  <2> QED
    BY <2>1, <2>3
<1>12. ASSUME NEW n \in Nodes \ Leaves
       PROVE  /\ accounts[n].budget = Signed(Children(n), accounts, "budget")
              /\ accounts[n].actual = Signed(Children(n), accounts, "actual")
  <2>1. \A m \in Nodes : accounts[m]["budget"] = planned[m] /\ accounts[m]["actual"] = booked[m]
    BY <1>10
  <2> QED
    BY <1>8, <1>9, <1>10, <1>11, <2>1
<1>13. ASSUME NEW n \in Nodes
       PROVE  /\ accounts[n].variance = accounts[n].actual - accounts[n].budget
              /\ accounts[n].impact = Toward[n] * accounts[n].variance
              /\ accounts[n].favourable = (accounts[n].impact >= 0)
  BY <1>7, <1>10
<1>14. Reconciles(accounts)
  BY <1>12, <1>13 DEF Reconciles, Signed, SumOver, MapThenSumSet, MapThenFoldSet
<1> QED
  BY <1>14 DEF accounts

-----------------------------------------------------------------------------
(* The reports of saved closes.                                            *)

\* A saved report is the one built from the panels saved with it, and they hold
\* every observation it needs; a transaction about to commit has checked that.
Built(r) == /\ saved[r] = Bundle(saved[r].request, saved[r].effective)
            /\ Complete(Of(r), saved[r].effective)
ReportInv ==
  /\ \A t \in Threads : call[t].at = "written" => Complete(Here(t), Panel(All(t), Here(t)))
  /\ \A r \in DOMAIN saved : Built(r)

LEMMA ReportPreserved == IInv /\ ReportInv /\ [Next]_vars => ReportInv'
<1> SUFFICES ASSUME IInv, ReportInv, [Next]_vars PROVE ReportInv'
  OBVIOUS
<1>0. TypeOK /\ HandInv /\ ViewInv
  BY DEF IInv
<1>1. ASSUME NEW t \in Threads, call'[t].at = "written"
      PROVE  Complete(Here(t), Panel(All(t), Here(t)))'
  <2>1. call'[t] = call[t] \/ Begin(t) \/ Writes(t)
    BY <1>0, <1>1, CallSteps DEF Open
  <2>2. CASE call'[t] = call[t]
    <3>1. Here(t)' = Here(t) /\ All(t)' = All(t) /\ call[t].at = "written"
      BY <1>1, <2>2 DEF Here, All
    <3>2. Complete(Here(t), Panel(All(t), Here(t)))
      BY <3>1 DEF ReportInv
    <3> QED
      BY <3>1, <3>2
  <2>3. CASE Begin(t)
    BY <1>0, <1>1, <2>3, BeginEffect
  <2>4. CASE Writes(t)
    <3>1. call[t].request \in Names /\ call[t].view \in Views
      BY <1>0, <2>4 DEF Writes, HandInv, ViewInv, Closing, Working
    <3>2. PICK q, all : /\ q = Here(t)
                        /\ all = call[t].view.stored \cup (Drawn(t, "budget") \cup Drawn(t, "actuals"))
      OBVIOUS
    <3>3. Here(t)' = q /\ All(t)' = all
      BY <1>0, <2>4, <3>1, <3>2, WriteEffect DEF Here, All
    <3>4. Complete(q, Panel(all, q))
      BY <2>4, <3>2 DEF Writes
    <3> QED
      BY <3>3, <3>4
  <2> QED
    BY <2>1, <2>2, <2>3, <2>4
<1>2. ASSUME NEW r \in DOMAIN saved', ~UNCHANGED db PROVE Built(r)'
  <2>1. PICK t \in Threads : Commits(t)
    BY <1>2, OnlyCommits
  <2>2. PICK q, all, n : q = Here(t) /\ all = All(t) /\ n = call[t].run
    OBVIOUS
  <2>3. /\ DOMAIN saved' = DOMAIN saved \cup {n} /\ \A s \in DOMAIN saved : saved'[s] = saved[s]
        /\ call[t].at = "written" /\ q.run = n
        /\ saved'[n].request = call[t].request /\ saved'[n].effective = Panel(all, q)
    BY <1>0, <2>1, <2>2, CommitEffect
  <2>4. saved'[n] = Bundle(call[t].request, Panel(all, q))
    BY <2>1, <2>2, <2>3 DEF Commits
  <2>5. CASE r = n
    <3>1. Of(r)' = q
      BY <2>2, <2>3, <2>5 DEF Of, Here
    <3>2. Complete(q, Panel(all, q))
      BY <2>2, <2>3 DEF ReportInv
    <3> QED
      BY <2>3, <2>4, <2>5, <3>1, <3>2 DEF Built
  <2>6. CASE r # n
    <3>1. r \in DOMAIN saved /\ saved'[r] = saved[r]
      BY <1>2, <2>3, <2>6
    <3>2. Of(r)' = Of(r)
      BY <3>1 DEF Of
    <3> QED
      BY <3>1, <3>2 DEF Built, ReportInv
  <2> QED
    BY <2>5, <2>6
<1>3. ASSUME NEW r \in DOMAIN saved', UNCHANGED db PROVE Built(r)'
  <2>1. saved' = saved
    BY <1>3 DEF db
  <2> QED
    BY <1>3, <2>1 DEF ReportInv, Built, Of
<1> QED
  BY <1>1, <1>2, <1>3 DEF ReportInv

LEMMA ReportInvariant == Spec => []ReportInv
<1>1. Init => ReportInv
  BY DEF Init, ReportInv, Idle
<1> QED
  BY <1>1, ReportPreserved, IInvariant, PTL DEF Spec

\* The panels of a saved close hold whole cents, in every period it needs.
LEMMA SavedAmounts ==
  ASSUME IInv, ReportInv, NEW r \in DOMAIN saved,
         NEW q, q = Of(r), NEW panel, panel = Amounts(saved[r].effective),
         NEW budget, budget = q.budget.rows
  PROVE  /\ q.close \in Periods /\ q.run = r /\ DOMAIN panel = DOMAIN saved[r].effective
         /\ \A k \in DOMAIN panel : panel[k] \in Int
         /\ \A l \in Leaves, p \in Annual(q.close) :
              /\ budget[<<l, p>>] \in Int
              /\ p <= q.close => <<l, p>> \in DOMAIN panel /\ panel[<<l, p>>] \in Int
<1>1. /\ saved[r].request \in Names /\ q.run = r
  BY DEF IInv, TypeOK, Of
<1>2. /\ q.close \in Periods
      /\ \A k \in DOMAIN budget : budget[k] \in Int
      /\ \A x \in Names : \A k \in DOMAIN Requests[x].actuals.rows : Requests[x].actuals.rows[k] \in Int
  BY <1>1, RequestAssumption DEF Of
<1>3. PICK effective : effective = saved[r].effective
  OBVIOUS
<1>4. panel = [k \in DOMAIN effective |-> effective[k].amount]
  BY <1>3, WholeIsItself DEF Amounts
<1>5. PICK basis \in Lookup(stored, "actuals", q.actuals.version) : Traced(q, effective, basis)
  BY <1>3, SourcesByClose DEF IInv, Sourced
<1>6. ASSUME NEW k \in DOMAIN effective PROVE effective[k].amount \in Int
  <2>1. PICK v \in Deltas(stored, q.entity, basis.sequence) :
          k \in DOMAIN Rows(v) /\ Rows(v)[k] = effective[k].amount
    BY <1>5, <1>6 DEF Traced, Explained
  <2>2. v \in Versions /\ v.kind = "actuals"
    BY <2>1 DEF Deltas, OfEntity, IInv, TypeOK
  <2>3. v.of \in Names
    BY <2>2 DEF Versions
  <2> QED
    BY <1>2, <2>1, <2>2, <2>3 DEF Rows
<1>7. DOMAIN panel = DOMAIN effective /\ \A k \in DOMAIN panel : panel[k] \in Int
  BY <1>4, <1>6
<1>8. Complete(q, effective)
  BY <1>3 DEF ReportInv, Built
<1>9. \A l \in Leaves, p \in Annual(q.close) :
        /\ <<l, p>> \in DOMAIN budget
        /\ p <= q.close => <<l, p>> \in DOMAIN effective
  BY <1>8 DEF Complete
<1> QED
  BY <1>1, <1>2, <1>3, <1>7, <1>9

\* A close is in its own year.
LEMMA CloseInYear == \A p \in Periods : p \in Annual(p) /\ p <= p
BY TreeAssumption DEF Periods, Annual

\* The accounts of a saved close tie.
LEMMA SavedTies ==
  ASSUME IInv, ReportInv, NEW r \in DOMAIN saved
  PROVE  Ties(saved[r].report.accounts)
<1>1. PICK q, panel, budget, close :
        /\ q = Of(r) /\ panel = Amounts(saved[r].effective) /\ budget = q.budget.rows
        /\ close = q.close
  OBVIOUS
<1>2. close \in Periods
  BY <1>1, SavedAmounts
<1>3. \A l \in Leaves : budget[<<l, close>>] \in Int /\ panel[<<l, close>>] \in Int
  BY <1>1, <1>2, CloseInYear, SavedAmounts
<1>4. saved[r].report.accounts = Accounts(budget, panel, close)
  BY <1>1 DEF ReportInv, Built, Bundle, BoardPack, Of
<1>5. PICK accounts : accounts = Accounts(budget, panel, close)
  OBVIOUS
<1>6. Reconciles(accounts)
  BY <1>2, <1>3, <1>5, ReportsReconcile
<1>7. \A l \in Leaves : l \in Nodes /\ accounts[l].budget = budget[<<l, close>>]
                                    /\ accounts[l].actual = panel[<<l, close>>]
  <2>1. PICK w : w = [l \in Leaves |-> budget[<<l, close>>]]
    OBVIOUS
  <2>2. PICK x : x = [l \in Leaves |-> panel[<<l, close>>]]
    OBVIOUS
  <2>3. RollUp(w, Totals(budget, close)) /\ RollUp(x, Totals(panel, close))
    BY <1>3, <2>1, <2>2, TotalsRollUp
  <2>4. \A l \in Leaves : w[l] \in Int /\ x[l] \in Int
    BY <1>3, <2>1, <2>2
  <2>5. \A l \in Leaves : /\ Totals(budget, close)[l] = w[l]
                          /\ Totals(panel, close)[l] = x[l]
    BY <2>3, <2>4, RollUpTyped
  <2>6. \A l \in Leaves : l \in Nodes
    BY DEF Leaves
  <2> QED
    BY <1>2, <1>5, <2>1, <2>2, <2>5, <2>6, AccountFigures
<1>8. \A l \in Leaves : accounts[l].budget \in Int /\ accounts[l].actual \in Int
  BY <1>3, <1>7
<1>9. Ties(accounts)
  BY <1>6, <1>8, ReconciledAccountsTie
<1> QED
  BY <1>4, <1>5, <1>9

\* A saved close stands, both halves together: what it used is what the store
\* still gives for its version, and its accounts tie over the whole tree, for
\* every tree, every panel of whole cents and any number of connections.
THEOREM SavedClosesStand == Spec => []SavedCloseStands
<1>1. IInv /\ ReportInv /\ SourcesStand => SavedCloseStands
  BY SavedTies DEF SourcesStand, SavedCloseStands
<1> QED
  BY <1>1, IInvariant, ReportInvariant, SourcesStayBehindCloses, PTL

-----------------------------------------------------------------------------
(* The year in a report, and validate_bundle.                              *)

\* Sums over periods: of a series, of a column of totals kept by period, of
\* totals looked up again.
OfSeries(S, f) == SumOver(S, LAMBDA p : f[p])
OfTable(S, b, n) == SumOver(S, LAMBDA p : b[p][n])
OfPanel(S, panel, n) == SumOver(S, LAMBDA p : Totals(panel, p)[n])

LEMMA SeriesAdds ==
  ASSUME NEW S, IsFiniteSet(S), NEW g \in [S -> Int], NEW it, Adds(S, g, it),
         NEW f, \A p \in S : f[p] = g[p]
  PROVE  OfSeries(S, f) = it[S]
<1> DEFINE Eq(j) == j = [s \in SUBSET S |-> IF s = {} THEN 0
                          ELSE f[CHOOSE y \in s : TRUE] + j[s \ {CHOOSE y \in s : TRUE}]]
           iter == CHOOSE j : Eq(j)
<1>1. PICK j : Iterates(S, g, j)
  BY IterationExists
<1>2. \A k : Eq(k) <=> Iterates(S, g, k)
  <2>1. \A s \in SUBSET S : s # {} => f[Taken(s)] = g[Taken(s)]
    BY TakenIn
  <2> SUFFICES ASSUME NEW k PROVE Eq(k) <=> Iterates(S, g, k)
    OBVIOUS
  <2> QED
    BY <2>1 DEF Iterates, Taken
<1>3. Eq(iter)
  <2> HIDE DEF Eq
  <2> QED
    BY <1>1, <1>2
<1>4. iter[S] = it[S]
  <2> HIDE DEF Eq, iter
  <2> QED
    BY <1>2, <1>3, IterationAdds, AddsOnce
<1> QED
  BY <1>4 DEF OfSeries, SumOver, MapThenSumSet, MapThenFoldSet

LEMMA TableAdds ==
  ASSUME NEW S, IsFiniteSet(S), NEW g \in [S -> Int], NEW it, Adds(S, g, it),
         NEW b, NEW n, \A p \in S : b[p][n] = g[p]
  PROVE  OfTable(S, b, n) = it[S]
<1> DEFINE Eq(j) == j = [s \in SUBSET S |-> IF s = {} THEN 0
                          ELSE b[CHOOSE y \in s : TRUE][n] + j[s \ {CHOOSE y \in s : TRUE}]]
           iter == CHOOSE j : Eq(j)
<1>1. PICK j : Iterates(S, g, j)
  BY IterationExists
<1>2. \A k : Eq(k) <=> Iterates(S, g, k)
  <2>1. \A s \in SUBSET S : s # {} => b[Taken(s)][n] = g[Taken(s)]
    BY TakenIn
  <2> SUFFICES ASSUME NEW k PROVE Eq(k) <=> Iterates(S, g, k)
    OBVIOUS
  <2> QED
    BY <2>1 DEF Iterates, Taken
<1>3. Eq(iter)
  <2> HIDE DEF Eq
  <2> QED
    BY <1>1, <1>2
<1>4. iter[S] = it[S]
  <2> HIDE DEF Eq, iter
  <2> QED
    BY <1>2, <1>3, IterationAdds, AddsOnce
<1> QED
  BY <1>4 DEF OfTable, SumOver, MapThenSumSet, MapThenFoldSet

LEMMA PanelAdds ==
  ASSUME NEW S, IsFiniteSet(S), NEW g \in [S -> Int], NEW it, Adds(S, g, it),
         NEW panel, NEW n, \A p \in S : Totals(panel, p)[n] = g[p]
  PROVE  OfPanel(S, panel, n) = it[S]
<1> DEFINE Eq(j) == j = [s \in SUBSET S |-> IF s = {} THEN 0
                          ELSE Totals(panel, CHOOSE y \in s : TRUE)[n]
                               + j[s \ {CHOOSE y \in s : TRUE}]]
           iter == CHOOSE j : Eq(j)
<1>1. PICK j : Iterates(S, g, j)
  BY IterationExists
<1>2. \A k : Eq(k) <=> Iterates(S, g, k)
  <2>1. \A s \in SUBSET S : s # {} => Totals(panel, Taken(s))[n] = g[Taken(s)]
    BY TakenIn
  <2> SUFFICES ASSUME NEW k PROVE Eq(k) <=> Iterates(S, g, k)
    OBVIOUS
  <2> QED
    BY <2>1 DEF Iterates, Taken
<1>3. Eq(iter)
  <2> HIDE DEF Eq
  <2> QED
    BY <1>1, <1>2
<1>4. iter[S] = it[S]
  <2> HIDE DEF Eq, iter
  <2> QED
    BY <1>2, <1>3, IterationAdds, AddsOnce
<1> QED
  BY <1>4 DEF OfPanel, SumOver, MapThenSumSet, MapThenFoldSet

LEMMA YearIsFinite ==
  ASSUME NEW close
  PROVE  IsFiniteSet(Annual(close)) /\ IsFiniteSet({p \in Annual(close) : p <= close})
<1>1. IsFiniteSet(Periods)
  BY TreeAssumption, FS_Interval DEF Periods
<1>2. Annual(close) \subseteq Periods /\ {p \in Annual(close) : p <= close} \subseteq Periods
  BY DEF Annual
<1> QED
  BY <1>1, <1>2, FS_Subset

\* reforecast publishes the amounts of the forecast, whatever it withholds.
LEMMA PublishableKeeps ==
  ASSUME NEW forecast, forecast.held \in BOOLEAN, forecast.closed \in BOOLEAN,
         ~(forecast.held /\ forecast.closed), NEW persistence
  PROVE  /\ Publishable(forecast, persistence).ytd = forecast.ytd
         /\ Publishable(forecast, persistence).target = forecast.target
<1>1. CASE forecast.held
  BY <1>1 DEF Publishable
<1>2. CASE forecast.closed /\ ~forecast.held
  BY <1>2 DEF Publishable
<1>3. CASE ~forecast.closed /\ ~forecast.held
  BY <1>3 DEF Publishable
<1> QED
  BY <1>1, <1>2, <1>3

LEMMA ForecastKeeps ==
  ASSUME NEW ytd, NEW phasing, NEW elapsed, NEW series, NEW toward, NEW persistence
  PROVE  LET f == Publishable(Forecast(ytd, phasing, elapsed, series, toward, persistence), persistence)
         IN  f.ytd = ytd /\ f.target = OfSeries(DOMAIN phasing, phasing)
<1> DEFINE f == Forecast(ytd, phasing, elapsed, series, toward, persistence)
<1>1. f.ytd = ytd /\ f.target = OfSeries(DOMAIN phasing, phasing)
  BY DEF Forecast, OfSeries
<1>2. f.held \in BOOLEAN /\ f.closed \in BOOLEAN /\ ~(f.held /\ f.closed)
  BY DEF Forecast
<1> HIDE DEF f
<1>3. /\ Publishable(f, persistence).ytd = f.ytd
      /\ Publishable(f, persistence).target = f.target
  BY <1>2, PublishableKeeps
<1> QED
  BY <1>1, <1>3 DEF f

\* A total of whole amounts is whole.
LEMMA TotalsWhole ==
  ASSUME NEW panel, NEW p, \A l \in Leaves : panel[<<l, p>>] \in Int
  PROVE  \A n \in Nodes : Totals(panel, p)[n] \in Int
<1>1. PICK w : w = [l \in Leaves |-> panel[<<l, p>>]]
  OBVIOUS
<1>2. \A l \in Leaves : w[l] = panel[<<l, p>>] /\ w[l] \in Int
  BY <1>1
<1> QED
  BY <1>2, TotalsRollUp, RollUpTyped

LEMMA SameYear ==
  ASSUME NEW S, IsFiniteSet(S), NEW panel, NEW n \in Nodes,
         \A p \in S, l \in Leaves : panel[<<l, p>>] \in Int
  PROVE  /\ \A b : (\A p \in S : b[p] = Totals(panel, p)) => OfTable(S, b, n) = OfPanel(S, panel, n)
         /\ \A f : (\A p \in S : f[p] = Totals(panel, p)[n]) => OfSeries(S, f) = OfPanel(S, panel, n)
<1>1. PICK g : g = [p \in S |-> Totals(panel, p)[n]]
  OBVIOUS
<1>2. \A p \in S : Totals(panel, p)[n] \in Int
  BY TotalsWhole
<1>3. g \in [S -> Int] /\ \A p \in S : g[p] = Totals(panel, p)[n]
  BY <1>1, <1>2
<1>4. PICK it : Adds(S, g, it)
  BY <1>3, AdderExists
<1>5. OfPanel(S, panel, n) = it[S]
  BY <1>3, <1>4, PanelAdds
<1>6. ASSUME NEW b, \A p \in S : b[p] = Totals(panel, p) PROVE OfTable(S, b, n) = it[S]
  BY <1>3, <1>4, <1>6, TableAdds
<1>7. ASSUME NEW f, \A p \in S : f[p] = Totals(panel, p)[n] PROVE OfSeries(S, f) = it[S]
  BY <1>3, <1>4, <1>7, SeriesAdds
<1> QED
  BY <1>5, <1>6, <1>7

\* The year of a report is that of its panels.
LEMMA YearFigures ==
  ASSUME NEW budget, NEW actual, NEW close, NEW n \in Nodes,
         NEW elapsed, elapsed = {p \in Annual(close) : p <= close},
         \A l \in Leaves, p \in Annual(close) : budget[<<l, p>>] \in Int,
         \A l \in Leaves, p \in elapsed : actual[<<l, p>>] \in Int
  PROVE  LET forecast == Accounts(budget, actual, close)[n].forecast IN
         /\ forecast.ytd = OfPanel(elapsed, actual, n)
         /\ forecast.target = OfPanel(Annual(close), budget, n)
<1> DEFINE history == History(budget, actual, close)
           sofar == {p \in Annual(close) : p <= close}
           planned == Whole([p \in history \cup Annual(close) |-> Totals(budget, p)])
           booked  == Whole([p \in history \cup sofar |-> Totals(actual, p)])
           phasing == [p \in Annual(close) |-> planned[p][n]]
           series == Whole([p \in history \cup {close} |-> booked[p][n] - planned[p][n]])
           held == Persistence(series, close, Gaps(history, close))
           ytd == OfTable(sofar, booked, n)
           forecast == Accounts(budget, actual, close)[n].forecast
<1>1. forecast.ytd = ytd /\ forecast.target = OfSeries(Annual(close), phasing)
  <2>1. forecast = Publishable(Forecast(ytd, phasing, sofar, series, Toward[n], held), held)
    BY DEF Accounts, OfTable
  <2>2. DOMAIN phasing = Annual(close)
    OBVIOUS
  <2> HIDE DEF series, held, phasing, ytd, forecast
  <2> QED
    BY <2>1, <2>2, ForecastKeeps
<1>2. /\ \A p \in Annual(close) : planned[p] = Totals(budget, p)
      /\ \A p \in sofar : booked[p] = Totals(actual, p)
  BY WholeIsItself
<1>3. \A p \in Annual(close) : phasing[p] = Totals(budget, p)[n]
  BY <1>2
<1>4. IsFiniteSet(Annual(close)) /\ IsFiniteSet(sofar) /\ sofar = elapsed
  BY YearIsFinite
<1> HIDE DEF planned, booked, phasing, forecast, sofar
<1>5. OfTable(sofar, booked, n) = OfPanel(sofar, actual, n)
  BY <1>2, <1>4, SameYear
<1>6. OfSeries(Annual(close), phasing) = OfPanel(Annual(close), budget, n)
  BY <1>3, <1>4, SameYear
<1> QED
  BY <1>1, <1>4, <1>5, <1>6 DEF forecast

\* The latest version of a saved panel is the request's own.
LEMMA OwnRowsEffective ==
  ASSUME IInv, NEW r \in DOMAIN saved
  PROVE  \A k \in DOMAIN Of(r).actuals.rows :
           k \in DOMAIN saved[r].effective /\ saved[r].effective[k].amount = Of(r).actuals.rows[k]
<1>1. PICK q, effective : q = Of(r) /\ effective = saved[r].effective
  OBVIOUS
<1>2. PICK basis \in Lookup(stored, "actuals", q.actuals.version) : Traced(q, effective, basis)
  BY <1>1, SourcesByClose DEF IInv, Sourced
<1>3. PICK deltas : deltas = Deltas(stored, q.entity, basis.sequence)
  OBVIOUS
<1>4. \A v \in deltas : v \in stored /\ v.sequence \in Nat /\ v.sequence <= basis.sequence
  BY <1>3 DEF Deltas, OfEntity, IInv, TypeOK, Versions
<1>5. basis \in stored /\ basis.sequence \in Nat
  BY <1>2 DEF Lookup, IInv, TypeOK, Versions
<1>6. basis \in deltas
  BY <1>2, <1>3, <1>5 DEF Lookup, Deltas, OfEntity, Traced
<1>7. Explained(effective, deltas) /\ Rows(basis) = q.actuals.rows
  BY <1>2, <1>3 DEF Traced
<1>8. ASSUME NEW k \in DOMAIN Rows(basis)
      PROVE  k \in DOMAIN effective /\ effective[k].amount = Rows(basis)[k]
  <2>1. k \in DOMAIN effective
    BY <1>6, <1>7, <1>8 DEF Explained
  <2>2. PICK v \in deltas :
          /\ Rows(v)[k] = effective[k].amount
          /\ \A w \in deltas : w.sequence > v.sequence => k \notin DOMAIN Rows(w)
    BY <1>7, <2>1 DEF Explained
  <2>3. v.sequence = basis.sequence
    BY <1>4, <1>5, <1>6, <1>8, <2>2
  <2>4. v = basis
    BY <1>4, <1>5, <2>3 DEF IInv, StoreInv
  <2> QED
    BY <2>1, <2>2, <2>4
<1> QED
  BY <1>1, <1>7, <1>8

LEMMA SavedValidates ==
  ASSUME IInv, ReportInv, NEW r \in DOMAIN saved
  PROVE  Validates(r, saved[r])
<1>1. PICK q, panel, rows, close, elapsed :
        /\ q = Of(r) /\ panel = Amounts(saved[r].effective) /\ rows = q.budget.rows
        /\ close = q.close /\ elapsed = {p \in Annual(close) : p <= close}
  OBVIOUS
<1>2. /\ close \in Periods /\ q.run = r /\ DOMAIN panel = DOMAIN saved[r].effective
      /\ \A l \in Leaves, p \in Annual(close) : rows[<<l, p>>] \in Int
      /\ \A l \in Leaves, p \in elapsed : panel[<<l, p>>] \in Int
  BY <1>1, SavedAmounts
<1>3. PICK accounts : accounts = Accounts(rows, panel, close)
  OBVIOUS
<1>4. saved[r].report.accounts = accounts /\ saved[r].report.claims = Claims(accounts)
  BY <1>1, <1>3 DEF ReportInv, Built, Bundle, BoardPack, Of
<1>5. close \in elapsed /\ close \in Annual(close)
  BY <1>1, <1>2, CloseInYear
<1>6. Reconciles(accounts)
  BY <1>2, <1>3, <1>5, ReportsReconcile
<1>7. \A k \in DOMAIN q.actuals.rows : k \in DOMAIN panel /\ panel[k] = q.actuals.rows[k]
  <2>1. \A k \in DOMAIN panel : panel[k] = saved[r].effective[k].amount
    BY <1>1, WholeIsItself DEF Amounts
  <2> QED
    BY <1>1, <1>2, <2>1, OwnRowsEffective
<1>8. ASSUME NEW n \in Nodes
      PROVE  /\ accounts[n].budget = Totals(rows, close)[n]
             /\ accounts[n].actual = Totals(panel, close)[n]
             /\ accounts[n].forecast.ytd = OfPanel(elapsed, panel, n)
             /\ accounts[n].forecast.target = OfPanel(Annual(close), rows, n)
  <2>1. /\ accounts[n].budget = Totals(rows, close)[n]
        /\ accounts[n].actual = Totals(panel, close)[n]
    BY <1>2, <1>3, AccountFigures
  <2> QED
    BY <1>1, <1>2, <1>3, <2>1, YearFigures
<1>9. Validates(r, saved[r])
      <=> /\ Of(r).run = r
          /\ \A k \in DOMAIN Of(r).actuals.rows :
               /\ k \in DOMAIN Amounts(saved[r].effective)
               /\ Amounts(saved[r].effective)[k] = Of(r).actuals.rows[k]
          /\ Reconciles(saved[r].report.accounts)
          /\ saved[r].report.claims = Claims(saved[r].report.accounts)
          /\ \A n \in Nodes :
               /\ saved[r].report.accounts[n].budget = Totals(Of(r).budget.rows, Of(r).close)[n]
               /\ saved[r].report.accounts[n].actual
                  = Totals(Amounts(saved[r].effective), Of(r).close)[n]
               /\ saved[r].report.accounts[n].forecast.ytd
                  = OfPanel({p \in Annual(Of(r).close) : p <= Of(r).close},
                            Amounts(saved[r].effective), n)
               /\ saved[r].report.accounts[n].forecast.target
                  = OfPanel(Annual(Of(r).close), Of(r).budget.rows, n)
  BY DEF Validates, OfPanel, Of
<1> QED
  BY <1>1, <1>2, <1>4, <1>6, <1>7, <1>8, <1>9

\* validate_bundle accepts every saved close, so no export ever fails on the
\* database's own data: its latest rows are the request's, its figures those of
\* the panels saved with it (report.py).
SavedReportsValidate == \A r \in DOMAIN saved : Validates(r, saved[r])
THEOREM SavedClosesValidate == Spec => []SavedReportsValidate
<1>1. IInv /\ ReportInv => SavedReportsValidate
  BY SavedValidates DEF SavedReportsValidate
<1> QED
  BY <1>1, IInvariant, ReportInvariant, PTL

-----------------------------------------------------------------------------
(* A basket of products, of any size.                                      *)

OfVolumes(S, basket, side) == SumOver(S, LAMBDA x : basket[x][side].volume)
OfVariances(S, basket) == SumOver(S, LAMBDA x : Variance(basket[x].budget, basket[x].actual))
OfEffects(S, basket, planned, sold, driver) ==
  SumOver(S, LAMBDA x : Effects(basket[x], planned, sold)[driver])

LEMMA VolumesAdd ==
  ASSUME NEW S, IsFiniteSet(S), NEW g \in [S -> Int], NEW it, Adds(S, g, it),
         NEW basket, NEW side, \A x \in S : basket[x][side].volume = g[x]
  PROVE  OfVolumes(S, basket, side) = it[S]
<1> DEFINE Eq(j) == j = [s \in SUBSET S |-> IF s = {} THEN 0
                          ELSE basket[CHOOSE y \in s : TRUE][side].volume
                               + j[s \ {CHOOSE y \in s : TRUE}]]
           iter == CHOOSE j : Eq(j)
<1>1. PICK j : Iterates(S, g, j)
  BY IterationExists
<1>2. \A k : Eq(k) <=> Iterates(S, g, k)
  <2>1. \A s \in SUBSET S : s # {} => basket[Taken(s)][side].volume = g[Taken(s)]
    BY TakenIn
  <2> SUFFICES ASSUME NEW k PROVE Eq(k) <=> Iterates(S, g, k)
    OBVIOUS
  <2> QED
    BY <2>1 DEF Iterates, Taken
<1>3. Eq(iter)
  <2> HIDE DEF Eq
  <2> QED
    BY <1>1, <1>2
<1>4. iter[S] = it[S]
  <2> HIDE DEF Eq, iter
  <2> QED
    BY <1>2, <1>3, IterationAdds, AddsOnce
<1> QED
  BY <1>4 DEF OfVolumes, SumOver, MapThenSumSet, MapThenFoldSet

LEMMA VariancesAdd ==
  ASSUME NEW S, IsFiniteSet(S), NEW g \in [S -> Int], NEW it, Adds(S, g, it),
         NEW basket, \A x \in S : Variance(basket[x].budget, basket[x].actual) = g[x]
  PROVE  OfVariances(S, basket) = it[S]
<1> DEFINE Eq(j) == j = [s \in SUBSET S |-> IF s = {} THEN 0
                          ELSE Variance(basket[CHOOSE y \in s : TRUE].budget,
                                        basket[CHOOSE y \in s : TRUE].actual)
                               + j[s \ {CHOOSE y \in s : TRUE}]]
           iter == CHOOSE j : Eq(j)
<1>1. PICK j : Iterates(S, g, j)
  BY IterationExists
<1>2. \A k : Eq(k) <=> Iterates(S, g, k)
  <2>1. \A s \in SUBSET S : s # {} => Variance(basket[Taken(s)].budget, basket[Taken(s)].actual) = g[Taken(s)]
    BY TakenIn
  <2> SUFFICES ASSUME NEW k PROVE Eq(k) <=> Iterates(S, g, k)
    OBVIOUS
  <2> QED
    BY <2>1 DEF Iterates, Taken
<1>3. Eq(iter)
  <2> HIDE DEF Eq
  <2> QED
    BY <1>1, <1>2
<1>4. iter[S] = it[S]
  <2> HIDE DEF Eq, iter
  <2> QED
    BY <1>2, <1>3, IterationAdds, AddsOnce
<1> QED
  BY <1>4 DEF OfVariances, SumOver, MapThenSumSet, MapThenFoldSet

LEMMA EffectsAdd ==
  ASSUME NEW S, IsFiniteSet(S), NEW g \in [S -> Int], NEW it, Adds(S, g, it),
         NEW basket, NEW planned, NEW sold, NEW driver,
         \A x \in S : Effects(basket[x], planned, sold)[driver] = g[x]
  PROVE  OfEffects(S, basket, planned, sold, driver) = it[S]
<1> DEFINE Eq(j) == j = [s \in SUBSET S |-> IF s = {} THEN 0
                          ELSE Effects(basket[CHOOSE y \in s : TRUE], planned, sold)[driver]
                               + j[s \ {CHOOSE y \in s : TRUE}]]
           iter == CHOOSE j : Eq(j)
<1>1. PICK j : Iterates(S, g, j)
  BY IterationExists
<1>2. \A k : Eq(k) <=> Iterates(S, g, k)
  <2>1. \A s \in SUBSET S : s # {} => Effects(basket[Taken(s)], planned, sold)[driver] = g[Taken(s)]
    BY TakenIn
  <2> SUFFICES ASSUME NEW k PROVE Eq(k) <=> Iterates(S, g, k)
    OBVIOUS
  <2> QED
    BY <2>1 DEF Iterates, Taken
<1>3. Eq(iter)
  <2> HIDE DEF Eq
  <2> QED
    BY <1>1, <1>2
<1>4. iter[S] = it[S]
  <2> HIDE DEF Eq, iter
  <2> QED
    BY <1>2, <1>3, IterationAdds, AddsOnce
<1> QED
  BY <1>4 DEF OfEffects, SumOver, MapThenSumSet, MapThenFoldSet

\* A sum is bounded by its number of summands.
LEMMA AddsBounded ==
  ASSUME NEW S, IsFiniteSet(S), NEW g \in [S -> Int], NEW it, Adds(S, g, it),
         NEW lo \in Int, NEW hi \in Int, \A x \in S : lo <= g[x] /\ g[x] <= hi
  PROVE  lo * Cardinality(S) <= it[S] /\ it[S] <= hi * Cardinality(S)
<1> DEFINE P == {s \in SUBSET S : lo * Cardinality(s) <= it[s] /\ it[s] <= hi * Cardinality(s)}
<1>1. ASSUME NEW s \in SUBSET S, \A x \in s : s \ {x} \in P PROVE s \in P
  <2>1. CASE s = {}
    <3>1. Cardinality(s) = 0 /\ it[s] = 0
      BY <2>1, FS_EmptySet DEF Adds
    <3> QED
      BY <3>1
  <2>2. CASE s # {}
    <3>1. PICK x \in s : TRUE
      BY <2>2
    <3>2. PICK n, m, a, i : n = Cardinality(s) /\ m = Cardinality(s \ {x}) /\ a = g[x]
                            /\ i = it[s \ {x}]
      OBVIOUS
    <3>3. n \in Nat /\ m = n - 1
      BY <3>1, <3>2, FS_Subset, FS_CardinalityType, FS_RemoveElement
    <3>4. it[s] = a + i /\ a \in Int /\ i \in Int
      <4>1. s \ {x} \in SUBSET S
        OBVIOUS
      <4> QED
        BY <3>1, <3>2, <4>1 DEF Adds
    <3>5. lo <= a /\ a <= hi /\ lo * m <= i /\ i <= hi * m
      BY <1>1, <3>1, <3>2
    <3>6. lo * n = lo * m + lo /\ hi * n = hi * m + hi /\ lo * m \in Int /\ hi * m \in Int
      BY <3>3
    <3>7. lo * n <= it[s] /\ it[s] <= hi * n
      BY <3>4, <3>5, <3>6
    <3> QED
      BY <3>2, <3>7
  <2> QED
    BY <2>1, <2>2
<1> HIDE DEF P
<1>2. \A s \in SUBSET S : s \in P
  BY <1>1, SetInduction
<1>3. S \in P
  BY <1>2
<1> QED
  BY <1>3 DEF P

\* A sum of naturals is one.
LEMMA AddsNatural ==
  ASSUME NEW S, IsFiniteSet(S), NEW g, NEW it, Adds(S, g, it),
         \A x \in S : g[x] \in Int /\ 0 <= g[x]
  PROVE  it[S] \in Nat
<1> DEFINE P == {s \in SUBSET S : 0 <= it[s]}
<1>1. ASSUME NEW s \in SUBSET S, \A x \in s : s \ {x} \in P PROVE s \in P
  <2>1. CASE s = {}
    BY <2>1 DEF Adds
  <2>2. CASE s # {}
    <3>1. PICK x \in s : TRUE
      BY <2>2
    <3>2. PICK a, i : a = g[x] /\ i = it[s \ {x}] /\ a \in Int /\ 0 <= a
      OBVIOUS
    <3>3. s \ {x} \in SUBSET S /\ 0 <= i
      BY <1>1, <3>2
    <3>4. i \in Int /\ it[s] = a + i
      BY <3>1, <3>2, <3>3 DEF Adds
    <3> QED
      BY <3>2, <3>3, <3>4
  <2> QED
    BY <2>1, <2>2
<1> HIDE DEF P
<1>2. \A s \in SUBSET S : s \in P
  BY <1>1, SetInduction
<1>3. S \in P
  BY <1>2
<1> QED
  BY <1>3 DEF P, Adds

\* A basket as decompose_multiproduct takes one: some products, each with a
\* factor and a volume on both sides, and something planned.
Basketful(type, basket) ==
  /\ type \in {"revenue", "variable_cost"}
  /\ IsFiniteSet(DOMAIN basket) /\ DOMAIN basket # {}
  /\ \A x \in DOMAIN basket : basket[x].budget \in Quantities /\ basket[x].actual \in Quantities
  /\ Volume(basket, "budget") # 0

LEMMA VolumesCounted ==
  ASSUME NEW basket, IsFiniteSet(DOMAIN basket), NEW side,
         \A x \in DOMAIN basket : basket[x][side] \in Quantities
  PROVE  Volume(basket, side) \in Nat
<1> DEFINE S == DOMAIN basket
<1>1. PICK g : g = [x \in S |-> basket[x][side].volume]
  OBVIOUS
<1>2. \A x \in S : basket[x][side].volume \in Nat
  BY DEF Quantities
<1>3. g \in [S -> Int] /\ (\A x \in S : 0 <= g[x] /\ basket[x][side].volume = g[x])
  BY <1>1, <1>2
<1>4. PICK it : Adds(S, g, it)
  BY <1>3, AdderExists
<1>5. OfVolumes(S, basket, side) = it[S]
  BY <1>3, <1>4, VolumesAdd
<1>6. it[S] \in Nat
  BY <1>3, <1>4, AddsNatural
<1> QED
  BY <1>5, <1>6 DEF Volume, OfVolumes

\* A product's figures are whole cents, and leave over what Basket allows it.
LEMMA EffectsTyped ==
  ASSUME NEW product, product.budget \in Quantities, product.actual \in Quantities,
         NEW planned \in Nat \ {0}, NEW sold \in Nat
  PROVE  LET effects == Effects(product, planned, sold)
         IN  /\ Variance(product.budget, product.actual) \in Int
             /\ effects["factor"] \in Int /\ effects["volume"] \in Int /\ effects["mix"] \in Int
<1>1. \A n \in Int : Money(n) \in Int
  BY MoneyNearest DEF Near
<1>2. \A n \in Int : Round(n, Unit * planned) \in Int
  BY RoundNearest, UnitAssumption DEF Near
<1>3. /\ product.budget.factor \in Nat /\ product.budget.volume \in Nat
      /\ product.actual.factor \in Nat /\ product.actual.volume \in Nat
  BY SidesTyped
<1>4. Variance(product.budget, product.actual) \in Int
  BY <1>1, <1>3 DEF Variance, Extended
<1>5. Effects(product, planned, sold)["factor"] \in Int
  BY <1>1, <1>3 DEF Effects
<1>6. Effects(product, planned, sold)["volume"] \in Int
  <2>1. (sold - planned) * product.budget.volume * product.budget.factor \in Int
    BY <1>3
  <2> QED  BY <1>2, <2>1 DEF Effects
<1>7. Effects(product, planned, sold)["mix"] \in Int
  <2>1. (product.actual.volume * planned - sold * product.budget.volume) * product.budget.factor \in Int
    BY <1>3
  <2> QED  BY <1>2, <2>1 DEF Effects
<1> QED
  BY <1>4, <1>5, <1>6, <1>7

\* So decompose_multiproduct never refuses a basket for its residual, however
\* many products it has, and the drivers of a report, with the residual shown
\* beside them, are its variance.
THEOREM BasketTies ==
  ASSUME NEW type, NEW basket, Basketful(type, basket)
  PROVE  LET whole == Basket(type, basket)
         IN  /\ ~whole.refused
             /\ whole.drivers["factor"] + whole.drivers["volume"] + whole.drivers["mix"]
                + whole.residual = whole.total
<1> DEFINE S == DOMAIN basket
           planned == Volume(basket, "budget")
           sold == Volume(basket, "actual")
           n == Cardinality(S)
<1>1. planned \in Nat \ {0} /\ sold \in Nat
  BY VolumesCounted DEF Basketful
<1>2. /\ IsFiniteSet(S) /\ S # {} /\ n \in Nat
      /\ type # "fixed_cost"
      /\ \A x \in S : basket[x].budget \in Quantities /\ basket[x].actual \in Quantities
  BY FS_CardinalityType DEF Basketful
<1> HIDE DEF planned, sold, n
<1>3. PICK v, f, u, m, a, b, d :
        /\ v = [x \in S |-> Variance(basket[x].budget, basket[x].actual)]
        /\ f = [x \in S |-> Effects(basket[x], planned, sold)["factor"]]
        /\ u = [x \in S |-> Effects(basket[x], planned, sold)["volume"]]
        /\ m = [x \in S |-> Effects(basket[x], planned, sold)["mix"]]
        /\ a = [x \in S |-> v[x] - f[x]]
        /\ b = [x \in S |-> a[x] - u[x]]
        /\ d = [x \in S |-> b[x] - m[x]]
  OBVIOUS
<1>4. \A x \in S : /\ v[x] = Variance(basket[x].budget, basket[x].actual)
                   /\ f[x] = Effects(basket[x], planned, sold)["factor"]
                   /\ u[x] = Effects(basket[x], planned, sold)["volume"]
                   /\ m[x] = Effects(basket[x], planned, sold)["mix"]
                   /\ a[x] = v[x] - f[x] /\ b[x] = a[x] - u[x] /\ d[x] = b[x] - m[x]
  BY <1>3
<1>5. \A x \in S : v[x] \in Int /\ f[x] \in Int /\ u[x] \in Int /\ m[x] \in Int
  BY <1>1, <1>2, <1>4, EffectsTyped
<1>6. \A x \in S : a[x] \in Int /\ b[x] \in Int /\ d[x] \in Int
  BY <1>4, <1>5
<1>7. /\ v \in [S -> Int] /\ f \in [S -> Int] /\ u \in [S -> Int] /\ m \in [S -> Int]
      /\ d \in [S -> Int]
  BY <1>3, <1>5, <1>6
<1>8. PICK iv, jf, iu, im : Adds(S, v, iv) /\ Adds(S, f, jf) /\ Adds(S, u, iu) /\ Adds(S, m, im)
  BY <1>2, <1>7, AdderExists
<1>9. Differs(S, v, f, a) /\ Differs(S, a, u, b) /\ Differs(S, b, m, d)
  BY <1>4, <1>5, <1>6 DEF Differs
<1>10. PICK ia, ib, id : /\ Adds(S, d, id)
                         /\ ia = Less(S, iv, jf) /\ ib = Less(S, ia, iu) /\ id = Less(S, ib, im)
  BY <1>8, <1>9, AddsDifference
<1>11. /\ iv[S] \in Int /\ jf[S] \in Int /\ iu[S] \in Int /\ im[S] \in Int
  BY <1>8 DEF Adds
<1>12. id[S] = iv[S] - jf[S] - iu[S] - im[S]
  BY <1>10 DEF Less
<1>13. \A x \in S : -2 <= d[x] /\ d[x] <= 2
  <2> SUFFICES ASSUME NEW x \in S PROVE -2 <= d[x] /\ d[x] <= 2
    OBVIOUS
  <2>1. ProductResidual(basket[x], planned, sold) \in -2..2
    BY <1>1, <1>2, ProductWithinTolerance DEF ProductTolerance
  <2>2. ProductResidual(basket[x], planned, sold) = v[x] - (f[x] + u[x] + m[x])
    BY <1>4 DEF ProductResidual
  <2>3. d[x] = v[x] - (f[x] + u[x] + m[x])
    BY <1>4, <1>5
  <2> QED
    BY <2>1, <2>2, <2>3
<1>14. -2 * n <= id[S] /\ id[S] <= 2 * n
  BY <1>2, <1>7, <1>10, <1>13, AddsBounded DEF n
<1>15. /\ OfVariances(S, basket) = iv[S]
       /\ OfEffects(S, basket, planned, sold, "factor") = jf[S]
       /\ OfEffects(S, basket, planned, sold, "volume") = iu[S]
       /\ OfEffects(S, basket, planned, sold, "mix") = im[S]
  <2> HIDE DEF S
  <2>1. OfVariances(S, basket) = iv[S]
    BY <1>2, <1>4, <1>7, <1>8, VariancesAdd
  <2>2. OfEffects(S, basket, planned, sold, "factor") = jf[S]
    BY <1>2, <1>4, <1>7, <1>8, EffectsAdd
  <2>3. OfEffects(S, basket, planned, sold, "volume") = iu[S]
    BY <1>2, <1>4, <1>7, <1>8, EffectsAdd
  <2>4. OfEffects(S, basket, planned, sold, "mix") = im[S]
    BY <1>2, <1>4, <1>7, <1>8, EffectsAdd
  <2> QED
    BY <2>1, <2>2, <2>3, <2>4
<1>16. PICK r : r = iv[S] - (jf[S] + iu[S] + im[S])
  OBVIOUS
<1>17. ~(Abs(r) > ProductTolerance * n)
  BY <1>2, <1>11, <1>12, <1>14, <1>16 DEF Abs, ProductTolerance
<1>18. LET whole == Basket(type, basket)
       IN  /\ whole.refused = FALSE /\ whole.total = iv[S] /\ whole.residual = r
           /\ whole.drivers["factor"] = jf[S] /\ whole.drivers["volume"] = iu[S]
           /\ whole.drivers["mix"] = im[S]
  BY <1>1, <1>2, <1>15, <1>16, <1>17 DEF Basket, planned, sold, n, OfVariances, OfEffects
<1>19. jf[S] + iu[S] + im[S] + r = iv[S]
  BY <1>11, <1>16
<1> QED
  BY <1>18, <1>19

-----------------------------------------------------------------------------
(* The lines of closes that the connections form (CloseLine).              *)

\* A connection has drafted a close from the moment its transaction begins,
\* after the head that its snapshot shows of the entity.
Drafting == {t \in Threads : call[t].at \in Open}
DraftOf(t) == [by |-> t, of |-> call[t].run, line |-> Here(t).entity,
               after |-> call[t].view.heads[Here(t).entity].run]

closed == DOMAIN saved
last   == [e \in Entities |-> heads[e].run]
drafts == {DraftOf(t) : t \in Drafting}

Chain == INSTANCE CloseLine WITH
  Authors <- Threads, Lines <- Entities, Closes <- Runs, Nothing <- "none"

\* A transaction in progress is of a named request and its run.
LEMMA DraftsNamed ==
  ASSUME IInv, NEW t \in Drafting
  PROVE  /\ t \in Threads /\ call[t].request \in Names /\ call[t].view \in Views
         /\ call[t].run \in Runs /\ Here(t).entity \in Entities /\ Here(t).run = call[t].run
<1>1. t \in Threads /\ call[t].at \in Open /\ call[t].at \in Closing
  BY DEF Drafting, Open, Closing, Working
<1>2. call[t].request \in Names /\ call[t].run = Here(t).run
  BY <1>1 DEF IInv, HandInv
<1>3. call[t].view \in Views
  BY <1>1 DEF IInv, ViewInv, Open
<1> QED
  BY <1>1, <1>2, <1>3 DEF Here, Runs, Entities

\* Whoever keeps a transaction open keeps its draft.
LEMMA DraftsKept ==
  ASSUME IInv, [Next]_vars, NEW t \in Drafting', ~Begin(t)
  PROVE  t \in Drafting /\ DraftOf(t)' = DraftOf(t)
<1>1. t \in Threads /\ call'[t].at \in Open
  BY DEF Drafting
<1>2. call'[t] = call[t] \/ Writes(t)
  BY <1>1, CallSteps DEF IInv
<1>3. CASE call'[t] = call[t]
  BY <1>1, <1>3 DEF Drafting, DraftOf, Here
<1>4. CASE Writes(t)
  <2>1. t \in Drafting
    BY <1>1, <1>4 DEF Writes, Drafting, Open
  <2>2. call'[t].request = call[t].request /\ call'[t].run = call[t].run /\ call'[t].view = call[t].view
    BY <1>4, <2>1, DraftsNamed, WriteEffect DEF IInv
  <2> QED
    BY <2>1, <2>2 DEF DraftOf, Here
<1> QED
  BY <1>2, <1>3, <1>4

\* A step that neither begins nor commits drops the drafts that it ends.
LEMMA OthersDrop ==
  ASSUME IInv, [Next]_vars, UNCHANGED db, \A t \in Threads : ~Begin(t)
  PROVE  Chain!LineNext
<1>1. closed' = closed /\ last' = last
  BY DEF db, closed, last
<1>2. \A t \in Drafting' : t \in Drafting /\ DraftOf(t)' = DraftOf(t)
  BY DraftsKept DEF Drafting
<1>3. drafts' \subseteq drafts
  BY <1>2 DEF drafts
<1>4. PICK D : D = drafts \ drafts' /\ D \in SUBSET drafts
  OBVIOUS
<1>5. Chain!Drop(D)
  BY <1>1, <1>3, <1>4 DEF Chain!Drop
<1> QED
  BY <1>4, <1>5 DEF Chain!LineNext

\* A transaction that begins is a draft after the head it finds.
LEMMA BeginDrafts ==
  ASSUME IInv, NEW t \in Threads, Begin(t)
  PROVE  Chain!LineNext
<1>1. /\ UNCHANGED db /\ call[t].at = "unsaved"
  BY DEF Begin
<1>2. /\ \A s \in Threads \ {t} : call'[s] = call[s]
      /\ call'[t].at = "open" /\ call'[t].request = call[t].request /\ call'[t].run = call[t].run
      /\ call'[t].view = [stored |-> stored, saved |-> DOMAIN saved, heads |-> heads]
  BY BeginEffect DEF IInv
<1>3. closed' = closed /\ last' = last
  BY <1>1 DEF db, closed, last
<1>4. call[t].request \in Names /\ call[t].run \in Runs /\ Here(t).entity \in Entities
  BY <1>1 DEF IInv, HandInv, Closing, Working, Here, Runs, Entities
<1>5. PICK new : new = [by |-> t, of |-> call[t].run, line |-> Here(t).entity,
                        after |-> last[Here(t).entity]]
  OBVIOUS
<1>6. DraftOf(t)' = new
  BY <1>2, <1>4, <1>5 DEF DraftOf, Here, last
<1>7. \A s \in Threads \ {t} : DraftOf(s)' = DraftOf(s)
  BY <1>2 DEF DraftOf, Here
<1>8. t \in Drafting' /\ t \notin Drafting /\ Drafting' = Drafting \cup {t}
  BY <1>1, <1>2 DEF Drafting, Open
<1>9. drafts' = {d \in drafts : d.by # t} \cup {new}
  <2>1. \A s \in Drafting : s # t /\ DraftOf(s).by = s /\ DraftOf(s)' = DraftOf(s)
    BY <1>7, <1>8 DEF Drafting, DraftOf
  <2>2. drafts' = {DraftOf(s)' : s \in Drafting'}
    BY DEF drafts
  <2> QED
    BY <1>6, <1>8, <2>1, <2>2 DEF drafts
<1>10. Chain!Draft(t, call[t].run, Here(t).entity)
  BY <1>3, <1>5, <1>9 DEF Chain!Draft
<1> QED
  BY <1>4, <1>10 DEF Chain!LineNext

\* A commit adds its close after the one it was drafted after, which is still
\* the head.
LEMMA CommitAddsClose ==
  ASSUME IInv, [Next]_vars, NEW t \in Threads, Commits(t)
  PROVE  Chain!LineNext
<1>1. PICK e, r : e = Here(t).entity /\ r = call[t].run
  OBVIOUS
<1>2. /\ e \in Entities /\ call[t].at = "written"
      /\ \A s \in Threads \ {t} : call'[s] = call[s]
      /\ call'[t].at = "saved" /\ r \notin DOMAIN saved /\ DOMAIN saved' = DOMAIN saved \cup {r}
      /\ heads'[e].run = r /\ \A f \in Entities \ {e} : heads'[f] = heads[f]
      /\ heads[e] = call[t].view.heads[e]
  <2>1. /\ Here(t).entity \in Entities /\ call[t].at = "written"
        /\ \A s \in Threads \ {t} : call'[s] = call[s]
        /\ call'[t].at = "saved" /\ r \notin DOMAIN saved /\ DOMAIN saved' = DOMAIN saved \cup {r}
    BY <1>1, CommitEffect DEF IInv
  <2>2. /\ heads'[Here(t).entity] = [run |-> call[t].run, close |-> Here(t).close]
        /\ \A f \in Entities \ {Here(t).entity} : heads'[f] = heads[f]
        /\ heads[Here(t).entity] = call[t].view.heads[Here(t).entity]
    BY CommitEffect DEF IInv
  <2>3. heads'[Here(t).entity].run = call[t].run
    BY <2>2
  <2> QED
    BY <1>1, <2>1, <2>2, <2>3
<1>3. closed' = closed \cup {r} /\ r \notin closed
  BY <1>2 DEF closed
<1>4. last' = [last EXCEPT ![e] = r]
  BY <1>2 DEF last
<1>5. t \in Drafting /\ Drafting' = Drafting \ {t}
  BY <1>2 DEF Drafting, Open
<1>6. PICK d : d = DraftOf(t) /\ d \in drafts
  BY <1>5 DEF drafts
<1>7. d.by = t /\ d.of = r /\ d.line = e /\ d.after = last[e]
  BY <1>1, <1>2, <1>6 DEF DraftOf, last
<1>8. drafts' = drafts \ {d}
  <2>1. \A s \in Drafting : DraftOf(s).by = s /\ (s # t => DraftOf(s)' = DraftOf(s))
    BY <1>2 DEF Drafting, DraftOf, Here
  <2>2. drafts' = {DraftOf(s)' : s \in Drafting'}
    BY DEF drafts
  <2> QED
    BY <1>5, <1>6, <1>7, <2>1, <2>2 DEF drafts
<1>9. Chain!Add(d)
  BY <1>3, <1>4, <1>7, <1>8 DEF Chain!Add
<1> QED
  BY <1>6, <1>9 DEF Chain!LineNext

\* The closes of the database form such lines, one for each entity: a
\* transaction commits only after the head it read, for any number of
\* connections, and one that failed or was lost with its process never does.
THEOREM ClosesFormLines == Spec => Chain!LineSpec
<1>1. Init => Chain!LineInit
  <2> SUFFICES ASSUME Init PROVE Chain!LineInit
    OBVIOUS
  <2>1. closed = {} /\ \A e \in Entities : heads[e].run = "none"
    BY DEF Init, closed, NoHead
  <2>2. drafts = {}
    BY DEF Init, drafts, Drafting, Open, Idle
  <2> QED
    BY <2>1, <2>2 DEF Chain!LineInit, last
<1>2. IInv /\ [Next]_vars => [Chain!LineNext]_(Chain!line)
  <2> SUFFICES ASSUME IInv, [Next]_vars PROVE Chain!LineNext
    OBVIOUS
  <2> QED
    BY OnlyCommits, OthersDrop, BeginDrafts, CommitAddsClose
<1> QED
  BY <1>1, <1>2, IInvariant, PTL DEF Spec, Chain!LineSpec

\* What a behaviour of CloseLine looks like at any time.
LEMMA LineKeepsTypes == Chain!LineSpec => []Chain!LineTyped
<1> USE DEF Chain!LineTyped
<1>1. Chain!LineInit => Chain!LineTyped
  BY RequestAssumption DEF Chain!LineInit
<1>2. Chain!LineTyped /\ [Chain!LineNext]_(Chain!line) => Chain!LineTyped'
  <2> SUFFICES ASSUME Chain!LineTyped, [Chain!LineNext]_(Chain!line) PROVE Chain!LineTyped'
    OBVIOUS
  <2>1. ASSUME NEW t \in Threads, NEW r \in Runs, NEW e \in Entities, Chain!Draft(t, r, e)
        PROVE  Chain!LineTyped'
    BY <2>1 DEF Chain!Draft
  <2>2. ASSUME NEW d \in drafts, Chain!Add(d) PROVE Chain!LineTyped'
    BY <2>2 DEF Chain!Add
  <2>3. ASSUME NEW D, Chain!Drop(D) PROVE Chain!LineTyped'
    BY <2>3 DEF Chain!Drop
  <2>4. CASE UNCHANGED Chain!line
    BY <2>4 DEF Chain!line
  <2> QED
    BY <2>1, <2>2, <2>3, <2>4 DEF Chain!LineNext
<1> QED
  BY <1>1, <1>2, PTL DEF Chain!LineSpec

\* So a transaction whose snapshot was overtaken can never commit, and no
\* close is lost: a head does not come back to what it was before.
THEOREM OvertakenTransactionsStay == Spec => Chain!OvertakenStay /\ Chain!NothingLost
<1>1. Chain!LineTyped /\ [Chain!LineNext]_(Chain!line)
      => [/\ \A d \in drafts \cap drafts' : d.after # last[d.line] => d.after # last'[d.line]
          /\ closed \subseteq closed']_(Chain!line)
  <2> SUFFICES ASSUME Chain!LineTyped, Chain!LineNext
               PROVE  /\ \A d \in drafts \cap drafts' :
                           d.after # last[d.line] => d.after # last'[d.line]
                      /\ closed \subseteq closed'
    OBVIOUS
  <2>1. ASSUME NEW e \in drafts, Chain!Add(e), NEW d \in drafts, d.after # last[d.line]
        PROVE  d.after # last'[d.line]
    BY <2>1 DEF Chain!LineTyped, Chain!Add
  <2> QED
    BY <2>1 DEF Chain!LineNext, Chain!Draft, Chain!Drop, Chain!Add
<1> QED
  BY <1>1, ClosesFormLines, LineKeepsTypes, PTL
     DEF Chain!LineSpec, Chain!OvertakenStay, Chain!NothingLost
=============================================================================
