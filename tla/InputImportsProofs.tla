------------------------- MODULE InputImportsProofs ------------------------
(***************************************************************************)
(* Proofs about InputImports for every number of imports, packages and     *)
(* transfers and for every limit.  IInv is the inductive invariant: what   *)
(* the record of an import says while somebody works on it, which folder   *)
(* the child and the transfer may still write, and what a transaction that *)
(* has promoted a folder has made sure of.                                 *)
(***************************************************************************)
EXTENDS InputImports, SequenceTheorems, WellFoundedInduction, TLAPS

Listings == {"none"} \cup {p.listing : p \in Packages}
Pins     == [listing : Listings, first : Places \cup {NoPlace}]
Rows     == [state : States, package : Packages \cup {NoPackage}, transfer : 0..MaxTransfers,
             version : Places \cup {NoPlace}]
Versions == [id : Places, package : Packages, pin : Pins]
Busy     == {"receiving", "staged", "sealed"} \cup Gated
Closed   == {"none", "accepted", "rejected"}

TypeOK ==
  /\ permission \in [Packages -> {"none", "folder", "live", "expired", "revoked"}]
  /\ row \in [Keys -> Rows] /\ versions \in Seq(Versions)
  /\ \A k \in Keys : row[k].state # "none" => Pkg(k) \in Packages
  /\ staged \in [Places -> {"none", "package", "payload", "validated", "contract"}]
  /\ pinned \in [Places -> Pins] /\ prepared \in [Keys -> 0..MaxTransfers]
  /\ inputs \subseteq Places /\ server \in {"down", "up"}
  /\ intake = IdleIntake \/ intake \in [stage : Busy, key : Keys]
  /\ child \in Places \cup {NoPlace}
  /\ txn = NoTxn \/ txn \in [stage : {"prepared", "promoted"}, by : {"server", "operator"},
                             place : Places]

\* The record of an import in transfer, and the folder the transfer still owns.
IntakeInv ==
  intake # IdleIntake =>
    LET k == intake.key IN
    /\ server = "up" /\ row[k].transfer # 0
    /\ row[k].state = IF intake.stage \in {"receiving", "staged"} THEN "receiving" ELSE "validating"
    /\ txn = NoTxn => prepared[k] # row[k].transfer

\* A live validator has the latest folder of an import that is being validated.
ChildInv ==
  child # NoPlace =>
    LET k == child[1] IN
    /\ row[k].state = "validating" /\ child = At(k) /\ prepared[k] # row[k].transfer
    /\ server = "up" => intake = [stage |-> "validating", key |-> k]

\* Whoever holds the write transaction holds an open import and its journal, and
\* has promoted nothing it may not commit.
TxnInv ==
  txn # NoTxn =>
    LET k == txn.place[1] IN
    /\ row[k].state \in {"validating", "interrupted", "delivery_failed"}
    /\ prepared[k] = txn.place[2] /\ child = NoPlace
    /\ txn.by = "server" => intake = [stage |-> "valid", key |-> k]
    /\ txn.by = "operator" => server = "down"
    /\ txn.stage = "promoted" =>
         /\ txn.place \in inputs /\ permission[Pkg(k)] \in {"live", "expired"}
         /\ ScopeAgrees(Pkg(k), pinned[txn.place], txn.place)

\* A journal names a transfer that was started, and the copy has one place.
JournalInv ==
  /\ \A k \in Keys : prepared[k] <= row[k].transfer
  /\ \A k \in Keys : row[k].state = "none" => row[k].transfer = 0
  /\ \A pl \in inputs : staged[pl] = "none"

IInv ==
  /\ TypeOK /\ IntakeInv /\ ChildInv /\ TxnInv /\ JournalInv
  /\ PreparedWhole /\ OneListing /\ VersionsTraced

\* A place is an import and one of its transfers.
LEMMA PlaceFacts ==
  /\ NoPlace \notin Places
  /\ \A k \in Keys, t \in Transfers : <<k, t>> \in Places /\ <<k, t>>[1] = k /\ <<k, t>>[2] = t
  /\ \A pl \in Places : pl[1] \in Keys /\ pl[2] \in Transfers /\ pl = <<pl[1], pl[2]>>
BY DEF Places, NoPlace

\* A new state is all that a transition writes.
LEMMA RowMoves ==
  ASSUME TypeOK, NEW k \in Keys, row[k].state # "none", NEW s \in States, s # "none",
         row' = [row EXCEPT ![k].state = s]
  PROVE  /\ row' \in [Keys -> Rows]
         /\ \A i \in Keys \ {k} : row'[i] = row[i]
         /\ row'[k].state = s /\ row'[k].package = row[k].package
         /\ row'[k].transfer = row[k].transfer /\ row'[k].version = row[k].version
<1>1. row[k] \in Rows /\ row'[k] = [row[k] EXCEPT !.state = s]
  BY DEF TypeOK
<1>2. row'[k] \in Rows
  BY <1>1 DEF Rows
<1>3. \A i \in Keys \ {k} : row'[i] = row[i]
  BY DEF TypeOK
<1>4. row' \in [Keys -> Rows]
  BY <1>2, <1>3 DEF TypeOK
<1> QED
  BY <1>1, <1>3, <1>4 DEF Rows

\* An accepted import names its version.
LEMMA RowAccepted ==
  ASSUME TypeOK, NEW k \in Keys, NEW id \in Places,
         row' = [row EXCEPT ![k].state = "accepted", ![k].version = id]
  PROVE  /\ row' \in [Keys -> Rows]
         /\ \A i \in Keys \ {k} : row'[i] = row[i]
         /\ row'[k].state = "accepted" /\ row'[k].package = row[k].package
         /\ row'[k].transfer = row[k].transfer /\ row'[k].version = id
<1>1. row[k] \in Rows
      /\ row'[k] = [row[k] EXCEPT !.state = "accepted", !.version = id]
  BY DEF TypeOK
<1>2. row'[k] \in Rows
  <2>1. "accepted" \in States
    BY DEF States
  <2>2. [row[k] EXCEPT !.state = "accepted"] \in Rows
    BY <1>1, <2>1 DEF Rows
  <2>3. row'[k] = [[row[k] EXCEPT !.state = "accepted"] EXCEPT !.version = id]
    BY <1>1
  <2> QED
    BY <2>2, <2>3 DEF Rows
<1>3. \A i \in Keys \ {k} : row'[i] = row[i]
  BY DEF TypeOK
<1>4. row' \in [Keys -> Rows]
  BY <1>2, <1>3 DEF TypeOK
<1> QED
  BY <1>1, <1>3, <1>4 DEF Rows

\* The transfer in hand has a stage, an import and a folder.
LEMMA IntakeFacts ==
  ASSUME TypeOK, IntakeInv
  PROVE  /\ intake # IdleIntake <=> intake.stage # "idle"
         /\ intake.stage # "idle" =>
              /\ intake.key \in Keys /\ intake.stage \in Busy
              /\ intake = [stage |-> intake.stage, key |-> intake.key]
              /\ row[intake.key].state # "none" /\ Pkg(intake.key) \in Packages
              /\ At(intake.key) \in Places
<1>1. intake = IdleIntake => intake.stage = "idle"
  BY DEF IdleIntake
<1>2. ASSUME intake # IdleIntake
      PROVE  /\ intake.stage # "idle" /\ intake.key \in Keys /\ intake.stage \in Busy
             /\ intake = [stage |-> intake.stage, key |-> intake.key]
  BY <1>2 DEF TypeOK, Busy, Gated, Verdicts
<1>3. ASSUME intake # IdleIntake
      PROVE  /\ row[intake.key].state # "none" /\ Pkg(intake.key) \in Packages
             /\ At(intake.key) \in Places
  <2>1. row[intake.key].state # "none" /\ row[intake.key].transfer # 0
    BY <1>3 DEF IntakeInv
  <2>2. row[intake.key].transfer \in 0..MaxTransfers
    BY <1>2, <1>3 DEF TypeOK, Rows
  <2>3. row[intake.key].transfer \in Transfers
    BY <2>1, <2>2, ImportAssumption DEF Transfers
  <2> QED
    BY <1>2, <1>3, <2>1, <2>3, PlaceFacts DEF TypeOK, At
<1> QED
  BY <1>1, <1>2, <1>3

\* The transaction in hand has a stage and an import of its own.
LEMMA TxnFacts ==
  ASSUME TypeOK, TxnInv
  PROVE  /\ txn # NoTxn <=> txn.stage # "none"
         /\ txn # NoTxn =>
              /\ txn.place \in Places /\ txn.place[1] \in Keys
              /\ txn.place = <<txn.place[1], txn.place[2]>>
              /\ row[txn.place[1]].state # "none" /\ Pkg(txn.place[1]) \in Packages
              /\ txn = [stage |-> txn.stage, by |-> txn.by, place |-> txn.place]
              /\ txn.stage \in {"prepared", "promoted"} /\ txn.by \in {"server", "operator"}
<1>1. txn = NoTxn => txn.stage = "none"
  BY DEF NoTxn
<1>2. ASSUME txn # NoTxn
      PROVE  /\ txn.stage # "none" /\ txn.place \in Places
             /\ txn = [stage |-> txn.stage, by |-> txn.by, place |-> txn.place]
             /\ txn.stage \in {"prepared", "promoted"} /\ txn.by \in {"server", "operator"}
  BY <1>2 DEF TypeOK
<1>3. ASSUME txn # NoTxn
      PROVE  row[txn.place[1]].state # "none"
  BY <1>3 DEF TxnInv
<1> QED
  BY <1>1, <1>2, <1>3, PlaceFacts DEF TypeOK

\* A nonempty set of naturals has a least member.
LEMMA LeastMember ==
  ASSUME NEW T \in SUBSET Nat, T # {}
  PROVE  Min(T) \in T /\ \A y \in T : Min(T) <= y
<1> DEFINE R == OpToRel(<, Nat)
<1>1. PICK x \in T : \A y \in T : <<y, x>> \notin R
  <2>1. IsWellFoundedOn(R, Nat)
    BY NatLessThanWellFounded
  <2> HIDE DEF R
  <2> QED
    BY <2>1, WFMin
<1>2. \A y \in T : y < x => <<y, x>> \in R
  <2> SUFFICES ASSUME NEW y \in T, y < x
               PROVE  <<y, x>> \in {ss \in Nat \X Nat : ss[1] < ss[2]}
    BY DEF OpToRel
  <2> QED
    OBVIOUS
<1>3. \A y \in T : ~(y < x)
  BY <1>1, <1>2
<1>4. \A y \in T : x <= y
  BY <1>3
<1> QED
  BY <1>4 DEF Min

\* The first research version exists once there is any.
LEMMA FirstResearch ==
  ASSUME TypeOK, ResearchVersions # {}
  PROVE  /\ ResearchVersions \subseteq 1..Len(versions) /\ Len(versions) \in Nat
         /\ Min(ResearchVersions) \in ResearchVersions
         /\ \A n \in ResearchVersions : Min(ResearchVersions) <= n
         /\ Scope = versions[Min(ResearchVersions)].pin /\ Scope \in Pins
<1>1. ResearchVersions \subseteq 1..Len(versions) /\ Len(versions) \in Nat
  BY DEF TypeOK, ResearchVersions
<1>2. ResearchVersions \in SUBSET Nat
  BY <1>1
<1>3. /\ Min(ResearchVersions) \in ResearchVersions
      /\ \A n \in ResearchVersions : Min(ResearchVersions) <= n
  BY <1>2, LeastMember
<1>4. Scope = versions[Min(ResearchVersions)].pin
  BY DEF Scope
<1>5. versions[Min(ResearchVersions)] \in Versions
  <2>1. Min(ResearchVersions) \in 1..Len(versions)
    BY <1>1, <1>3
  <2> QED
    BY <2>1 DEF TypeOK
<1> QED
  BY <1>1, <1>3, <1>4, <1>5 DEF Versions

\* The pin research is validated against is a listing and a place.
LEMMA PinFacts ==
  ASSUME TypeOK, NEW p \in Packages, NEW pl \in Places
  PROVE  NoPin \in Pins /\ PinFor(pl, p) \in Pins
<1>1. NoPin \in Pins /\ [NoPin EXCEPT !.listing = p.listing, !.first = pl] \in Pins
  BY DEF NoPin, Pins, Listings
<1>2. ResearchVersions = {} => Scope = NoPin
  BY DEF Scope
<1> QED
  BY <1>1, <1>2, FirstResearch DEF PinFor

\* What no step does to the record of an import: it keeps its package and its
\* acceptance, transfers only grow in number, and an import is accepted when
\* there is a version for it.
RowStep ==
  /\ row' \in [Keys -> Rows]
  /\ \A i \in Keys :
       /\ row'[i].state # "none" => row'[i].package \in Packages
       /\ row'[i].state = "none" => row'[i].transfer = 0
       /\ row[i].state # "none" => row'[i].state # "none" /\ row'[i].package = row[i].package
       /\ row[i].state = "accepted" =>
            row'[i].state = "accepted" /\ row'[i].version = row[i].version
       /\ row[i].transfer <= row'[i].transfer
       /\ row[i].state # "accepted" /\ row'[i].state = "accepted" =>
            \E n \in DOMAIN versions' : /\ versions'[n].id = row'[i].version
                                        /\ versions'[n].package = row'[i].package

\* A handler that records a failure, or cannot.
LEMMA RowTried ==
  ASSUME TypeOK, JournalInv, NEW k \in Keys, row[k].state \notin {"none", "accepted"},
         NEW S \in SUBSET {"rejected", "interrupted", "delivery_failed", "validating"},
         TryOneOf(k, S)
  PROVE  /\ RowStep
         /\ \A i \in Keys \ {k} : row'[i] = row[i]
<1>1. \A i \in Keys : row[i].transfer \in Nat
  BY ImportAssumption DEF TypeOK, Rows
<1>2. CASE row' = row
  BY <1>1, <1>2 DEF RowStep, TypeOK, JournalInv, Pkg
<1>3. ASSUME NEW s \in S, Set(k, s)
      PROVE  RowStep /\ \A i \in Keys \ {k} : row'[i] = row[i]
  <2>1. s \in States /\ s \notin {"none", "accepted"}
    BY DEF States, Unresolved
  <2>2. /\ row' \in [Keys -> Rows]
        /\ \A i \in Keys \ {k} : row'[i] = row[i]
        /\ row'[k].state = s /\ row'[k].package = row[k].package
        /\ row'[k].transfer = row[k].transfer /\ row'[k].version = row[k].version
    BY <1>3, <2>1, RowMoves DEF Set
  <2>3. row[k].state # "none" => row[k].package \in Packages
    BY DEF TypeOK, Pkg
  <2>4. ASSUME NEW i \in Keys, i # k
        PROVE  /\ row'[i] = row[i] /\ row[i].transfer <= row[i].transfer
               /\ row[i].state # "none" => row[i].package \in Packages
               /\ row[i].state = "none" => row[i].transfer = 0
    BY <1>1, <2>2, <2>4 DEF TypeOK, JournalInv, Pkg
  <2> QED
    BY <1>1, <2>1, <2>2, <2>3, <2>4 DEF RowStep
<1> QED
  BY <1>2, <1>3 DEF TryOneOf

\* While a transfer is not at its validator no validator is alive, and before
\* its verdict nobody writes the registry's files for it.
LEMMA Alone ==
  ASSUME TypeOK, IntakeInv, ChildInv, TxnInv
  PROVE  /\ intake.stage \notin {"idle", "validating"} => child = NoPlace
         /\ intake.stage \notin {"idle", "valid"} => txn = NoTxn
         /\ intake.stage \notin {"idle"} => server = "up" /\ intake # IdleIntake
<1>1. ASSUME intake.stage # "idle" PROVE server = "up" /\ intake # IdleIntake
  BY <1>1, IntakeFacts DEF IntakeInv
<1>2. ASSUME intake.stage \notin {"idle", "validating"} PROVE child = NoPlace
  BY <1>1, <1>2 DEF ChildInv
<1>3. ASSUME intake.stage \notin {"idle", "valid"} PROVE txn = NoTxn
  BY <1>1, <1>3, TxnFacts DEF TxnInv
<1> QED
  BY <1>1, <1>2, <1>3

\* Every step respects RowStep.
LEMMA RowSteps ==
  ASSUME TypeOK, IntakeInv, ChildInv, TxnInv, JournalInv, [Next]_vars
  PROVE  RowStep
<1>a. /\ row \in [Keys -> Rows]
      /\ \A i \in Keys : /\ row[i].state # "none" => row[i].package \in Packages
                         /\ row[i].state = "none" => row[i].transfer = 0
                         /\ row[i].transfer <= row[i].transfer
  BY ImportAssumption DEF TypeOK, Rows, JournalInv, Pkg
<1>b. \A i \in Keys : row[i].transfer \in Nat
  BY ImportAssumption DEF TypeOK, Rows
<1>1. CASE CreateEntity
  BY <1>1, <1>a DEF CreateEntity, db, vars, RowStep
<1>2. CASE CreateDataset
  BY <1>2, <1>a DEF CreateDataset, db, vars, RowStep
<1>3. ASSUME NEW p \in Packages, InstallFolder(p) PROVE RowStep
  BY <1>3, <1>a DEF InstallFolder, db, vars, RowStep
<1>4. ASSUME NEW p \in Packages, InstallPermission(p) PROVE RowStep
  BY <1>4, <1>a DEF InstallPermission, db, vars, RowStep
<1>5. ASSUME NEW p \in Packages, RevokePermission(p) PROVE RowStep
  BY <1>5, <1>a DEF RevokePermission, db, vars, RowStep
<1>6. ASSUME NEW p \in Packages, Expire(p) PROVE RowStep
  BY <1>6, <1>a DEF Expire, db, vars, RowStep
<1>7. ASSUME NEW k \in Keys, NEW p \in Packages, Reserve(k, p) PROVE RowStep
  <2>1. row' = [row EXCEPT ![k] = [NoRow EXCEPT !.state = "reserved", !.package = p]]
        /\ row[k].state = "none" /\ versions' = versions
    BY <1>7 DEF Reserve
  <2>2. [NoRow EXCEPT !.state = "reserved", !.package = p] \in Rows
    <3>1. "reserved" \in States /\ "none" \in States /\ 0 \in 0..MaxTransfers
      BY ImportAssumption DEF States, Unresolved
    <3>2. NoRow \in Rows
      BY <3>1 DEF NoRow, Rows
    <3>3. [NoRow EXCEPT !.state = "reserved"] \in Rows
      BY <3>1, <3>2 DEF Rows
    <3>4. [NoRow EXCEPT !.state = "reserved", !.package = p]
            = [[NoRow EXCEPT !.state = "reserved"] EXCEPT !.package = p]
      BY DEF NoRow
    <3> QED
      BY <3>3, <3>4 DEF Rows
  <2>3. row'[k] = [NoRow EXCEPT !.state = "reserved", !.package = p]
        /\ \A i \in Keys \ {k} : row'[i] = row[i]
    BY <2>1 DEF TypeOK
  <2>4. row'[k].state = "reserved" /\ row'[k].package = p /\ row'[k].transfer = 0
    BY <2>3 DEF NoRow
  <2>5. row' \in [Keys -> Rows]
    BY <2>1, <2>2 DEF TypeOK
  <2>6. row[k].transfer = 0
    BY <2>1 DEF JournalInv
  <2> QED
    BY <1>a, <2>1, <2>3, <2>4, <2>5, <2>6 DEF RowStep
<1>8. ASSUME NEW k \in Keys, TransferStart(k) PROVE RowStep
  <2>1. /\ row' = [row EXCEPT ![k].state = "receiving", ![k].transfer = @ + 1]
        /\ row[k].state \in {"reserved", "interrupted"} /\ row[k].transfer < MaxTransfers
    BY <1>8 DEF TransferStart
  <2>2. /\ row[k] \in Rows /\ \A i \in Keys \ {k} : row'[i] = row[i]
        /\ row'[k] = [row[k] EXCEPT !.state = "receiving", !.transfer = @ + 1]
    BY <2>1 DEF TypeOK
  <2>3. /\ row'[k].state = "receiving" /\ row'[k].package = row[k].package
        /\ row'[k].transfer = row[k].transfer + 1 /\ row'[k].version = row[k].version
    BY <2>2 DEF Rows
  <2>4. "receiving" \in States /\ row[k].transfer + 1 \in 0..MaxTransfers
    BY <2>1, <1>b, ImportAssumption DEF States, Unresolved
  <2>5. row'[k] \in Rows
    BY <2>2, <2>4 DEF Rows
  <2>6. row' \in [Keys -> Rows]
    BY <2>1, <2>2, <2>5 DEF TypeOK
  <2> QED
    BY <1>a, <1>b, <2>1, <2>2, <2>3, <2>6 DEF RowStep
<1>9. ASSUME NEW k \in Keys, ReceiveFails(k) PROVE RowStep
  <2>1. intake = [stage |-> intake.stage, key |-> k] /\ intake.stage # "idle"
    BY <1>9, IntakeFacts DEF ReceiveFails
  <2>2. row[k].state \notin {"none", "accepted"} /\ row[k].state \in {"receiving", "validating"}
    BY <2>1, IntakeFacts DEF IntakeInv
  <2> QED
    BY <1>9, <2>2, RowTried DEF ReceiveFails
<1>10. ASSUME NEW k \in Keys, StagePackage(k) PROVE RowStep
  BY <1>10, <1>a DEF StagePackage, db, vars, RowStep
<1>11. ASSUME NEW k \in Keys, MarkValidating(k) PROVE RowStep
  <2>1. intake.stage # "idle" /\ intake.key = k
    BY <1>11 DEF MarkValidating
  <2>2. row[k].state = "receiving"
    BY <1>11, <2>1, IntakeFacts DEF IntakeInv, MarkValidating
  <2>3. TryOneOf(k, {"validating"})
    BY <1>11 DEF MarkValidating, TryOneOf
  <2> QED
    BY <2>2, <2>3, RowTried
<1>12. ASSUME NEW k \in Keys, StagedFails(k) PROVE RowStep
  <2>1. intake = [stage |-> intake.stage, key |-> k] /\ intake.stage # "idle"
    BY <1>12, IntakeFacts DEF StagedFails
  <2>2. row[k].state \notin {"none", "accepted"} /\ row[k].state \in {"receiving", "validating"}
    BY <2>1, IntakeFacts DEF IntakeInv
  <2> QED
    BY <1>12, <2>2, RowTried DEF StagedFails
<1>13. ASSUME NEW k \in Keys, Validate(k) PROVE RowStep
  BY <1>13, <1>a DEF Validate, db, vars, RowStep
<1>14. ASSUME NEW k \in Keys, ValidationFailed(k) PROVE RowStep
  <2>1. intake = [stage |-> intake.stage, key |-> k] /\ intake.stage # "idle"
    BY <1>14, IntakeFacts DEF ValidationFailed
  <2>2. row[k].state \notin {"none", "accepted"} /\ row[k].state \in {"receiving", "validating"}
    BY <2>1, IntakeFacts DEF IntakeInv
  <2> QED
    BY <1>14, <2>2, RowTried DEF ValidationFailed
<1>15. ASSUME NEW k \in Keys, AcceptDuplicate(k) PROVE RowStep
  <2>1. intake.stage = "valid" /\ intake.key = k /\ versions' = versions
    BY <1>15 DEF AcceptDuplicate
  <2>2. row[k].state = "validating"
    BY <2>1, IntakeFacts DEF IntakeInv
  <2>3. PICK n \in DOMAIN versions :
          /\ SameContract(versions[n], k)
          /\ row' = [row EXCEPT ![k].state = "accepted", ![k].version = versions[n].id]
    BY <1>15 DEF AcceptDuplicate
  <2>4. versions[n].id \in Places /\ versions[n].package = row[k].package
    <3>1. versions[n] \in Versions
      BY <2>3 DEF TypeOK
    <3> QED
      BY <2>3, <3>1 DEF Versions, SameContract, Pkg
  <2>5. /\ row' \in [Keys -> Rows] /\ \A i \in Keys \ {k} : row'[i] = row[i]
        /\ row'[k].state = "accepted" /\ row'[k].package = row[k].package
        /\ row'[k].transfer = row[k].transfer /\ row'[k].version = versions[n].id
    BY <2>3, <2>4, RowAccepted
  <2> QED
    BY <1>a, <1>b, <2>1, <2>2, <2>4, <2>5 DEF RowStep
<1>16. ASSUME NEW k \in Keys, AcceptPrepare(k) PROVE RowStep
  BY <1>16, <1>a DEF AcceptPrepare, db, vars, RowStep
<1>17. ASSUME NEW k \in Keys, AcceptRefused(k) PROVE RowStep
  <2>1. intake = [stage |-> intake.stage, key |-> k] /\ intake.stage # "idle"
    BY <1>17, IntakeFacts DEF AcceptRefused
  <2>2. row[k].state \notin {"none", "accepted"} /\ row[k].state \in {"receiving", "validating"}
    BY <2>1, IntakeFacts DEF IntakeInv
  <2> QED
    BY <1>17, <2>2, RowTried DEF AcceptRefused
<1>18. ASSUME NEW k \in Keys, Recover(k) PROVE RowStep
  BY <1>18, <1>a DEF Recover, db, vars, RowStep
<1>19. ASSUME NEW v \in Verdicts, ChildEnds(v) PROVE RowStep
  BY <1>19, <1>a DEF ChildEnds, db, vars, RowStep
<1>20. CASE Promote
  BY <1>20, <1>a DEF Promote, db, vars, RowStep
<1>21. CASE Commit
  <2> DEFINE k == txn.place[1]
             v == [id |-> txn.place, package |-> Pkg(k), pin |-> pinned[txn.place]]
  <2>1. /\ txn # NoTxn /\ versions' = Append(versions, v)
        /\ row' = [row EXCEPT ![k].state = "accepted", ![k].version = txn.place]
    BY <1>21, TxnFacts DEF Commit
  <2>2. k \in Keys /\ txn.place \in Places
    BY <2>1, TxnFacts
  <2>3. row[k].state \notin {"none", "accepted"}
    BY <2>1 DEF TxnInv
  <2>4. /\ row' \in [Keys -> Rows] /\ \A i \in Keys \ {k} : row'[i] = row[i]
        /\ row'[k].state = "accepted" /\ row'[k].package = row[k].package
        /\ row'[k].transfer = row[k].transfer /\ row'[k].version = txn.place
    BY <2>1, <2>2, RowAccepted
  <2>5. Len(versions) + 1 \in DOMAIN versions' /\ versions'[Len(versions) + 1] = v
    BY <2>1, AppendProperties DEF TypeOK
  <2>6. v.id = row'[k].version /\ v.package = row'[k].package
    BY <2>4 DEF Pkg
  <2> QED
    BY <1>a, <1>b, <2>2, <2>3, <2>4, <2>5, <2>6 DEF RowStep
<1>22. CASE FinishFails
  <2>1. txn # NoTxn
    BY <1>22 DEF FinishFails
  <2>2. txn.place[1] \in Keys /\ row[txn.place[1]].state \notin {"none", "accepted"}
    BY <2>1, TxnFacts DEF TxnInv
  <2>3. CASE row' = row
    BY <2>3, <1>a, <1>b DEF RowStep
  <2>4. CASE TryOneOf(txn.place[1], {"delivery_failed", "interrupted"})
    BY <2>2, <2>4, RowTried
  <2> QED
    BY <1>22, <2>3, <2>4 DEF FinishFails
<1>23. CASE ServerDies
  BY <1>23, <1>a DEF ServerDies, db, vars, RowStep
<1>24. CASE ServerStart
  <2>1. row' = [k \in Keys |-> IF row[k].state \in {"receiving", "validating"}
                               THEN [row[k] EXCEPT !.state = "interrupted"] ELSE row[k]]
    BY <1>24 DEF ServerStart
  <2>2. "interrupted" \in States
    BY DEF States, Unresolved
  <2>3. ASSUME NEW i \in Keys
        PROVE  /\ row'[i] \in Rows /\ row'[i].package = row[i].package
               /\ row'[i].transfer = row[i].transfer /\ row'[i].version = row[i].version
               /\ row'[i].state = IF row[i].state \in {"receiving", "validating"}
                                  THEN "interrupted" ELSE row[i].state
    BY <2>1, <2>2 DEF TypeOK, Rows
  <2>4. row' \in [Keys -> Rows]
    BY <2>1, <2>3
  <2> QED
    BY <1>a, <1>b, <2>3, <2>4 DEF RowStep
<1>25. CASE UNCHANGED vars
  BY <1>25, <1>a DEF vars, db, vars, RowStep
<1> QED
  BY <1>1, <1>2, <1>3, <1>4, <1>5, <1>6, <1>7, <1>8, <1>9, <1>10, <1>11, <1>12, <1>13, <1>14,
      <1>15, <1>16, <1>17, <1>18, <1>19, <1>20, <1>21, <1>22, <1>23, <1>24, <1>25
  DEF Next, Operator, Outside, Intake

\* Every step keeps the types.
LEMMA TypePreserved ==
  ASSUME TypeOK, IntakeInv, ChildInv, TxnInv, JournalInv, [Next]_vars
  PROVE  TypeOK'
<1>a. RowStep
  BY RowSteps
<1>b. row' \in [Keys -> Rows] /\ \A k \in Keys : (row[k].state # "none" => Pkg(k) \in Packages)'
  BY <1>a DEF RowStep, Pkg
<1>1. CASE CreateEntity
  BY <1>1, <1>b DEF CreateEntity, TypeOK, db, files, procs, vars
<1>2. CASE CreateDataset
  BY <1>2, <1>b DEF CreateDataset, TypeOK, db, files, procs, vars
<1>3. ASSUME NEW p \in Packages, InstallFolder(p) PROVE TypeOK'
  BY <1>3, <1>b DEF InstallFolder, TypeOK, db, files, procs, vars
<1>4. ASSUME NEW p \in Packages, InstallPermission(p) PROVE TypeOK'
  BY <1>4, <1>b DEF InstallPermission, TypeOK, db, files, procs, vars
<1>5. ASSUME NEW p \in Packages, RevokePermission(p) PROVE TypeOK'
  BY <1>5, <1>b DEF RevokePermission, TypeOK, db, files, procs, vars
<1>6. ASSUME NEW p \in Packages, Expire(p) PROVE TypeOK'
  BY <1>6, <1>b DEF Expire, TypeOK, db, files, procs, vars
<1>7. ASSUME NEW k \in Keys, NEW p \in Packages, Reserve(k, p) PROVE TypeOK'
  BY <1>7, <1>b DEF Reserve, TypeOK, db, files, procs, vars
<1>8. ASSUME NEW k \in Keys, TransferStart(k) PROVE TypeOK'
  <2>1. intake' \in [stage : Busy, key : Keys]
    BY <1>8 DEF TransferStart, Busy
  <2> QED
    BY <1>8, <1>b, <2>1 DEF TransferStart, TypeOK, files
<1>9. ASSUME NEW k \in Keys, ReceiveFails(k) PROVE TypeOK'
  BY <1>9, <1>b DEF ReceiveFails, TypeOK, db, files, procs, vars
<1>10. ASSUME NEW k \in Keys, StagePackage(k) PROVE TypeOK'
  <2>1. intake.stage = "receiving" /\ intake.key = k
    BY <1>10 DEF StagePackage
  <2>2. At(k) \in Places /\ Pkg(k) \in Packages /\ intake # IdleIntake
    BY <2>1, IntakeFacts
  <2>3. PinFor(At(k), Pkg(k)) \in Pins
    BY <2>2, PinFacts
  <2>4. intake' \in [stage : Busy, key : Keys]
    BY <1>10, IntakeFacts DEF StagePackage, Busy
  <2>5. staged' \in [Places -> {"none", "package", "payload", "validated", "contract"}]
    BY <1>10, <2>2 DEF StagePackage, TypeOK
  <2>6. pinned' \in [Places -> Pins]
    BY <1>10, <2>2, <2>3 DEF StagePackage, TypeOK
  <2> QED
    BY <1>10, <1>b, <2>4, <2>5, <2>6 DEF StagePackage, TypeOK, db
<1>11. ASSUME NEW k \in Keys, MarkValidating(k) PROVE TypeOK'
  <2>1. intake = [stage |-> intake.stage, key |-> k] /\ intake.stage # "idle"
    BY <1>11, IntakeFacts DEF MarkValidating
  <2>2. intake' \in [stage : Busy, key : Keys]
    BY <1>11, <2>1 DEF MarkValidating, Busy, Gated
  <2>3. At(k) \in Places
    BY <2>1, IntakeFacts
  <2> QED
    BY <1>11, <1>b, <2>2, <2>3 DEF MarkValidating, TypeOK, files, db
<1>12. ASSUME NEW k \in Keys, StagedFails(k) PROVE TypeOK'
  BY <1>12, <1>b DEF StagedFails, TypeOK, db, files, procs, vars
<1>13. ASSUME NEW k \in Keys, Validate(k) PROVE TypeOK'
  <2>1. intake = [stage |-> intake.stage, key |-> k] /\ intake.stage # "idle"
    BY <1>13, IntakeFacts DEF Validate
  <2>2. intake' \in [stage : Busy, key : Keys]
    BY <1>13, <2>1 DEF Validate, Busy, Gated
  <2>3. At(k) \in Places
    BY <2>1, IntakeFacts
  <2> QED
    BY <1>13, <1>b, <2>2, <2>3 DEF Validate, TypeOK, files, db
<1>14. ASSUME NEW k \in Keys, ValidationFailed(k) PROVE TypeOK'
  BY <1>14, <1>b DEF ValidationFailed, TypeOK, db, files, procs, vars
<1>15. ASSUME NEW k \in Keys, AcceptDuplicate(k) PROVE TypeOK'
  BY <1>15, <1>b DEF AcceptDuplicate, TypeOK, db, files, procs, vars
<1>16. ASSUME NEW k \in Keys, AcceptPrepare(k) PROVE TypeOK'
  <2>1. intake = [stage |-> "valid", key |-> k] /\ intake.stage # "idle"
    BY <1>16, IntakeFacts DEF AcceptPrepare
  <2>2. At(k) \in Places /\ row[k].transfer \in 0..MaxTransfers
    BY <2>1, IntakeFacts DEF TypeOK, Rows
  <2>3. txn' \in [stage : {"prepared", "promoted"}, by : {"server", "operator"}, place : Places]
    BY <1>16, <2>2 DEF AcceptPrepare
  <2>4. staged' \in [Places -> {"none", "package", "payload", "validated", "contract"}]
    BY <1>16, <2>2 DEF AcceptPrepare, TypeOK
  <2>5. prepared' \in [Keys -> 0..MaxTransfers]
    BY <1>16, <2>2 DEF AcceptPrepare, TypeOK
  <2> QED
    BY <1>16, <1>b, <2>3, <2>4, <2>5 DEF AcceptPrepare, TypeOK, db
<1>17. ASSUME NEW k \in Keys, AcceptRefused(k) PROVE TypeOK'
  <2>1. intake.stage = "valid" /\ intake.key = k
    BY <1>17 DEF AcceptRefused
  <2>2. At(k) \in Places
    BY <2>1, IntakeFacts
  <2>3. staged' \in [Places -> {"none", "package", "payload", "validated", "contract"}]
    BY <1>17, <2>2 DEF AcceptRefused, TypeOK
  <2> QED
    BY <1>17, <1>b, <2>3 DEF AcceptRefused, TypeOK
<1>18. ASSUME NEW k \in Keys, Recover(k) PROVE TypeOK'
  <2>1. prepared[k] \in 0..MaxTransfers /\ prepared[k] # 0
    BY <1>18 DEF Recover, TypeOK
  <2>2. <<k, prepared[k]>> \in Places
    BY <2>1, PlaceFacts, ImportAssumption DEF Transfers
  <2>3. txn' \in [stage : {"prepared", "promoted"}, by : {"server", "operator"}, place : Places]
    BY <1>18, <2>2 DEF Recover
  <2> QED
    BY <1>18, <1>b, <2>3 DEF Recover, TypeOK, db, files
<1>19. ASSUME NEW v \in Verdicts, ChildEnds(v) PROVE TypeOK'
  <2>1. child \in Places
    BY <1>19 DEF ChildEnds, TypeOK
  <2>2. staged' \in [Places -> {"none", "package", "payload", "validated", "contract"}]
    BY <1>19, <2>1 DEF ChildEnds, TypeOK
  <2>3. intake' = IdleIntake \/ intake' \in [stage : Busy, key : Keys]
    <3>1. CASE intake.stage = "validating"
      BY <1>19, <3>1, IntakeFacts DEF ChildEnds, Busy, Gated
    <3>2. CASE intake.stage # "validating"
      BY <1>19, <3>2 DEF ChildEnds, TypeOK
    <3> QED
      BY <3>1, <3>2
  <2> QED
    BY <1>19, <1>b, <2>2, <2>3 DEF ChildEnds, TypeOK, db
<1>20. CASE Promote
  <2>1. txn # NoTxn
    BY <1>20, TxnFacts DEF Promote
  <2>2. txn.place \in Places /\ txn = [stage |-> txn.stage, by |-> txn.by, place |-> txn.place]
        /\ txn.by \in {"server", "operator"}
    BY <2>1, TxnFacts
  <2>3. txn' \in [stage : {"prepared", "promoted"}, by : {"server", "operator"}, place : Places]
    BY <1>20, <2>2 DEF Promote
  <2>4. staged' \in [Places -> {"none", "package", "payload", "validated", "contract"}]
    BY <1>20, <2>2 DEF Promote, TypeOK
  <2>5. inputs' \subseteq Places
    BY <1>20, <2>2 DEF Promote, TypeOK
  <2> QED
    BY <1>20, <1>b, <2>3, <2>4, <2>5 DEF Promote, TypeOK, db
<1>21. CASE Commit
  <2> DEFINE k == txn.place[1]
             v == [id |-> txn.place, package |-> Pkg(k), pin |-> pinned[txn.place]]
  <2>1. txn # NoTxn /\ versions' = Append(versions, v)
    BY <1>21, TxnFacts DEF Commit
  <2>2. txn.place \in Places /\ Pkg(k) \in Packages
    BY <2>1, TxnFacts
  <2>3. v \in Versions
    BY <2>2 DEF TypeOK, Versions
  <2>4. versions' \in Seq(Versions)
    BY <2>1, <2>3, AppendProperties DEF TypeOK
  <2> QED
    BY <1>21, <1>b, <2>4 DEF Commit, TypeOK, files
<1>22. CASE FinishFails
  BY <1>22, <1>b DEF FinishFails, TypeOK, db, files, procs, vars
<1>23. CASE ServerDies
  BY <1>23, <1>b DEF ServerDies, TypeOK, db, files, procs, vars
<1>24. CASE ServerStart
  BY <1>24, <1>b DEF ServerStart, TypeOK, db, files, procs, vars
<1>25. CASE UNCHANGED vars
  BY <1>25, <1>b DEF vars, TypeOK, db, files, procs, vars
<1> QED
  BY <1>1, <1>2, <1>3, <1>4, <1>5, <1>6, <1>7, <1>8, <1>9, <1>10, <1>11, <1>12, <1>13, <1>14,
      <1>15, <1>16, <1>17, <1>18, <1>19, <1>20, <1>21, <1>22, <1>23, <1>24, <1>25
  DEF Next, Operator, Outside, Intake

\* Every step keeps IntakeInv.
LEMMA IntakePreserved ==
  ASSUME TypeOK, IntakeInv, ChildInv, TxnInv, JournalInv, [Next]_vars
  PROVE  IntakeInv'
<1>a. RowStep
  BY RowSteps
<1>b. intake # IdleIntake => intake.key \in Keys /\ row[intake.key].state # "none"
  BY IntakeFacts
<1>c. IntakeInv /\ (intake # IdleIntake => intake.stage # "idle" /\ intake.stage \in Busy)
  BY IntakeFacts
<1>1. CASE CreateEntity
  BY <1>1, <1>c DEF CreateEntity, IntakeInv, db, files, procs, vars
<1>2. CASE CreateDataset
  BY <1>2, <1>c DEF CreateDataset, IntakeInv, db, files, procs, vars
<1>3. ASSUME NEW p \in Packages, InstallFolder(p) PROVE IntakeInv'
  BY <1>3, <1>c DEF InstallFolder, IntakeInv, db, files, procs, vars
<1>4. ASSUME NEW p \in Packages, InstallPermission(p) PROVE IntakeInv'
  BY <1>4, <1>c DEF InstallPermission, IntakeInv, db, files, procs, vars
<1>5. ASSUME NEW p \in Packages, RevokePermission(p) PROVE IntakeInv'
  BY <1>5, <1>c DEF RevokePermission, IntakeInv, db, files, procs, vars
<1>6. ASSUME NEW p \in Packages, Expire(p) PROVE IntakeInv'
  BY <1>6, <1>c DEF Expire, IntakeInv, db, files, procs, vars
<1>7. ASSUME NEW k \in Keys, NEW p \in Packages, Reserve(k, p) PROVE IntakeInv'
  <2>1. row' = [row EXCEPT ![k] = [NoRow EXCEPT !.state = "reserved", !.package = p]]
    BY <1>7 DEF Reserve
  <2>2. intake # IdleIntake => row'[intake.key] = row[intake.key]
    BY <1>7, <1>b, <2>1 DEF Reserve, TypeOK
  <2> QED
    BY <1>7, <1>c, <2>2 DEF Reserve, IntakeInv, files, procs
<1>8. ASSUME NEW k \in Keys, TransferStart(k) PROVE IntakeInv'
  <2>1. /\ intake' = [stage |-> "receiving", key |-> k] /\ server' = "up" /\ prepared' = prepared
        /\ row' = [row EXCEPT ![k].state = "receiving", ![k].transfer = @ + 1]
    BY <1>8 DEF TransferStart, files
  <2>2. row[k] \in Rows /\ row'[k] = [row[k] EXCEPT !.state = "receiving", !.transfer = @ + 1]
    BY <2>1 DEF TypeOK
  <2>3. row'[k].state = "receiving" /\ row'[k].transfer = row[k].transfer + 1
    BY <2>2 DEF Rows
  <2>4. row[k].transfer \in Nat /\ prepared[k] \in Nat /\ prepared[k] <= row[k].transfer
    BY ImportAssumption DEF TypeOK, Rows, JournalInv
  <2> QED
    BY <2>1, <2>3, <2>4 DEF IntakeInv
<1>9. ASSUME NEW k \in Keys, ReceiveFails(k) PROVE IntakeInv'
  BY <1>9, <1>c DEF ReceiveFails, IntakeInv, db, files, procs, vars
<1>10. ASSUME NEW k \in Keys, StagePackage(k) PROVE IntakeInv'
  <2>1. intake = [stage |-> "receiving", key |-> k]
    BY <1>10 DEF StagePackage
  <2>2. intake' = [stage |-> "staged", key |-> k] /\ intake # IdleIntake
    BY <1>10, <2>1 DEF StagePackage, IdleIntake
  <2> QED
    BY <1>10, <2>1, <2>2 DEF StagePackage, IntakeInv, db
<1>11. ASSUME NEW k \in Keys, MarkValidating(k) PROVE IntakeInv'
  <2>1. intake = [stage |-> "staged", key |-> k]
    BY <1>11 DEF MarkValidating
  <2>2. intake' = [stage |-> "sealed", key |-> k] /\ intake # IdleIntake
    BY <1>11, <2>1 DEF MarkValidating, IdleIntake
  <2>3. row[k].state # "none" /\ k \in Keys
    BY <1>b, <2>1, <2>2
  <2>4. row'[k].state = "validating" /\ row'[k].transfer = row[k].transfer
    BY <1>11, <2>3, RowMoves DEF MarkValidating, Set, States, Unresolved
  <2> QED
    BY <1>11, <2>1, <2>2, <2>4 DEF MarkValidating, IntakeInv, files
<1>12. ASSUME NEW k \in Keys, StagedFails(k) PROVE IntakeInv'
  BY <1>12, <1>c DEF StagedFails, IntakeInv, db, files, procs, vars
<1>13. ASSUME NEW k \in Keys, Validate(k) PROVE IntakeInv'
  <2>1. intake = [stage |-> "sealed", key |-> k]
    BY <1>13 DEF Validate
  <2>2. intake' = [stage |-> "validating", key |-> k] /\ intake # IdleIntake
    BY <1>13, <2>1 DEF Validate, IdleIntake
  <2> QED
    BY <1>13, <2>1, <2>2 DEF Validate, IntakeInv, db, files
<1>14. ASSUME NEW k \in Keys, ValidationFailed(k) PROVE IntakeInv'
  BY <1>14, <1>c DEF ValidationFailed, IntakeInv, db, files, procs, vars
<1>15. ASSUME NEW k \in Keys, AcceptDuplicate(k) PROVE IntakeInv'
  BY <1>15, <1>c DEF AcceptDuplicate, IntakeInv, db, files, procs, vars
<1>16. ASSUME NEW k \in Keys, AcceptPrepare(k) PROVE IntakeInv'
  <2>1. txn' # NoTxn
    BY <1>16 DEF AcceptPrepare, NoTxn
  <2> QED
    BY <1>16, <1>c, <2>1 DEF AcceptPrepare, IntakeInv, db
<1>17. ASSUME NEW k \in Keys, AcceptRefused(k) PROVE IntakeInv'
  BY <1>17, <1>c DEF AcceptRefused, IntakeInv, db, files, procs, vars
<1>18. ASSUME NEW k \in Keys, Recover(k) PROVE IntakeInv'
  <2>1. intake = IdleIntake
    BY <1>18, <1>c DEF Recover, IntakeInv
  <2> QED
    BY <1>18, <2>1 DEF Recover, IntakeInv
<1>19. ASSUME NEW v \in Verdicts, ChildEnds(v) PROVE IntakeInv'
  <2>1. CASE intake.stage = "validating"
    <3>1. intake = [stage |-> "validating", key |-> intake.key] /\ intake # IdleIntake
      BY <2>1, IntakeFacts
    <3>2. intake' = [stage |-> v, key |-> intake.key]
      BY <1>19, <2>1, <3>1 DEF ChildEnds
    <3> QED
      BY <1>19, <3>1, <3>2 DEF ChildEnds, IntakeInv, db, Verdicts
  <2>2. CASE intake.stage # "validating"
    BY <1>19, <1>c, <2>2 DEF ChildEnds, IntakeInv, db
  <2> QED
    BY <2>1, <2>2
<1>20. CASE Promote
  <2>1. txn' # NoTxn
    BY <1>20, TxnFacts DEF Promote, NoTxn
  <2> QED
    BY <1>20, <1>c, <2>1 DEF Promote, IntakeInv, db
<1>21. CASE Commit
  BY <1>21, <1>c DEF Commit, IntakeInv, db, files, procs, vars
<1>22. CASE FinishFails
  BY <1>22, <1>c DEF FinishFails, IntakeInv, db, files, procs, vars
<1>23. CASE ServerDies
  BY <1>23, <1>c DEF ServerDies, IntakeInv, db, files, procs, vars
<1>24. CASE ServerStart
  <2>1. intake = IdleIntake
    BY <1>24, <1>c DEF ServerStart, IntakeInv
  <2> QED
    BY <1>24, <2>1 DEF ServerStart, IntakeInv
<1>25. CASE UNCHANGED vars
  BY <1>25, <1>c DEF vars, IntakeInv, db, files, procs, vars
<1> QED
  BY <1>1, <1>2, <1>3, <1>4, <1>5, <1>6, <1>7, <1>8, <1>9, <1>10, <1>11, <1>12, <1>13, <1>14,
      <1>15, <1>16, <1>17, <1>18, <1>19, <1>20, <1>21, <1>22, <1>23, <1>24, <1>25
  DEF Next, Operator, Outside, Intake

\* Every step keeps ChildInv.
LEMMA ChildPreserved ==
  ASSUME TypeOK, IntakeInv, ChildInv, TxnInv, JournalInv, [Next]_vars
  PROVE  ChildInv'
<1>a. RowStep
  BY RowSteps
<1>b. child # NoPlace => /\ child \in Places /\ child[1] \in Keys /\ row[child[1]].state = "validating"
                         /\ txn = NoTxn
  BY PlaceFacts DEF ChildInv, TypeOK, TxnInv
<1>c. ChildInv
  OBVIOUS
<1>1. CASE CreateEntity
  BY <1>1, <1>c DEF CreateEntity, ChildInv, At, db, files, procs, vars
<1>2. CASE CreateDataset
  BY <1>2, <1>c DEF CreateDataset, ChildInv, At, db, files, procs, vars
<1>3. ASSUME NEW p \in Packages, InstallFolder(p) PROVE ChildInv'
  BY <1>3, <1>c DEF InstallFolder, ChildInv, At, db, files, procs, vars
<1>4. ASSUME NEW p \in Packages, InstallPermission(p) PROVE ChildInv'
  BY <1>4, <1>c DEF InstallPermission, ChildInv, At, db, files, procs, vars
<1>5. ASSUME NEW p \in Packages, RevokePermission(p) PROVE ChildInv'
  BY <1>5, <1>c DEF RevokePermission, ChildInv, At, db, files, procs, vars
<1>6. ASSUME NEW p \in Packages, Expire(p) PROVE ChildInv'
  BY <1>6, <1>c DEF Expire, ChildInv, At, db, files, procs, vars
<1>7. ASSUME NEW k \in Keys, NEW p \in Packages, Reserve(k, p) PROVE ChildInv'
  <2>1. row' = [row EXCEPT ![k] = [NoRow EXCEPT !.state = "reserved", !.package = p]]
    BY <1>7 DEF Reserve
  <2>2. child # NoPlace => row'[child[1]] = row[child[1]]
    BY <1>7, <1>b, <2>1 DEF Reserve, TypeOK
  <2> QED
    BY <1>7, <1>c, <2>2 DEF Reserve, ChildInv, At, files, procs
<1>8. ASSUME NEW k \in Keys, TransferStart(k) PROVE ChildInv'
  <2>1. server = "up" /\ intake = IdleIntake /\ child' = child
    BY <1>8 DEF TransferStart
  <2>2. child = NoPlace
    BY <1>c, <2>1 DEF ChildInv, IdleIntake
  <2> QED
    BY <2>1, <2>2 DEF ChildInv
<1>9. ASSUME NEW k \in Keys, ReceiveFails(k) PROVE ChildInv'
  <2>1. child' = child /\ intake.stage \notin {"idle", "validating"}
    BY <1>9 DEF ReceiveFails
  <2>2. child = NoPlace
    BY <2>1, Alone
  <2> QED
    BY <2>1, <2>2 DEF ChildInv
<1>10. ASSUME NEW k \in Keys, StagePackage(k) PROVE ChildInv'
  <2>1. child' = child /\ intake.stage \notin {"idle", "validating"}
    BY <1>10 DEF StagePackage
  <2>2. child = NoPlace
    BY <2>1, Alone
  <2> QED
    BY <2>1, <2>2 DEF ChildInv
<1>11. ASSUME NEW k \in Keys, MarkValidating(k) PROVE ChildInv'
  <2>1. child' = child /\ intake.stage \notin {"idle", "validating"}
    BY <1>11 DEF MarkValidating
  <2>2. child = NoPlace
    BY <2>1, Alone
  <2> QED
    BY <2>1, <2>2 DEF ChildInv
<1>12. ASSUME NEW k \in Keys, StagedFails(k) PROVE ChildInv'
  <2>1. child' = child /\ intake.stage \notin {"idle", "validating"}
    BY <1>12 DEF StagedFails
  <2>2. child = NoPlace
    BY <2>1, Alone
  <2> QED
    BY <2>1, <2>2 DEF ChildInv
<1>13. ASSUME NEW k \in Keys, Validate(k) PROVE ChildInv'
  <2>1. intake = [stage |-> "sealed", key |-> k] /\ intake # IdleIntake /\ txn = NoTxn
    BY <1>13 DEF Validate, GateFree, IdleIntake
  <2>2. row[k].state = "validating" /\ prepared[k] # row[k].transfer /\ k \in Keys
    BY <2>1 DEF IntakeInv
  <2>3. /\ child' = <<k, row[k].transfer>> /\ row' = row /\ prepared' = prepared
        /\ intake' = [stage |-> "validating", key |-> k]
    BY <1>13, <2>1 DEF Validate, At, db, files
  <2>4. child'[1] = k
    BY <2>3
  <2> QED
    BY <2>2, <2>3, <2>4 DEF ChildInv, At
<1>14. ASSUME NEW k \in Keys, ValidationFailed(k) PROVE ChildInv'
  <2>1. child' = child /\ intake.stage \notin {"idle", "validating"}
    BY <1>14 DEF ValidationFailed
  <2>2. child = NoPlace
    BY <2>1, Alone
  <2> QED
    BY <2>1, <2>2 DEF ChildInv
<1>15. ASSUME NEW k \in Keys, AcceptDuplicate(k) PROVE ChildInv'
  <2>1. child' = child /\ intake.stage \notin {"idle", "validating"}
    BY <1>15 DEF AcceptDuplicate
  <2>2. child = NoPlace
    BY <2>1, Alone
  <2> QED
    BY <2>1, <2>2 DEF ChildInv
<1>16. ASSUME NEW k \in Keys, AcceptPrepare(k) PROVE ChildInv'
  <2>1. child' = child /\ intake.stage \notin {"idle", "validating"}
    BY <1>16 DEF AcceptPrepare
  <2>2. child = NoPlace
    BY <2>1, Alone
  <2> QED
    BY <2>1, <2>2 DEF ChildInv
<1>17. ASSUME NEW k \in Keys, AcceptRefused(k) PROVE ChildInv'
  <2>1. child' = child /\ intake.stage \notin {"idle", "validating"}
    BY <1>17 DEF AcceptRefused
  <2>2. child = NoPlace
    BY <2>1, Alone
  <2> QED
    BY <2>1, <2>2 DEF ChildInv
<1>18. ASSUME NEW k \in Keys, Recover(k) PROVE ChildInv'
  <2>1. child = NoPlace /\ child' = child
    BY <1>18 DEF Recover, GateFree
  <2> QED
    BY <2>1 DEF ChildInv
<1>19. ASSUME NEW v \in Verdicts, ChildEnds(v) PROVE ChildInv'
  BY <1>19 DEF ChildEnds, ChildInv
<1>20. CASE Promote
  BY <1>20, <1>c DEF Promote, ChildInv, At, db, files, procs, vars
<1>21. CASE Commit
  <2>1. child = NoPlace /\ child' = child
    BY <1>21, TxnFacts DEF Commit, TxnInv
  <2> QED
    BY <2>1 DEF ChildInv
<1>22. CASE FinishFails
  <2>1. child = NoPlace /\ child' = child
    BY <1>22, TxnFacts DEF FinishFails, TxnInv
  <2> QED
    BY <2>1 DEF ChildInv
<1>23. CASE ServerDies
  BY <1>23, <1>c DEF ServerDies, ChildInv, At, db, files, procs, vars
<1>24. CASE ServerStart
  <2>1. child = NoPlace /\ child' = child
    BY <1>24 DEF ServerStart, GateFree
  <2> QED
    BY <2>1 DEF ChildInv
<1>25. CASE UNCHANGED vars
  BY <1>25, <1>c DEF vars, ChildInv, At, db, files, procs, vars
<1> QED
  BY <1>1, <1>2, <1>3, <1>4, <1>5, <1>6, <1>7, <1>8, <1>9, <1>10, <1>11, <1>12, <1>13, <1>14,
      <1>15, <1>16, <1>17, <1>18, <1>19, <1>20, <1>21, <1>22, <1>23, <1>24, <1>25
  DEF Next, Operator, Outside, Intake

\* Every step keeps TxnInv.
LEMMA TxnPreserved ==
  ASSUME TypeOK, IntakeInv, ChildInv, TxnInv, JournalInv, [Next]_vars
  PROVE  TxnInv'
<1>a. TxnInv
  OBVIOUS
<1>b. versions' = versions => ResearchVersions' = ResearchVersions /\ Scope' = Scope
  BY DEF ResearchVersions, Scope
<1>1. CASE CreateEntity
  <2>1. txn = NoTxn /\ txn' = txn
    BY <1>1 DEF CreateEntity, Unlocked, GateFree, procs
  <2> QED
    BY <2>1 DEF TxnInv
<1>2. CASE CreateDataset
  <2>1. txn = NoTxn /\ txn' = txn
    BY <1>2 DEF CreateDataset, Unlocked, GateFree, procs
  <2> QED
    BY <2>1 DEF TxnInv
<1>3. ASSUME NEW p \in Packages, InstallFolder(p) PROVE TxnInv'
  <2>1. txn = NoTxn /\ txn' = txn
    BY <1>3 DEF InstallFolder, Unlocked, GateFree, procs
  <2> QED
    BY <2>1 DEF TxnInv
<1>4. ASSUME NEW p \in Packages, InstallPermission(p) PROVE TxnInv'
  <2>1. txn = NoTxn /\ txn' = txn
    BY <1>4 DEF InstallPermission, Unlocked, GateFree, procs
  <2> QED
    BY <2>1 DEF TxnInv
<1>5. ASSUME NEW p \in Packages, RevokePermission(p) PROVE TxnInv'
  <2>1. txn = NoTxn /\ txn' = txn
    BY <1>5 DEF RevokePermission, Unlocked, GateFree, procs
  <2> QED
    BY <2>1 DEF TxnInv
<1>6. ASSUME NEW p \in Packages, Expire(p) PROVE TxnInv'
  <2>1. versions' = versions /\ row' = row /\ prepared' = prepared /\ inputs' = inputs
        /\ pinned' = pinned /\ txn' = txn /\ child' = child /\ intake' = intake /\ server' = server
    BY <1>6 DEF Expire, files, procs
  <2>2. \A q \in Packages : permission[q] \in {"live", "expired"} => permission'[q] \in {"live", "expired"}
    BY <1>6 DEF Expire, TypeOK
  <2>3. txn # NoTxn => Pkg(txn.place[1]) \in Packages
    BY TxnFacts
  <2> QED
    BY <1>a, <1>b, <2>1, <2>2, <2>3 DEF TxnInv, Pkg, ScopeAgrees
<1>7. ASSUME NEW k \in Keys, NEW p \in Packages, Reserve(k, p) PROVE TxnInv'
  <2>1. txn = NoTxn /\ txn' = txn
    BY <1>7 DEF Reserve, Unlocked, GateFree, procs
  <2> QED
    BY <2>1 DEF TxnInv
<1>8. ASSUME NEW k \in Keys, TransferStart(k) PROVE TxnInv'
  <2>1. txn = NoTxn /\ txn' = txn
    BY <1>8 DEF TransferStart, Unlocked, GateFree
  <2> QED
    BY <2>1 DEF TxnInv
<1>9. ASSUME NEW k \in Keys, ReceiveFails(k) PROVE TxnInv'
  <2>1. txn' = txn /\ intake.stage \notin {"idle", "valid"}
    BY <1>9 DEF ReceiveFails
  <2>2. txn = NoTxn
    BY <2>1, Alone
  <2> QED
    BY <2>1, <2>2 DEF TxnInv
<1>10. ASSUME NEW k \in Keys, StagePackage(k) PROVE TxnInv'
  <2>1. txn' = txn /\ intake.stage \notin {"idle", "valid"}
    BY <1>10 DEF StagePackage
  <2>2. txn = NoTxn
    BY <2>1, Alone
  <2> QED
    BY <2>1, <2>2 DEF TxnInv
<1>11. ASSUME NEW k \in Keys, MarkValidating(k) PROVE TxnInv'
  <2>1. txn = NoTxn /\ txn' = txn
    BY <1>11 DEF MarkValidating, Unlocked, GateFree
  <2> QED
    BY <2>1 DEF TxnInv
<1>12. ASSUME NEW k \in Keys, StagedFails(k) PROVE TxnInv'
  <2>1. txn' = txn /\ intake.stage \notin {"idle", "valid"}
    BY <1>12 DEF StagedFails
  <2>2. txn = NoTxn
    BY <2>1, Alone
  <2> QED
    BY <2>1, <2>2 DEF TxnInv
<1>13. ASSUME NEW k \in Keys, Validate(k) PROVE TxnInv'
  <2>1. txn = NoTxn /\ txn' = txn
    BY <1>13 DEF Validate, Unlocked, GateFree, procs
  <2> QED
    BY <2>1 DEF TxnInv
<1>14. ASSUME NEW k \in Keys, ValidationFailed(k) PROVE TxnInv'
  <2>1. txn' = txn /\ intake.stage \notin {"idle", "valid"}
    BY <1>14 DEF ValidationFailed
  <2>2. txn = NoTxn
    BY <2>1, Alone
  <2> QED
    BY <2>1, <2>2 DEF TxnInv
<1>15. ASSUME NEW k \in Keys, AcceptDuplicate(k) PROVE TxnInv'
  <2>1. txn = NoTxn /\ txn' = txn
    BY <1>15 DEF AcceptDuplicate, Unlocked, GateFree
  <2> QED
    BY <2>1 DEF TxnInv
<1>16. ASSUME NEW k \in Keys, AcceptPrepare(k) PROVE TxnInv'
  <2>1. intake = [stage |-> "valid", key |-> k] /\ intake.stage # "idle"
    BY <1>16 DEF AcceptPrepare
  <2>2. row[k].state = "validating" /\ child = NoPlace /\ k \in Keys
    BY <2>1, IntakeFacts, Alone DEF IntakeInv
  <2>3. /\ txn' = [stage |-> "prepared", by |-> "server", place |-> <<k, row[k].transfer>>]
        /\ prepared' = [prepared EXCEPT ![k] = row[k].transfer] /\ row' = row /\ child' = child
        /\ intake' = intake
    BY <1>16 DEF AcceptPrepare, At, db
  <2>4. txn'.place[1] = k /\ txn'.place[2] = row[k].transfer
    BY <2>3
  <2>5. prepared'[k] = row[k].transfer
    BY <2>2, <2>3 DEF TypeOK
  <2> QED
    BY <2>1, <2>2, <2>3, <2>4, <2>5 DEF TxnInv
<1>17. ASSUME NEW k \in Keys, AcceptRefused(k) PROVE TxnInv'
  <2>1. txn = NoTxn /\ txn' = txn
    BY <1>17 DEF AcceptRefused, Unlocked, GateFree
  <2> QED
    BY <2>1 DEF TxnInv
<1>18. ASSUME NEW k \in Keys, Recover(k) PROVE TxnInv'
  <2>1. /\ txn' = [stage |-> "prepared", by |-> "operator", place |-> <<k, prepared[k]>>]
        /\ prepared' = prepared /\ row' = row /\ child' = child /\ child = NoPlace
        /\ server' = server /\ server = "down"
        /\ row[k].state \in {"validating", "interrupted", "delivery_failed"}
    BY <1>18 DEF Recover, files, db
  <2>2. txn'.place[1] = k /\ txn'.place[2] = prepared[k]
    BY <2>1
  <2> QED
    BY <2>1, <2>2 DEF TxnInv
<1>19. ASSUME NEW v \in Verdicts, ChildEnds(v) PROVE TxnInv'
  <2>1. txn = NoTxn /\ txn' = txn
    BY <1>19 DEF ChildEnds, TxnInv
  <2> QED
    BY <2>1 DEF TxnInv
<1>20. CASE Promote
  <2>1. txn # NoTxn /\ txn.place \in Places
    BY <1>20, TxnFacts DEF Promote
  <2>2. /\ txn'.place = txn.place /\ txn'.by = txn.by /\ txn' # NoTxn
    BY <1>20, <2>1, TxnFacts DEF Promote, NoTxn
  <2>3. /\ versions' = versions /\ row' = row /\ prepared' = prepared /\ permission' = permission
        /\ pinned' = pinned /\ child' = child /\ intake' = intake /\ server' = server
    BY <1>20 DEF Promote, db
  <2>4. txn.place \in inputs'
    BY <1>20 DEF Promote
  <2>5. Live(Pkg(txn.place[1])) /\ ScopeAgrees(Pkg(txn.place[1]), pinned[txn.place], txn.place)
    BY <1>20 DEF Promote, Finishable
  <2>6. permission[Pkg(txn.place[1])] = "live"
    BY <2>5 DEF Live
  <2>7. ScopeAgrees(Pkg(txn.place[1]), pinned[txn.place], txn.place)'
    BY <1>b, <2>2, <2>3, <2>5 DEF ScopeAgrees, Pkg
  <2> QED
    BY <1>a, <2>1, <2>2, <2>3, <2>4, <2>6, <2>7 DEF TxnInv, Pkg
<1>21. CASE Commit
  BY <1>21 DEF Commit, TxnInv
<1>22. CASE FinishFails
  BY <1>22 DEF FinishFails, TxnInv
<1>23. CASE ServerDies
  BY <1>23 DEF ServerDies, TxnInv
<1>24. CASE ServerStart
  <2>1. txn = NoTxn /\ txn' = txn
    BY <1>24 DEF ServerStart, Unlocked, GateFree
  <2> QED
    BY <2>1 DEF TxnInv
<1>25. CASE UNCHANGED vars
  BY <1>25, <1>a, <1>b DEF vars, TxnInv, Pkg, ScopeAgrees, db, files, procs, vars
<1> QED
  BY <1>1, <1>2, <1>3, <1>4, <1>5, <1>6, <1>7, <1>8, <1>9, <1>10, <1>11, <1>12, <1>13, <1>14,
      <1>15, <1>16, <1>17, <1>18, <1>19, <1>20, <1>21, <1>22, <1>23, <1>24, <1>25
  DEF Next, Operator, Outside, Intake

\* What a transfer or its validator still writes to is not in inputs/.
LEMMA FreshFolder ==
  ASSUME TypeOK, IntakeInv, PreparedWhole, NEW pl \in Places, prepared[pl[1]] # pl[2]
  PROVE  /\ pl \notin inputs
         /\ \A k \in Keys : <<k, prepared[k]>> # pl
BY DEF PreparedWhole

\* The folder of the transfer in hand, when no transaction has it.
LEMMA FolderInHand ==
  ASSUME TypeOK, IntakeInv, ChildInv, TxnInv, PreparedWhole,
         intake.stage # "idle", txn = NoTxn
  PROVE  /\ At(intake.key) \in Places /\ At(intake.key) \notin inputs
         /\ \A k \in Keys : <<k, prepared[k]>> # At(intake.key)
<1>1. At(intake.key) \in Places /\ intake.key \in Keys
  BY IntakeFacts
<1>2. prepared[At(intake.key)[1]] # At(intake.key)[2]
  BY IntakeFacts DEF IntakeInv, At
<1> QED
  BY <1>1, <1>2, FreshFolder

\* The folder a live validator works on.
LEMMA FolderOfChild ==
  ASSUME TypeOK, IntakeInv, ChildInv, PreparedWhole, child # NoPlace
  PROVE  /\ child \in Places /\ child \notin inputs
         /\ \A k \in Keys : <<k, prepared[k]>> # child
<1>1. child \in Places
  BY DEF TypeOK
<1>2. prepared[child[1]] # child[2]
  BY <1>1, PlaceFacts DEF ChildInv, At
<1> QED
  BY <1>1, <1>2, FreshFolder

\* Every step keeps JournalInv.
LEMMA JournalPreserved ==
  ASSUME TypeOK, IntakeInv, ChildInv, TxnInv, JournalInv, PreparedWhole, [Next]_vars
  PROVE  JournalInv'
<1>a. RowStep
  BY RowSteps
<1>b. \A k \in Keys : /\ row[k].transfer \in Nat /\ row'[k].transfer \in Nat /\ prepared[k] \in Nat
                      /\ prepared[k] <= row[k].transfer /\ row[k].transfer <= row'[k].transfer
                      /\ row'[k].state = "none" => row'[k].transfer = 0
  BY <1>a, ImportAssumption DEF RowStep, TypeOK, Rows, JournalInv
<1>c. \A k \in Keys : prepared[k] <= row'[k].transfer
  BY <1>b
<1>d. \A pl \in inputs : staged[pl] = "none"
  BY DEF JournalInv
<1>1. CASE CreateEntity
  BY <1>1, <1>b, <1>c, <1>d DEF CreateEntity, JournalInv, db, files, procs, vars
<1>2. CASE CreateDataset
  BY <1>2, <1>b, <1>c, <1>d DEF CreateDataset, JournalInv, db, files, procs, vars
<1>3. ASSUME NEW p \in Packages, InstallFolder(p) PROVE JournalInv'
  BY <1>3, <1>b, <1>c, <1>d DEF InstallFolder, JournalInv, db, files, procs, vars
<1>4. ASSUME NEW p \in Packages, InstallPermission(p) PROVE JournalInv'
  BY <1>4, <1>b, <1>c, <1>d DEF InstallPermission, JournalInv, db, files, procs, vars
<1>5. ASSUME NEW p \in Packages, RevokePermission(p) PROVE JournalInv'
  BY <1>5, <1>b, <1>c, <1>d DEF RevokePermission, JournalInv, db, files, procs, vars
<1>6. ASSUME NEW p \in Packages, Expire(p) PROVE JournalInv'
  BY <1>6, <1>b, <1>c, <1>d DEF Expire, JournalInv, db, files, procs, vars
<1>7. ASSUME NEW k \in Keys, NEW p \in Packages, Reserve(k, p) PROVE JournalInv'
  BY <1>7, <1>b, <1>c, <1>d DEF Reserve, JournalInv, db, files, procs, vars
<1>8. ASSUME NEW k \in Keys, TransferStart(k) PROVE JournalInv'
  BY <1>8, <1>b, <1>c, <1>d DEF TransferStart, JournalInv, db, files, procs, vars
<1>9. ASSUME NEW k \in Keys, ReceiveFails(k) PROVE JournalInv'
  BY <1>9, <1>b, <1>c, <1>d DEF ReceiveFails, JournalInv, db, files, procs, vars
<1>10. ASSUME NEW k \in Keys, StagePackage(k) PROVE JournalInv'
  <2>1. intake.key = k /\ intake.stage # "idle"
    BY <1>10 DEF StagePackage
  <2>2. txn = NoTxn
    BY <1>10, <2>1, Alone DEF StagePackage, Unlocked
  <2>3. At(k) \in Places /\ At(k) \notin inputs
    BY <2>1, <2>2, FolderInHand
  <2>4. \A pl \in Places \ {At(k)} : staged'[pl] = staged[pl]
    BY <1>10, <2>3 DEF StagePackage, TypeOK
  <2>5. inputs' = inputs /\ prepared' = prepared /\ inputs \subseteq Places
    BY <1>10 DEF StagePackage, TypeOK
  <2>6. \A pl \in inputs' : staged'[pl] = "none"
    BY <1>d, <2>3, <2>4, <2>5
  <2> QED
    BY <1>b, <1>c, <2>5, <2>6 DEF JournalInv
<1>11. ASSUME NEW k \in Keys, MarkValidating(k) PROVE JournalInv'
  BY <1>11, <1>b, <1>c, <1>d DEF MarkValidating, JournalInv, db, files, procs, vars
<1>12. ASSUME NEW k \in Keys, StagedFails(k) PROVE JournalInv'
  BY <1>12, <1>b, <1>c, <1>d DEF StagedFails, JournalInv, db, files, procs, vars
<1>13. ASSUME NEW k \in Keys, Validate(k) PROVE JournalInv'
  BY <1>13, <1>b, <1>c, <1>d DEF Validate, JournalInv, db, files, procs, vars
<1>14. ASSUME NEW k \in Keys, ValidationFailed(k) PROVE JournalInv'
  BY <1>14, <1>b, <1>c, <1>d DEF ValidationFailed, JournalInv, db, files, procs, vars
<1>15. ASSUME NEW k \in Keys, AcceptDuplicate(k) PROVE JournalInv'
  BY <1>15, <1>b, <1>c, <1>d DEF AcceptDuplicate, JournalInv, db, files, procs, vars
<1>16. ASSUME NEW k \in Keys, AcceptPrepare(k) PROVE JournalInv'
  <2>1. intake.key = k /\ intake.stage # "idle" /\ txn = NoTxn /\ k \in Keys /\ row' = row
    BY <1>16 DEF AcceptPrepare, Unlocked, db
  <2>2. At(k) \in Places /\ At(k) \notin inputs
    BY <2>1, FolderInHand
  <2>3. \A pl \in Places \ {At(k)} : staged'[pl] = staged[pl]
    BY <1>16, <2>2 DEF AcceptPrepare, TypeOK
  <2>4. inputs' = inputs /\ inputs \subseteq Places
    BY <1>16 DEF AcceptPrepare, TypeOK
  <2>5. \A pl \in inputs' : staged'[pl] = "none"
    BY <1>d, <2>2, <2>3, <2>4
  <2>6. \A i \in Keys : prepared'[i] <= row'[i].transfer
    BY <1>16, <1>b, <2>1 DEF AcceptPrepare, TypeOK
  <2> QED
    BY <1>b, <2>5, <2>6 DEF JournalInv
<1>17. ASSUME NEW k \in Keys, AcceptRefused(k) PROVE JournalInv'
  <2>1. intake.key = k /\ intake.stage # "idle"
    BY <1>17 DEF AcceptRefused
  <2>2. txn = NoTxn
    BY <1>17, <2>1, Alone DEF AcceptRefused, Unlocked
  <2>3. At(k) \in Places /\ At(k) \notin inputs
    BY <2>1, <2>2, FolderInHand
  <2>4. \A pl \in Places \ {At(k)} : staged'[pl] = staged[pl]
    BY <1>17, <2>3 DEF AcceptRefused, TypeOK
  <2>5. inputs' = inputs /\ prepared' = prepared /\ inputs \subseteq Places
    BY <1>17 DEF AcceptRefused, TypeOK
  <2>6. \A pl \in inputs' : staged'[pl] = "none"
    BY <1>d, <2>3, <2>4, <2>5
  <2> QED
    BY <1>b, <1>c, <2>5, <2>6 DEF JournalInv
<1>18. ASSUME NEW k \in Keys, Recover(k) PROVE JournalInv'
  BY <1>18, <1>b, <1>c, <1>d DEF Recover, JournalInv, db, files, procs, vars
<1>19. ASSUME NEW v \in Verdicts, ChildEnds(v) PROVE JournalInv'
  <2>1. child # NoPlace
    BY <1>19 DEF ChildEnds
  <2>2. child \in Places /\ child \notin inputs
    BY <2>1, FolderOfChild
  <2>3. \A pl \in Places \ {child} : staged'[pl] = staged[pl]
    BY <1>19, <2>2 DEF ChildEnds, TypeOK
  <2>4. inputs' = inputs /\ prepared' = prepared /\ inputs \subseteq Places
    BY <1>19 DEF ChildEnds, TypeOK
  <2>5. \A pl \in inputs' : staged'[pl] = "none"
    BY <1>d, <2>2, <2>3, <2>4
  <2> QED
    BY <1>b, <1>c, <2>4, <2>5 DEF JournalInv
<1>20. CASE Promote
  <2>1. txn.place \in Places
    BY <1>20, TxnFacts DEF Promote
  <2>2. \A pl \in inputs' : staged'[pl] = "none"
    BY <1>20, <1>d, <2>1 DEF Promote, TypeOK
  <2>3. prepared' = prepared
    BY <1>20 DEF Promote
  <2> QED
    BY <1>b, <1>c, <2>2, <2>3 DEF JournalInv
<1>21. CASE Commit
  BY <1>21, <1>b, <1>c, <1>d DEF Commit, JournalInv, db, files, procs, vars
<1>22. CASE FinishFails
  BY <1>22, <1>b, <1>c, <1>d DEF FinishFails, JournalInv, db, files, procs, vars
<1>23. CASE ServerDies
  BY <1>23, <1>b, <1>c, <1>d DEF ServerDies, JournalInv, db, files, procs, vars
<1>24. CASE ServerStart
  BY <1>24, <1>b, <1>c, <1>d DEF ServerStart, JournalInv, db, files, procs, vars
<1>25. CASE UNCHANGED vars
  BY <1>25, <1>b, <1>c, <1>d DEF vars, JournalInv, db, files, procs, vars
<1> QED
  BY <1>1, <1>2, <1>3, <1>4, <1>5, <1>6, <1>7, <1>8, <1>9, <1>10, <1>11, <1>12, <1>13, <1>14,
      <1>15, <1>16, <1>17, <1>18, <1>19, <1>20, <1>21, <1>22, <1>23, <1>24, <1>25
  DEF Next, Operator, Outside, Intake

\* Every step keeps PreparedWhole.
LEMMA PreparedPreserved ==
  ASSUME TypeOK, IntakeInv, ChildInv, TxnInv, JournalInv, PreparedWhole, [Next]_vars
  PROVE  PreparedWhole'
<1>a. /\ \A k \in Keys : prepared[k] # 0 =>
           (<<k, prepared[k]>> \in inputs) # (staged[<<k, prepared[k]>>] = "contract")
      /\ \A pl \in inputs : prepared[pl[1]] = pl[2]
  BY DEF PreparedWhole
<1>b. \A k \in Keys : prepared[k] # 0 => <<k, prepared[k]>> \in Places
  BY PlaceFacts, ImportAssumption DEF TypeOK, Transfers
<1>1. CASE CreateEntity
  BY <1>1, <1>a DEF CreateEntity, PreparedWhole, db, files, procs, vars
<1>2. CASE CreateDataset
  BY <1>2, <1>a DEF CreateDataset, PreparedWhole, db, files, procs, vars
<1>3. ASSUME NEW p \in Packages, InstallFolder(p) PROVE PreparedWhole'
  BY <1>3, <1>a DEF InstallFolder, PreparedWhole, db, files, procs, vars
<1>4. ASSUME NEW p \in Packages, InstallPermission(p) PROVE PreparedWhole'
  BY <1>4, <1>a DEF InstallPermission, PreparedWhole, db, files, procs, vars
<1>5. ASSUME NEW p \in Packages, RevokePermission(p) PROVE PreparedWhole'
  BY <1>5, <1>a DEF RevokePermission, PreparedWhole, db, files, procs, vars
<1>6. ASSUME NEW p \in Packages, Expire(p) PROVE PreparedWhole'
  BY <1>6, <1>a DEF Expire, PreparedWhole, db, files, procs, vars
<1>7. ASSUME NEW k \in Keys, NEW p \in Packages, Reserve(k, p) PROVE PreparedWhole'
  BY <1>7, <1>a DEF Reserve, PreparedWhole, db, files, procs, vars
<1>8. ASSUME NEW k \in Keys, TransferStart(k) PROVE PreparedWhole'
  BY <1>8, <1>a DEF TransferStart, PreparedWhole, db, files, procs, vars
<1>9. ASSUME NEW k \in Keys, ReceiveFails(k) PROVE PreparedWhole'
  BY <1>9, <1>a DEF ReceiveFails, PreparedWhole, db, files, procs, vars
<1>10. ASSUME NEW k \in Keys, StagePackage(k) PROVE PreparedWhole'
  <2>1. intake.key = k /\ intake.stage # "idle"
    BY <1>10 DEF StagePackage
  <2>2. txn = NoTxn
    BY <1>10, <2>1, Alone DEF StagePackage, Unlocked
  <2>3. At(k) \in Places /\ \A i \in Keys : <<i, prepared[i]>> # At(k)
    BY <2>1, <2>2, FolderInHand
  <2>4. \A pl \in Places \ {At(k)} : staged'[pl] = staged[pl]
    BY <1>10, <2>3 DEF StagePackage, TypeOK
  <2>5. inputs' = inputs /\ prepared' = prepared
    BY <1>10 DEF StagePackage
  <2>6. \A i \in Keys : prepared[i] # 0 => staged'[<<i, prepared[i]>>] = staged[<<i, prepared[i]>>]
    BY <1>b, <2>3, <2>4
  <2> QED
    BY <1>a, <2>5, <2>6 DEF PreparedWhole
<1>11. ASSUME NEW k \in Keys, MarkValidating(k) PROVE PreparedWhole'
  BY <1>11, <1>a DEF MarkValidating, PreparedWhole, db, files, procs, vars
<1>12. ASSUME NEW k \in Keys, StagedFails(k) PROVE PreparedWhole'
  BY <1>12, <1>a DEF StagedFails, PreparedWhole, db, files, procs, vars
<1>13. ASSUME NEW k \in Keys, Validate(k) PROVE PreparedWhole'
  BY <1>13, <1>a DEF Validate, PreparedWhole, db, files, procs, vars
<1>14. ASSUME NEW k \in Keys, ValidationFailed(k) PROVE PreparedWhole'
  BY <1>14, <1>a DEF ValidationFailed, PreparedWhole, db, files, procs, vars
<1>15. ASSUME NEW k \in Keys, AcceptDuplicate(k) PROVE PreparedWhole'
  BY <1>15, <1>a DEF AcceptDuplicate, PreparedWhole, db, files, procs, vars
<1>16. ASSUME NEW k \in Keys, AcceptPrepare(k) PROVE PreparedWhole'
  <2>1. intake.key = k /\ intake.stage # "idle" /\ txn = NoTxn /\ k \in Keys
    BY <1>16 DEF AcceptPrepare, Unlocked
  <2>2. At(k) \in Places /\ At(k) \notin inputs /\ \A i \in Keys : <<i, prepared[i]>> # At(k)
    BY <2>1, FolderInHand
  <2>3. /\ staged'[At(k)] = "contract"
        /\ \A pl \in Places \ {At(k)} : staged'[pl] = staged[pl]
    BY <1>16, <2>2 DEF AcceptPrepare, TypeOK
  <2>4. /\ prepared'[k] = row[k].transfer /\ prepared[k] = 0 /\ inputs' = inputs
        /\ \A i \in Keys \ {k} : prepared'[i] = prepared[i]
    BY <1>16, <2>1 DEF AcceptPrepare, TypeOK
  <2>5. <<k, prepared'[k]>> = At(k)
    BY <2>4 DEF At
  <2>6. ASSUME NEW i \in Keys, prepared'[i] # 0
        PROVE  (<<i, prepared'[i]>> \in inputs') # (staged'[<<i, prepared'[i]>>] = "contract")
    <3>1. CASE i = k
      BY <3>1, <2>2, <2>3, <2>4, <2>5
    <3>2. CASE i # k
      <4>1. prepared'[i] = prepared[i]
        BY <3>2, <2>4
      <4>2. <<i, prepared[i]>> \in Places \ {At(k)}
        BY <2>2, <2>6, <4>1, <1>b
      <4> QED
        BY <1>a, <2>3, <2>4, <2>6, <4>1, <4>2
    <3> QED
      BY <3>1, <3>2
  <2>7. ASSUME NEW pl \in inputs' PROVE prepared'[pl[1]] = pl[2]
    <3>1. pl \in inputs /\ pl \in Places /\ prepared[pl[1]] = pl[2]
      BY <1>a, <2>4, <2>7 DEF TypeOK
    <3>2. pl[1] \in Keys /\ pl[2] # 0
      BY <3>1, PlaceFacts DEF Transfers
    <3> QED
      BY <2>4, <3>1, <3>2
  <2> QED
    BY <2>6, <2>7 DEF PreparedWhole
<1>17. ASSUME NEW k \in Keys, AcceptRefused(k) PROVE PreparedWhole'
  <2>1. intake.key = k /\ intake.stage # "idle"
    BY <1>17 DEF AcceptRefused
  <2>2. txn = NoTxn
    BY <1>17, <2>1, Alone DEF AcceptRefused, Unlocked
  <2>3. At(k) \in Places /\ \A i \in Keys : <<i, prepared[i]>> # At(k)
    BY <2>1, <2>2, FolderInHand
  <2>4. \A pl \in Places \ {At(k)} : staged'[pl] = staged[pl]
    BY <1>17, <2>3 DEF AcceptRefused, TypeOK
  <2>5. inputs' = inputs /\ prepared' = prepared
    BY <1>17 DEF AcceptRefused
  <2>6. \A i \in Keys : prepared[i] # 0 => staged'[<<i, prepared[i]>>] = staged[<<i, prepared[i]>>]
    BY <1>b, <2>3, <2>4
  <2> QED
    BY <1>a, <2>5, <2>6 DEF PreparedWhole
<1>18. ASSUME NEW k \in Keys, Recover(k) PROVE PreparedWhole'
  BY <1>18, <1>a DEF Recover, PreparedWhole, db, files, procs, vars
<1>19. ASSUME NEW v \in Verdicts, ChildEnds(v) PROVE PreparedWhole'
  <2>1. child # NoPlace
    BY <1>19 DEF ChildEnds
  <2>2. child \in Places /\ \A i \in Keys : <<i, prepared[i]>> # child
    BY <2>1, FolderOfChild
  <2>3. \A pl \in Places \ {child} : staged'[pl] = staged[pl]
    BY <1>19, <2>2 DEF ChildEnds, TypeOK
  <2>4. inputs' = inputs /\ prepared' = prepared
    BY <1>19 DEF ChildEnds
  <2>5. \A i \in Keys : prepared[i] # 0 => staged'[<<i, prepared[i]>>] = staged[<<i, prepared[i]>>]
    BY <1>b, <2>2, <2>3
  <2> QED
    BY <1>a, <2>4, <2>5 DEF PreparedWhole
<1>20. CASE Promote
  <2>1. /\ txn # NoTxn /\ txn.place \in Places /\ txn.place[1] \in Keys
        /\ txn.place = <<txn.place[1], txn.place[2]>>
    BY <1>20, TxnFacts DEF Promote
  <2>2. prepared[txn.place[1]] = txn.place[2] /\ prepared' = prepared
    BY <1>20, <2>1 DEF Promote, TxnInv
  <2>3. CASE txn.place \in inputs /\ UNCHANGED <<staged, inputs>>
    BY <1>a, <2>2, <2>3 DEF PreparedWhole
  <2>4. CASE /\ txn.place \notin inputs
             /\ staged' = [staged EXCEPT ![txn.place] = "none"]
             /\ inputs' = inputs \cup {txn.place}
    <3>1. /\ staged'[txn.place] = "none"
          /\ \A pl \in Places \ {txn.place} : staged'[pl] = staged[pl]
      BY <2>1, <2>4 DEF TypeOK
    <3>2. ASSUME NEW i \in Keys, prepared[i] # 0
          PROVE  (<<i, prepared[i]>> \in inputs') # (staged'[<<i, prepared[i]>>] = "contract")
      BY <1>a, <1>b, <2>4, <3>1, <3>2
    <3>3. \A pl \in inputs' : prepared[pl[1]] = pl[2]
      BY <1>a, <2>2, <2>4
    <3> QED
      BY <2>2, <3>2, <3>3 DEF PreparedWhole
  <2> QED
    BY <1>20, <2>3, <2>4 DEF Promote
<1>21. CASE Commit
  BY <1>21, <1>a DEF Commit, PreparedWhole, db, files, procs, vars
<1>22. CASE FinishFails
  BY <1>22, <1>a DEF FinishFails, PreparedWhole, db, files, procs, vars
<1>23. CASE ServerDies
  BY <1>23, <1>a DEF ServerDies, PreparedWhole, db, files, procs, vars
<1>24. CASE ServerStart
  BY <1>24, <1>a DEF ServerStart, PreparedWhole, db, files, procs, vars
<1>25. CASE UNCHANGED vars
  BY <1>25, <1>a DEF vars, PreparedWhole, db, files, procs, vars
<1> QED
  BY <1>1, <1>2, <1>3, <1>4, <1>5, <1>6, <1>7, <1>8, <1>9, <1>10, <1>11, <1>12, <1>13, <1>14,
      <1>15, <1>16, <1>17, <1>18, <1>19, <1>20, <1>21, <1>22, <1>23, <1>24, <1>25
  DEF Next, Operator, Outside, Intake

\* A larger member does not change the least one.
LEMMA LeastKept ==
  ASSUME NEW R \in SUBSET Nat, R # {}, NEW l \in Nat, \A n \in R : n <= l
  PROVE  Min(R \cup {l + 1}) = Min(R)
<1> DEFINE T == R \cup {l + 1}
<1>1. T \in SUBSET Nat /\ T # {}
  OBVIOUS
<1>2. PICK a \in R : a = Min(R) /\ \A n \in R : a <= n
  BY LeastMember
<1>3. PICK b \in T : b = Min(T) /\ \A n \in T : b <= n
  <2> HIDE DEF T
  <2> QED
    BY <1>1, LeastMember
<1>4. b <= a /\ a <= l /\ a \in Nat /\ b \in Nat
  BY <1>2, <1>3
<1>5. b \in R
  BY <1>3, <1>4
<1>6. a = b
  BY <1>2, <1>4, <1>5
<1> QED
  BY <1>2, <1>3, <1>6

\* Only a commit writes the list of versions.
LEMMA OnlyCommit ==
  ASSUME [Next]_vars
  PROVE  Commit \/ versions' = versions
BY DEF Next, vars, db, Operator, Outside, Intake, CreateEntity, CreateDataset, InstallFolder,
   InstallPermission, RevokePermission, Expire, Reserve, TransferStart, ReceiveFails,
   StagePackage, MarkValidating, StagedFails, Validate, ValidationFailed, AcceptDuplicate,
   AcceptPrepare, AcceptRefused, Recover, ChildEnds, Promote, FinishFails, ServerDies,
   ServerStart

\* Only a commit adds a version, the one of the import it was promoted for.
LEMMA VersionsGrow ==
  ASSUME TypeOK, TxnInv, [Next]_vars
  PROVE  \/ versions' = versions
         \/ \E v \in Versions :
              /\ txn # NoTxn /\ v.id = txn.place /\ v.package = Pkg(txn.place[1])
              /\ permission[v.package] \in {"live", "expired"} /\ txn.place \in inputs
              /\ ScopeAgrees(v.package, v.pin, v.id)
              /\ versions' = Append(versions, v)
              /\ inputs' = inputs /\ staged' = staged
<1>1. CASE Commit
  <2> DEFINE v == [id |-> txn.place, package |-> Pkg(txn.place[1]), pin |-> pinned[txn.place]]
  <2>1. txn # NoTxn /\ txn.stage = "promoted"
    BY <1>1, TxnFacts DEF Commit
  <2>2. versions' = Append(versions, v) /\ inputs' = inputs /\ staged' = staged
    BY <1>1 DEF Commit, files
  <2>3. v \in Versions
    BY <2>1, TxnFacts DEF TypeOK, Versions
  <2>4. /\ txn.place \in inputs /\ permission[Pkg(txn.place[1])] \in {"live", "expired"}
        /\ ScopeAgrees(Pkg(txn.place[1]), pinned[txn.place], txn.place)
    BY <2>1 DEF TxnInv
  <2>5. /\ v.id = txn.place /\ v.package = Pkg(txn.place[1])
        /\ permission[v.package] \in {"live", "expired"}
        /\ ScopeAgrees(v.package, v.pin, v.id)
    BY <2>4
  <2> HIDE DEF v
  <2> QED
    BY <2>1, <2>2, <2>3, <2>4, <2>5
<1>2. CASE ~Commit
  BY <1>2, OnlyCommit
<1> QED
  BY <1>1, <1>2

\* What appending a version does to the list.
LEMMA VersionAppended ==
  ASSUME TypeOK, NEW v \in Versions, versions' = Append(versions, v)
  PROVE  /\ Len(versions) \in Nat /\ DOMAIN versions = 1..Len(versions)
         /\ DOMAIN versions' = DOMAIN versions \cup {Len(versions) + 1}
         /\ \A n \in DOMAIN versions : versions'[n] = versions[n]
         /\ versions'[Len(versions) + 1] = v
         /\ ResearchVersions' = ResearchVersions
              \cup (IF v.package.format = "research" THEN {Len(versions) + 1} ELSE {})
<1>1. Len(versions) \in Nat /\ DOMAIN versions = 1..Len(versions)
  BY DEF TypeOK
<1>2. /\ Len(versions') = Len(versions) + 1 /\ DOMAIN versions' = 1..(Len(versions) + 1)
      /\ \A n \in 1..Len(versions) : versions'[n] = versions[n]
      /\ versions'[Len(versions) + 1] = v
  BY AppendProperties DEF TypeOK
<1>3. DOMAIN versions' = DOMAIN versions \cup {Len(versions) + 1}
  BY <1>1, <1>2
<1> QED
  BY <1>1, <1>2, <1>3 DEF ResearchVersions

\* Once there is research, the scope names the first version.
LEMMA ScopeIsSet ==
  ASSUME TypeOK, OneListing, ResearchVersions # {}
  PROVE  Scope # NoPin
<1>1. /\ Min(ResearchVersions) \in ResearchVersions /\ Min(ResearchVersions) \in 1..Len(versions)
  BY FirstResearch
<1>2. versions[Min(ResearchVersions)].id \in Places
  <2>1. versions[Min(ResearchVersions)] \in Versions
    BY <1>1 DEF TypeOK
  <2> QED
    BY <2>1 DEF Versions
<1>3. Scope.first \in Places
  BY <1>1, <1>2 DEF OneListing
<1> QED
  BY <1>3, PlaceFacts DEF NoPin

\* Every step keeps OneListing.
LEMMA ListingPreserved ==
  ASSUME TypeOK, TxnInv, OneListing, TypeOK', [Next]_vars
  PROVE  OneListing'
<1>1. CASE versions' = versions
  <2>1. ResearchVersions' = ResearchVersions /\ Scope' = Scope
    BY <1>1 DEF ResearchVersions, Scope
  <2> QED
    BY <1>1, <2>1 DEF OneListing
<1>2. ASSUME NEW v \in Versions, txn # NoTxn, v.id = txn.place, versions' = Append(versions, v),
             ScopeAgrees(v.package, v.pin, v.id)
      PROVE  OneListing'
  <2> DEFINE R == ResearchVersions
  <2>1. /\ Len(versions) \in Nat /\ DOMAIN versions = 1..Len(versions)
        /\ \A n \in DOMAIN versions : versions'[n] = versions[n]
        /\ versions'[Len(versions) + 1] = v
        /\ ResearchVersions' = R \cup (IF v.package.format = "research" THEN {Len(versions) + 1} ELSE {})
    BY <1>2, VersionAppended
  <2>2. R \subseteq 1..Len(versions) /\ R \in SUBSET Nat
    <3>1. R \subseteq 1..Len(versions)
      BY <2>1 DEF ResearchVersions
    <3> QED
      BY <2>1, <3>1
  <2>3. v.id # NoPlace
    BY PlaceFacts DEF Versions
  <2>4. CASE v.package.format # "research"
    <3>1. ResearchVersions' = R /\ \A n \in R : versions'[n] = versions[n]
      BY <2>1, <2>2, <2>4
    <3>2. R # {} => Min(R) \in R
      BY FirstResearch
    <3>3. Scope' = Scope
      BY <3>1, <3>2 DEF Scope
    <3> QED
      BY <3>1, <3>2, <3>3 DEF OneListing
  <2>5. CASE v.package.format = "research" /\ R = {}
    <3>1. ResearchVersions' = {Len(versions) + 1}
      BY <2>1, <2>5
    <3>2. Min(ResearchVersions') = Len(versions) + 1
      <4>1. {Len(versions) + 1} \in SUBSET Nat /\ {Len(versions) + 1} # {}
        BY <2>1
      <4>2. Min({Len(versions) + 1}) \in {Len(versions) + 1}
        BY <4>1, LeastMember
      <4> QED
        BY <3>1, <4>2
    <3>3. Scope' = v.pin /\ versions'[Len(versions) + 1] = v
      BY <2>1, <3>1, <3>2 DEF Scope
    <3>4. v.pin.listing = v.package.listing /\ v.pin.first = v.id
      BY <1>2, <2>3, <2>5 DEF ScopeAgrees, Scope
    <3> QED
      BY <3>1, <3>2, <3>3, <3>4 DEF OneListing
  <2>6. CASE v.package.format = "research" /\ R # {}
    <3>1. /\ ResearchVersions' = R \cup {Len(versions) + 1}
          /\ Min(R) \in R /\ \A n \in R : Min(R) <= n
      BY <2>1, <2>6, FirstResearch
    <3>2. Min(ResearchVersions') = Min(R)
      <4>1. R \in SUBSET Nat /\ R # {} /\ Len(versions) \in Nat /\ \A n \in R : n <= Len(versions)
        BY <2>1, <2>2, <2>6
      <4>2. Min(R \cup {Len(versions) + 1}) = Min(R)
        BY <4>1, LeastKept
      <4> QED
        BY <3>1, <4>2
    <3>3. versions'[Min(R)] = versions[Min(R)]
      BY <2>1, <2>2, <3>1
    <3>4. Scope' = Scope
      BY <2>6, <3>1, <3>2, <3>3 DEF Scope
    <3>5. v.pin = Scope /\ v.package.listing = Scope.listing
      BY <1>2, <2>6, ScopeIsSet DEF ScopeAgrees
    <3>6. ASSUME NEW n \in ResearchVersions'
          PROVE  /\ versions'[n].pin = Scope /\ Scope.first = versions[Min(R)].id
                 /\ versions'[n].package.listing = Scope.listing
      BY <2>1, <2>2, <3>1, <3>5 DEF OneListing
    <3> QED
      BY <3>2, <3>3, <3>4, <3>6 DEF OneListing
  <2> QED
    BY <2>4, <2>5, <2>6
<1> QED
  BY <1>1, <1>2, VersionsGrow

\* Every step keeps VersionsTraced, given what the others keep.
LEMMA TracedPreserved ==
  ASSUME TypeOK, IntakeInv, ChildInv, TxnInv, JournalInv, VersionsTraced, [Next]_vars,
         TypeOK', JournalInv', OneListing'
  PROVE  VersionsTraced'
<1>1. RowStep
  BY RowSteps
<1>2. inputs \subseteq inputs'
  BY DEF Next, vars, files, Operator, Outside, Intake, CreateEntity, CreateDataset,
     InstallFolder, InstallPermission, RevokePermission, Expire, Reserve, TransferStart,
     ReceiveFails, StagePackage, MarkValidating, StagedFails, Validate, ValidationFailed,
     AcceptDuplicate, AcceptPrepare, AcceptRefused, Recover, ChildEnds, Promote, Commit,
     FinishFails, ServerDies, ServerStart
<1>3. /\ \A n \in DOMAIN versions : n \in DOMAIN versions' /\ versions'[n] = versions[n]
      /\ \A n \in DOMAIN versions' \ DOMAIN versions :
           /\ n = Len(versions) + 1 /\ versions' # versions /\ txn # NoTxn
           /\ versions'[n].id = txn.place /\ txn.place \in inputs
           /\ row'[txn.place[1]].state = "accepted" /\ row'[txn.place[1]].version = txn.place
  <2>1. CASE versions' = versions
    BY <2>1
  <2>2. CASE Commit
    <3> DEFINE v == [id |-> txn.place, package |-> Pkg(txn.place[1]), pin |-> pinned[txn.place]]
    <3>1. txn # NoTxn /\ txn.stage = "promoted" /\ versions' = Append(versions, v)
      BY <2>2, TxnFacts DEF Commit
    <3>2. v \in Versions /\ txn.place \in Places /\ txn.place[1] \in Keys
      BY <3>1, TxnFacts DEF TypeOK, Versions
    <3>3. txn.place \in inputs
      BY <3>1 DEF TxnInv
    <3>4. row'[txn.place[1]].state = "accepted" /\ row'[txn.place[1]].version = txn.place
      BY <2>2, <3>2, RowAccepted DEF Commit
    <3>5. v.id = txn.place
      OBVIOUS
    <3> HIDE DEF v
    <3>6. /\ DOMAIN versions' = DOMAIN versions \cup {Len(versions) + 1}
          /\ \A n \in DOMAIN versions : versions'[n] = versions[n]
          /\ versions'[Len(versions) + 1] = v /\ Len(versions) \in Nat
          /\ DOMAIN versions = 1..Len(versions)
      BY <3>1, <3>2, VersionAppended
    <3>7. versions' # versions
      BY <3>6
    <3> QED
      BY <3>1, <3>3, <3>4, <3>5, <3>6, <3>7
  <2> QED
    BY <2>1, <2>2, OnlyCommit
<1>4. ASSUME NEW k \in Keys, row'[k].state = "accepted"
      PROVE  \E n \in DOMAIN versions' :
               versions'[n].id = row'[k].version /\ versions'[n].package = row'[k].package
  <2>1. CASE row[k].state = "accepted"
    <3>1. PICK n \in DOMAIN versions :
            versions[n].id = row[k].version /\ versions[n].package = row[k].package
      BY <2>1 DEF VersionsTraced, Pkg
    <3>2. row'[k].version = row[k].version /\ row'[k].package = row[k].package
      BY <1>1, <2>1 DEF RowStep
    <3> QED
      BY <1>3, <3>1, <3>2
  <2>2. CASE row[k].state # "accepted"
    BY <1>1, <1>4, <2>2 DEF RowStep
  <2> QED
    BY <2>1, <2>2
<1>5. ASSUME NEW n \in DOMAIN versions'
      PROVE  /\ versions'[n] \in Versions /\ versions'[n].id \in Places
             /\ row'[versions'[n].id[1]].state = "accepted"
             /\ row'[versions'[n].id[1]].version = versions'[n].id
             /\ versions'[n].id \in inputs'
  <2>1. versions'[n] \in Versions /\ versions'[n].id \in Places
    <3>1. versions' \in Seq(Versions)
      BY DEF TypeOK
    <3>2. versions'[n] \in Versions
      BY <3>1, <1>5
    <3> QED
      BY <3>2 DEF Versions
  <2>2. CASE n \in DOMAIN versions
    <3>1. /\ versions'[n] = versions[n] /\ versions[n].id[1] \in Keys
          /\ row[versions[n].id[1]].state = "accepted"
          /\ row[versions[n].id[1]].version = versions[n].id /\ versions[n].id \in inputs
      BY <1>3, <2>1, <2>2, PlaceFacts DEF VersionsTraced
    <3> QED
      BY <1>1, <1>2, <2>1, <3>1 DEF RowStep
  <2>3. CASE n \notin DOMAIN versions
    BY <1>2, <1>3, <1>5, <2>1, <2>3
  <2> QED
    BY <2>1, <2>2, <2>3
<1>6. ASSUME NEW n \in DOMAIN versions'
      PROVE  (Live(versions[n].package) => Version(versions[n]))'
  <2> DEFINE v == versions'[n]
  <2>1. ASSUME v.package.format = "research"
        PROVE  v.pin.listing = v.package.listing /\ v.pin = Scope' /\ Scope' # NoPin
    <3>1. n \in ResearchVersions'
      BY <1>6, <2>1 DEF ResearchVersions
    <3>2. ResearchVersions' \subseteq DOMAIN versions' /\ ResearchVersions' # {}
      BY <3>1 DEF ResearchVersions
    <3>3. ResearchVersions' \in SUBSET Nat
      BY <3>2 DEF TypeOK
    <3>4. Min(ResearchVersions') \in ResearchVersions'
      BY <3>2, <3>3, LeastMember
    <3>5. versions'[Min(ResearchVersions')].id # NoPlace
      BY <1>5, <3>2, <3>4, PlaceFacts
    <3>6. Scope'.first = versions'[Min(ResearchVersions')].id
      BY <3>1 DEF OneListing
    <3>7. Scope' # NoPin
      BY <3>5, <3>6 DEF NoPin
    <3> QED
      BY <3>1, <3>7 DEF OneListing
  <2>2. ScopeAgrees(versions[n].package, versions[n].pin, versions[n].id)'
    BY <2>1 DEF ScopeAgrees
  <2> QED
    BY <1>5, <2>2 DEF Version
<1>7. ASSUME NEW m \in DOMAIN versions', NEW n \in DOMAIN versions',
             versions'[m].id = versions'[n].id
      PROVE  m = n
  <2>1. ASSUME NEW i \in DOMAIN versions, txn # NoTxn
        PROVE  versions[i].id # txn.place
    <3>1. row[versions[i].id[1]].state = "accepted"
      BY DEF VersionsTraced
    <3>2. row[txn.place[1]].state # "accepted"
      BY <2>1 DEF TxnInv
    <3> QED
      BY <3>1, <3>2
  <2>2. CASE m \in DOMAIN versions /\ n \in DOMAIN versions
    BY <1>3, <1>7, <2>2 DEF VersionsTraced
  <2>3. CASE m \notin DOMAIN versions /\ n \notin DOMAIN versions
    BY <1>3, <2>3
  <2>4. CASE m \in DOMAIN versions /\ n \notin DOMAIN versions
    BY <1>3, <1>7, <2>1, <2>4
  <2>5. CASE m \notin DOMAIN versions /\ n \in DOMAIN versions
    BY <1>3, <1>7, <2>1, <2>5
  <2> QED
    BY <2>2, <2>3, <2>4, <2>5
<1>8. \A n \in DOMAIN versions' : staged'[versions'[n].id] = "none"
  BY <1>5 DEF JournalInv
<1> QED
  BY <1>4, <1>5, <1>6, <1>7, <1>8 DEF VersionsTraced, Pkg

LEMMA InitIInv ==
  ASSUME Init
  PROVE  IInv
<1>1. DOMAIN versions = {} /\ ResearchVersions = {}
  BY DEF Init, ResearchVersions
<1>2. \A k \in Keys : row[k] = NoRow
  BY DEF Init
<1>3. TypeOK
  <2>1. NoRow \in Rows /\ NoPin \in Pins /\ 0 \in 0..MaxTransfers
    BY ImportAssumption DEF NoRow, Rows, States, NoPin, Pins, Listings
  <2>2. row \in [Keys -> Rows] /\ pinned \in [Places -> Pins] /\ prepared \in [Keys -> 0..MaxTransfers]
    BY <2>1 DEF Init
  <2> QED
    BY <1>2, <2>2 DEF Init, TypeOK, NoRow
<1>4. IntakeInv /\ ChildInv /\ TxnInv
  BY DEF Init, IntakeInv, ChildInv, TxnInv
<1>5. JournalInv /\ PreparedWhole
  BY <1>2 DEF Init, JournalInv, PreparedWhole, NoRow
<1>6. OneListing
  BY <1>1 DEF OneListing
<1>7. VersionsTraced
  BY <1>1, <1>2 DEF VersionsTraced, NoRow
<1> QED
  BY <1>3, <1>4, <1>5, <1>6, <1>7 DEF IInv

LEMMA IInvPreserved ==
  ASSUME IInv, [Next]_vars
  PROVE  IInv'
<1>1. /\ TypeOK /\ IntakeInv /\ ChildInv /\ TxnInv /\ JournalInv
      /\ PreparedWhole /\ OneListing /\ VersionsTraced
  BY DEF IInv
<1>2. TypeOK' /\ IntakeInv' /\ ChildInv' /\ TxnInv'
  BY <1>1, TypePreserved, IntakePreserved, ChildPreserved, TxnPreserved
<1>3. JournalInv' /\ PreparedWhole'
  BY <1>1, JournalPreserved, PreparedPreserved
<1>4. OneListing'
  BY <1>1, <1>2, ListingPreserved
<1>5. VersionsTraced'
  BY <1>1, <1>2, <1>3, <1>4, TracedPreserved
<1> QED
  BY <1>2, <1>3, <1>4, <1>5 DEF IInv

\* The inductive invariant holds in every reachable state.
THEOREM IInvariant == Spec => []IInv
<1>1. Init => IInv
  BY InitIInv
<1>2. IInv /\ [Next]_vars => IInv'
  BY IInvPreserved
<1> QED
  BY <1>1, <1>2, PTL DEF Spec

\* Receipts, versions and folders agree whatever died in between
\* (store.py, _finish_prepared and version).
THEOREM ReceiptsAgree == Spec => []VersionsTraced
<1>1. IInv => VersionsTraced
  BY DEF IInv
<1> QED
  BY <1>1, IInvariant, PTL

\* A journal names one whole folder, and nothing in inputs/ is of unknown
\* origin (store.py, accept and recover).
THEOREM JournalsNameFolders == Spec => []PreparedWhole
<1>1. IInv => PreparedWhole
  BY DEF IInv
<1> QED
  BY <1>1, IInvariant, PTL

\* Research of a company never leaves the listing of its first version
\* (store.py, verify_research_scope).
THEOREM ResearchKeepsItsListing == Spec => []OneListing
<1>1. IInv => OneListing
  BY DEF IInv
<1> QED
  BY <1>1, IInvariant, PTL

\* No step commits a version of a package whose permission was revoked: the
\* gate keeps the operator out between the last look at it and the commit
\* (store.py, _finish_prepared; permissions.py, revoke).
THEOREM RevocationHolds == Spec => NotAfterRevocation
<1> DEFINE Kept == \A n \in DOMAIN versions' \ DOMAIN versions :
                     permission[versions'[n].package] # "revoked"
<1>1. ASSUME IInv, [Next]_vars PROVE [Kept]_vars
  <2>1. TypeOK /\ TxnInv
    BY <1>1 DEF IInv
  <2>2. CASE versions' = versions
    BY <2>2
  <2>3. ASSUME NEW v \in Versions, permission[v.package] \in {"live", "expired"},
               versions' = Append(versions, v)
        PROVE  Kept
    <3>1. /\ DOMAIN versions' = DOMAIN versions \cup {Len(versions) + 1}
          /\ versions'[Len(versions) + 1] = v
      BY <2>1, <2>3, VersionAppended
    <3> QED
      BY <2>3, <3>1
  <2> QED
    BY <1>1, <2>1, <2>2, <2>3, VersionsGrow
<1>2. IInv /\ [Next]_vars => [Kept]_vars
  BY <1>1
<1> QED
  BY <1>2, IInvariant, PTL DEF Spec, NotAfterRevocation
=============================================================================
