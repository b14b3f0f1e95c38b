---------------------------- MODULE InputImports ----------------------------
(***************************************************************************)
(* The private input store (onboarding/store.py, service.py, validate.py): *)
(* an import is reserved, its package transferred, validated by an owned   *)
(* child process, prepared, promoted into inputs/ and only then committed  *)
(* as a version.  The database decides what is visible; files move before  *)
(* it commits.  The server may die at any step, its validator may outlive  *)
(* it, disks refuse writes, the operator installs and revokes permissions  *)
(* and recovers prepared imports while the server is down.  Requests for a *)
(* fresh close are imported the same way; what their validation pins is    *)
(* FreshClose's.                                                           *)
(***************************************************************************)
EXTENDS Integers, Sequences, FiniteSets, FiniteSetsExt

CONSTANTS Keys,         \* request keys, one import each
          Packages,     \* what clients import, see Package
          MaxTransfers, \* bound: transfers started for one import
          MaxVersions,  \* MAX_VERSIONS
          MaxPending,   \* MAX_PENDING
          MaxAttempts,  \* MAX_ATTEMPTS
          MaxBytes      \* MAX_INPUT_BYTES, in units of one payload

Formats == {"saved", "research"}
\* What the store tells apart in a package: its format, its listing (research
\* only) and its size.  Whether bytes match and the payload passes its family's
\* checks is left open in each transfer.
ASSUME ImportAssumption ==
  /\ \A p \in Packages : p.format \in Formats /\ p.bytes \in Nat \ {0}
  /\ {MaxTransfers, MaxVersions, MaxPending, MaxAttempts, MaxBytes} \subseteq Nat

Transfers  == 1..MaxTransfers
Places     == Keys \X Transfers     \* transfer folders; also version identities
NoPlace    == <<>>
NoPin      == [listing |-> "none", first |-> NoPlace]
Unresolved == {"reserved", "receiving", "validating", "interrupted", "delivery_failed"}
States     == Unresolved \cup {"none", "accepted", "rejected"}

VARIABLES
  registry,   \* objects besides permissions and versions: entity, dataset
  permission, \* per package: none, folder (record not committed), live, expired, revoked
  row,        \* imports: state, package, latest transfer, version
  versions,   \* committed version objects, in sequence order
  staged,     \* staging/: what each transfer folder holds
  pinned,     \* each folder's context.json, then its validation.json
  prepared,   \* staging/<import>/prepared.json: the transfer it names, 0 if none
  inputs,     \* inputs/: folders promoted there
  server,     \* down or up
  intake,     \* the transfer under the intake lock: stage, import
  child,      \* the folder a live validator works on
  txn         \* a write transaction that is promoting: by, import, transfer, stage

db    == <<registry, permission, row, versions>>
files == <<staged, pinned, prepared, inputs>>
procs == <<server, intake, child, txn>>
vars  == <<db, files, procs>>

NoPackage == [format |-> "none", listing |-> "none", bytes |-> 0]
NoRow   == [state |-> "none", package |-> NoPackage, transfer |-> 0, version |-> NoPlace]
IdleIntake == [stage |-> "idle", key |-> 0]
Verdicts == {"valid", "refused", "killed"}
Gated   == {"validating"} \cup Verdicts
NoTxn   == [stage |-> "none", by |-> "none", place |-> NoPlace]
At(k)   == <<k, row[k].transfer>>
Pkg(k)  == row[k].package

-----------------------------------------------------------------------------
(* What handlers read.                                                     *)

Live(p)     == permission[p] = "live"
\* control_write_gate(): the mutator lock, lent to the validator.
GateFree    == child = NoPlace /\ intake.stage \notin Gated /\ txn = NoTxn
\* The write transaction of the registry.
Unlocked    == txn = NoTxn

\* Every copy in inputs/ and staging/ and the reservations of what is unresolved.
Copies == [none |-> 0, package |-> 1, payload |-> 2, validated |-> 2, contract |-> 2]
Stored(pl) == IF pl \in inputs THEN 2 * Pkg(pl[1]).bytes
              ELSE IF staged[pl] = "none" THEN 0 ELSE Copies[staged[pl]] * Pkg(pl[1]).bytes
PendingKeys == {k \in Keys : row[k].state \in Unresolved}
Usage == MapThenSumSet(Stored, Places) + MapThenSumSet(LAMBDA k : 3 * Pkg(k).bytes, PendingKeys)

\* research_scope: the listing pin of the first research version.
ResearchVersions == {n \in DOMAIN versions : versions[n].package.format = "research"}
Scope == IF ResearchVersions = {} THEN NoPin ELSE versions[Min(ResearchVersions)].pin
\* (mutation) Only what validation pinned is compared, not the first version.
ScopeAsValidated(p, pin, id) == p.format = "research" => pin.listing = p.listing
\* verify_research_scope, before and after the version's identity is known.
ScopeAgrees(p, pin, id) ==
  p.format = "research" =>
    /\ pin.listing = p.listing
    /\ IF Scope = NoPin THEN id = NoPlace \/ pin.first = id ELSE pin = Scope

\* version: its folder, its permission and its place in the company's listing,
\* each time it is read.
Version(v) ==
  v.id \in inputs /\ Live(v.package) /\ ScopeAgrees(v.package, v.pin, v.id)

\* transition, inside the table the callers below respect; a handler that
\* records what went wrong may find the database unwritable as well.
Set(k, s)     == row' = [row EXCEPT ![k].state = s]
TryOneOf(k, S) == row' = row \/ \E s \in S : Set(k, s)

-----------------------------------------------------------------------------
(* Registry and operator.                                                  *)

Init ==
  /\ registry = {} /\ permission = [p \in Packages |-> "none"]
  /\ row = [k \in Keys |-> NoRow] /\ versions = <<>>
  /\ staged = [pl \in Places |-> "none"] /\ pinned = [pl \in Places |-> NoPin]
  /\ prepared = [k \in Keys |-> 0] /\ inputs = {}
  /\ server = "down" /\ intake = IdleIntake /\ child = NoPlace /\ txn = NoTxn

CreateEntity ==
  /\ server = "up" /\ Unlocked /\ "entity" \notin registry
  /\ registry' = registry \cup {"entity"}
  /\ UNCHANGED <<permission, row, versions, files, procs>>

CreateDataset ==
  /\ server = "up" /\ Unlocked /\ "entity" \in registry /\ "dataset" \notin registry
  /\ registry' = registry \cup {"dataset"}
  /\ UNCHANGED <<permission, row, versions, files, procs>>

\* install_permission makes the folder first and inserts the record last; the
\* folder of a command that died between them is in the way of every later one.
InstallFolder(p) ==
  /\ "entity" \in registry /\ GateFree /\ permission[p] = "none"
  /\ permission' = [permission EXCEPT ![p] = "folder"]
  /\ UNCHANGED <<registry, row, versions, files, procs>>
InstallPermission(p) ==
  /\ "entity" \in registry /\ GateFree /\ permission[p] = "none"
  /\ permission' = [permission EXCEPT ![p] = "live"]
  /\ UNCHANGED <<registry, row, versions, files, procs>>
RevokePermission(p) ==
  /\ GateFree /\ permission[p] \in {"live", "expired"}
  /\ permission' = [permission EXCEPT ![p] = "revoked"]
  /\ UNCHANGED <<registry, row, versions, files, procs>>
\* expires_at passes, at any moment.
Expire(p) ==
  /\ permission[p] = "live"
  /\ permission' = [permission EXCEPT ![p] = "expired"]
  /\ UNCHANGED <<registry, row, versions, files, procs>>

\* check_preflight: the dataset exists and its sources may be used.
PreflightOk(p) == "dataset" \in registry /\ Live(p)
\* reserve; a known key is answered from its row (no change) or refused.
Reserve(k, p) ==
  /\ server = "up" /\ Unlocked /\ PreflightOk(p)
  /\ row[k].state = "none"
  /\ Cardinality(PendingKeys) < MaxPending
  /\ Cardinality({i \in Keys : row[i].state # "none"}) < MaxAttempts
  /\ Usage + 3 * p.bytes <= MaxBytes
  /\ row' = [row EXCEPT ![k] = [NoRow EXCEPT !.state = "reserved", !.package = p]]
  /\ UNCHANGED <<registry, permission, versions, files, procs>>

-----------------------------------------------------------------------------
(* The transfer: one at a time, under the intake lock.                     *)

\* What authorize_transfer hands on: the permission is checked again, research
\* gets the listing pin it will be validated against.
PinFor(pl, p) ==
  IF p.format # "research" THEN NoPin
  ELSE IF Scope = NoPin THEN [NoPin EXCEPT !.listing = p.listing, !.first = pl]
  ELSE Scope

TransferStart(k) ==
  /\ server = "up" /\ Unlocked /\ intake = IdleIntake
  /\ row[k].state \in {"reserved", "interrupted"} /\ Live(Pkg(k))
  /\ row[k].transfer < MaxTransfers
  /\ row' = [row EXCEPT ![k].state = "receiving", ![k].transfer = @ + 1]
  /\ intake' = [stage |-> "receiving", key |-> k]
  /\ UNCHANGED <<registry, permission, versions, files, server, child, txn>>

\* The bytes or the payload are not what was declared: rejected.  A stream that
\* stops, a withdrawn permission or a refusing disk: interrupted.
ReceiveFails(k) ==
  /\ intake = [stage |-> "receiving", key |-> k]
  /\ TryOneOf(k, {"rejected", "interrupted"})
  /\ intake' = IdleIntake
  /\ UNCHANGED <<registry, permission, versions, files, server, child, txn>>

StagePackage(k) ==
  /\ intake = [stage |-> "receiving", key |-> k]
  /\ Live(Pkg(k))
  /\ staged' = [staged EXCEPT ![At(k)] = "package"]
  /\ pinned' = [pinned EXCEPT ![At(k)] = PinFor(At(k), Pkg(k))]
  /\ intake' = [intake EXCEPT !.stage = "staged"]
  /\ UNCHANGED <<db, prepared, inputs, server, child, txn>>

MarkValidating(k) ==
  /\ intake = [stage |-> "staged", key |-> k] /\ Unlocked
  /\ Set(k, "validating")
  /\ intake' = [intake EXCEPT !.stage = "sealed"]
  /\ UNCHANGED <<registry, permission, versions, files, server, child, txn>>

\* A write refused, the gate held by a command or a job, the client gone.
StagedFails(k) ==
  /\ intake.key = k /\ intake.stage \in {"staged", "sealed"}
  /\ TryOneOf(k, {"interrupted"})
  /\ intake' = IdleIntake
  /\ UNCHANGED <<registry, permission, versions, files, server, child, txn>>

\* validate_and_accept: both locks, and a child that inherits their descriptors.
Validate(k) ==
  /\ intake = [stage |-> "sealed", key |-> k] /\ GateFree
  /\ child' = At(k)
  /\ intake' = [intake EXCEPT !.stage = "validating"]
  /\ UNCHANGED <<db, files, server, txn>>

\* The child: what it leaves in its folder and how it exits.
Passes(pl) == LET p == Pkg(pl[1]) IN p.format = "research" => pinned[pl].listing = p.listing
ChildEnds(verdict) ==
  /\ child # NoPlace
  /\ verdict = "valid" => Passes(child)
  /\ \E left \in IF verdict = "valid" THEN {"validated"} ELSE {"package", "payload"} :
       staged' = [staged EXCEPT ![child] = left]
  /\ child' = NoPlace
  /\ intake' = IF intake.stage = "validating" THEN [intake EXCEPT !.stage = verdict] ELSE intake
  /\ UNCHANGED <<db, pinned, prepared, inputs, server, txn>>

\* returncode < 0 (or the supervisor's timeout) interrupts, another code rejects.
ValidationFailed(k) ==
  /\ intake.key = k
  /\ \/ intake.stage = "killed"  /\ TryOneOf(k, {"interrupted"})
     \/ intake.stage = "refused" /\ TryOneOf(k, {"rejected", "interrupted"})
  /\ intake' = IdleIntake
  /\ UNCHANGED <<registry, permission, versions, files, server, child, txn>>

-----------------------------------------------------------------------------
(* Acceptance.                                                             *)

\* accept compares contracts: package, policy and listing pin decide them.
SameContract(v, k) == v.package = Pkg(k) /\ v.pin = pinned[At(k)]
AcceptChecks(k) ==
  /\ Live(Pkg(k))
  /\ ScopeAgrees(Pkg(k), pinned[At(k)], NoPlace)
Room == Len(versions) < MaxVersions

AcceptDuplicate(k) ==
  /\ intake = [stage |-> "valid", key |-> k] /\ Unlocked /\ AcceptChecks(k)
  /\ \E n \in DOMAIN versions :
       /\ SameContract(versions[n], k)
       /\ row' = [row EXCEPT ![k].state = "accepted", ![k].version = versions[n].id]
  /\ intake' = IdleIntake
  /\ UNCHANGED <<registry, permission, versions, files, server, child, txn>>

\* (mutation) A journal of an earlier transfer is replaced.
PrepareOverwriting(k) ==
  /\ intake = [stage |-> "valid", key |-> k] /\ Unlocked /\ AcceptChecks(k) /\ Room
  /\ \A n \in DOMAIN versions : ~SameContract(versions[n], k)
  /\ staged' = [staged EXCEPT ![At(k)] = "contract"]
  /\ prepared' = [prepared EXCEPT ![k] = row[k].transfer]
  /\ txn' = [stage |-> "prepared", by |-> "server", place |-> At(k)]
  /\ UNCHANGED <<db, pinned, inputs, server, intake, child>>
\* contract.json, then prepared.json by exclusive creation.
AcceptPrepare(k) ==
  /\ intake = [stage |-> "valid", key |-> k] /\ Unlocked /\ AcceptChecks(k) /\ Room
  /\ \A n \in DOMAIN versions : ~SameContract(versions[n], k)
  /\ prepared[k] = 0
  /\ staged' = [staged EXCEPT ![At(k)] = "contract"]
  /\ prepared' = [prepared EXCEPT ![k] = row[k].transfer]
  /\ txn' = [stage |-> "prepared", by |-> "server", place |-> At(k)]
  /\ UNCHANGED <<db, pinned, inputs, server, intake, child>>

\* accept raised before its journal was written.
AcceptRefused(k) ==
  /\ intake = [stage |-> "valid", key |-> k] /\ Unlocked
  /\ TryOneOf(k, {"delivery_failed", "interrupted"})
  /\ staged' \in {staged, [staged EXCEPT ![At(k)] = "contract"]}
  /\ intake' = IdleIntake
  /\ UNCHANGED <<registry, permission, versions, pinned, prepared, inputs,
                 server, child, txn>>

\* recover: with the server stopped and no validator alive.
Recover(k) ==
  /\ server = "down" /\ child = NoPlace /\ Unlocked
  /\ row[k].state \in {"validating", "interrupted", "delivery_failed"} /\ prepared[k] # 0
  /\ txn' = [stage |-> "prepared", by |-> "operator", place |-> <<k, prepared[k]>>]
  /\ UNCHANGED <<db, files, server, intake, child>>

\* (mutation) Recovery trusts the policy of the journal.
FinishTrusting(pl) == LET k == pl[1] IN
  /\ Room /\ row[k].transfer = pl[2] /\ ScopeAgrees(Pkg(k), pinned[pl], pl)
  /\ (pl \in inputs) # (staged[pl] = "contract")
\* _finish_prepared: everything is checked again from what is saved ...
Finishable(pl) == LET k == pl[1] IN
  /\ Room /\ row[k].transfer = pl[2] /\ Live(Pkg(k))
  /\ ScopeAgrees(Pkg(k), pinned[pl], pl)
  /\ (pl \in inputs) # (staged[pl] = "contract")
\* ... the folder is renamed unless it already was ...
Promote ==
  /\ txn.stage = "prepared" /\ Finishable(txn.place)
  /\ \/ txn.place \in inputs /\ UNCHANGED <<staged, inputs>>
     \/ /\ txn.place \notin inputs /\ Usage <= MaxBytes
        /\ staged' = [staged EXCEPT ![txn.place] = "none"]
        /\ inputs' = inputs \cup {txn.place}
  /\ txn' = [txn EXCEPT !.stage = "promoted"]
  /\ UNCHANGED <<db, pinned, prepared, server, intake, child>>
\* (mutation) The row is committed without waiting for the rename.
CommitEarly == LET k == txn.place[1] IN
  /\ txn # NoTxn
  /\ versions' = Append(versions, [id |-> txn.place, package |-> Pkg(k), pin |-> pinned[txn.place]])
  /\ row' = [row EXCEPT ![k].state = "accepted", ![k].version = txn.place]
  /\ txn' = NoTxn /\ intake' = IdleIntake
  /\ UNCHANGED <<registry, permission, files, server, child>>
\* ... and version, receipt and event are committed.
Commit == LET k == txn.place[1] IN
  /\ txn.stage = "promoted"
  /\ versions' = Append(versions, [id |-> txn.place, package |-> Pkg(k), pin |-> pinned[txn.place]])
  /\ row' = [row EXCEPT ![k].state = "accepted", ![k].version = txn.place]
  /\ txn' = NoTxn /\ intake' = IdleIntake
  /\ UNCHANGED <<registry, permission, files, server, child>>

\* A check, the disk or the commit refuses: the transaction rolls back.
FinishFails ==
  /\ txn # NoTxn
  /\ \/ txn.by = "server" /\ TryOneOf(txn.place[1], {"delivery_failed", "interrupted"})
     \/ txn.by = "operator" /\ row' = row
  /\ txn' = NoTxn /\ intake' = IdleIntake
  /\ UNCHANGED <<registry, permission, versions, files, server, child>>

-----------------------------------------------------------------------------
(* Server sessions.                                                        *)

\* Killed or stopped at any step; its validator may go on.
ServerDies ==
  /\ server = "up"
  /\ server' = "down" /\ intake' = IdleIntake /\ txn' = NoTxn
  /\ UNCHANGED <<db, files, child>>
\* PrivateAdmission: the session needs both locks, then interrupt_imports.
ServerStart ==
  /\ server = "down" /\ GateFree
  /\ server' = "up"
  /\ row' = [k \in Keys |-> IF row[k].state \in {"receiving", "validating"}
                            THEN [row[k] EXCEPT !.state = "interrupted"] ELSE row[k]]
  /\ UNCHANGED <<registry, permission, versions, files, intake, child, txn>>

Operator == \E p \in Packages : InstallFolder(p) \/ InstallPermission(p) \/ RevokePermission(p)
Outside  == \E p \in Packages : Expire(p)
Intake(k) ==
  \/ TransferStart(k) \/ ReceiveFails(k) \/ StagePackage(k) \/ MarkValidating(k)
  \/ StagedFails(k) \/ Validate(k) \/ ValidationFailed(k)
  \/ AcceptDuplicate(k) \/ AcceptPrepare(k) \/ AcceptRefused(k)
Next ==
  \/ CreateEntity \/ CreateDataset \/ Operator \/ Outside
  \/ \E k \in Keys, p \in Packages : Reserve(k, p)
  \/ \E k \in Keys : Intake(k) \/ Recover(k)
  \/ \E v \in Verdicts : ChildEnds(v)
  \/ Promote \/ Commit \/ FinishFails
  \/ ServerDies \/ ServerStart

Spec == Init /\ [][Next]_vars
-----------------------------------------------------------------------------
(* Properties.                                                             *)

\* Receipts, versions and folders agree whatever died in between: an accepted
\* import names a committed version of its own package, each version was
\* committed once, by the import it names, its folder is complete, and it can be
\* read for as long as its permission lasts.
VersionsTraced ==
  /\ \A k \in Keys : row[k].state = "accepted" =>
       \E n \in DOMAIN versions :
         versions[n].id = row[k].version /\ versions[n].package = Pkg(k)
  /\ \A n \in DOMAIN versions : LET id == versions[n].id IN
       /\ row[id[1]].state = "accepted" /\ row[id[1]].version = id
       /\ id \in inputs /\ staged[id] = "none"
       /\ Live(versions[n].package) => Version(versions[n])
  /\ \A m, n \in DOMAIN versions : versions[m].id = versions[n].id => m = n

\* A journal names a whole folder, in exactly one of its two places; and a
\* folder promoted without a commit is one a journal names, so nothing in
\* inputs/ is of unknown origin.
PreparedWhole ==
  /\ \A k \in Keys : prepared[k] # 0 =>
       (<<k, prepared[k]>> \in inputs) # (staged[<<k, prepared[k]>>] = "contract")
  /\ \A pl \in inputs : prepared[pl[1]] = pl[2]

\* All research of one company stays within the listing of its first version,
\* also when an import prepared earlier is recovered after others got in.
OneListing ==
  \A n \in ResearchVersions :
    /\ versions[n].pin = Scope /\ Scope.first = versions[Min(ResearchVersions)].id
    /\ versions[n].package.listing = Scope.listing

\* Nothing becomes a version after its permission was withdrawn, although the
\* permission is read well before the commit.
NotAfterRevocation ==
  [][\A n \in DOMAIN versions' \ DOMAIN versions :
       permission[versions'[n].package] # "revoked"]_vars
=============================================================================
