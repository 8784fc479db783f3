--------------------------- MODULE SecretLifecycle ---------------------------
(***************************************************************************)
(* The secret of one publishing connection: the connection row of the      *)
(* application database, the versions of its secret in the vault, and the  *)
(* requests that bind, rotate, disconnect and recover it.                  *)
(*                                                                         *)
(* Every request keeps a FOR UPDATE lock on the connection row while it    *)
(* prepares its change, but each vault call is a transaction of its own,   *)
(* and activation, retirement and compensation run after the row lock is   *)
(* gone.  One action is one such transaction (or one unlocked read that a  *)
(* later write depends on).                                                *)
(***************************************************************************)
EXTENDS Integers, FiniteSets

CONSTANTS Procs,      \* the workers that serve requests on this connection
          NoProc,     \* nobody holds the row lock
          MaxVersion, \* bound: highest version number a run reaches
          MaxStores,  \* bound: how many vault rows a run inserts
          Ops,        \* the operations offered in this configuration
          Faults      \* the kinds of failure that may happen

ASSUME ProcsAssumption == NoProc \notin Procs
ASSUME BoundsAssumption == MaxVersion \in Nat \ {0} /\ MaxStores \in Nat \ {0}

VARIABLES vstate,  \* state of each version number in the vault
          vid,     \* primary key of the vault row that has this version number
          issued,  \* primary keys handed out so far
          row,     \* the connection row
          lock,    \* holder of the FOR UPDATE lock on the row
          req,     \* what each worker is doing
          bound    \* history: key of the vault row the connection was bound to

vars == <<vstate, vid, issued, row, lock, req, bound>>

Versions == 1..MaxVersion
NoRef == 0
VaultStates == {"absent", "pending", "active", "deactivated"}
ErrorCodes == {"none", "activation_required", "recovery_required", "revoke_failed"}
TokenStatuses == {"not_configured", "valid"}
Operations == {"bind", "rotate", "disconnect", "recover_activation",
               "recover_rotation", "set_token"}
FaultKinds == {"crash", "commit", "ack", "record", "vault", "ttl"}

\* Between taking the row lock and the commit or rollback that drops it.
LockedPcs == {"orphan", "drop", "store", "health", "commit", "revoke", "confirm",
              "clear", "recover", "recover_update", "recover_retire", "recover_commit"}
UnlockedPcs == {"idle", "compensate", "compensate_delete", "activate",
                "activate_update", "view", "retire", "retire_write", "record",
                "token_write"}

Requests == [pc : LockedPcs \cup UnlockedPcs, op : Operations \cup {"none"},
             ver : 0..MaxVersion, old : 0..MaxVersion, id : Nat, code : ErrorCodes]

Resting == [pc |-> "idle", op |-> "none", ver |-> 0, old |-> 0, id |-> 0, code |-> "none"]

TypeOK ==
  /\ vstate \in [Versions -> VaultStates]
  /\ vid \in [Versions -> Nat]
  /\ issued \in Nat
  /\ row \in [secret_ref : 0..MaxVersion, error_code : ErrorCodes,
              token_status : TokenStatuses]
  /\ lock \in Procs \cup {NoProc}
  /\ req \in [Procs -> Requests]
  /\ \A p \in Procs : req[p].pc \notin {"idle", "token_write"} => req[p].ver \in Versions
  /\ bound \in Nat

Init ==
  /\ vstate = [v \in Versions |-> "absent"]
  /\ vid = [v \in Versions |-> 0]
  /\ issued = 0
  /\ row = [secret_ref |-> NoRef, error_code |-> "none", token_status |-> "not_configured"]
  /\ lock = NoProc
  /\ req = [p \in Procs |-> Resting]
  /\ bound = 0

-----------------------------------------------------------------------------
(* Vault calls, each one a committed transaction.                          *)

vaultVars == <<vstate, vid, issued>>

Present(v) == vstate[v] # "absent"

\* store_secret: a new row, pending; the guard is the unique key on the version.
StoreSecret(v) ==
  /\ ~Present(v)
  /\ issued' = issued + 1
  /\ vstate' = [vstate EXCEPT ![v] = "pending"]
  /\ vid' = [vid EXCEPT ![v] = issued + 1]

DeleteVersion(v) ==
  /\ vstate' = [vstate EXCEPT ![v] = "absent"]
  /\ UNCHANGED <<vid, issued>>

\* A row that was already deactivated is not written again: same outcome.
DeactivateVersion(v) ==
  /\ vstate' = [vstate EXCEPT ![v] = "deactivated"]
  /\ UNCHANGED <<vid, issued>>

\* The second half of activate_version: UPDATE ... WHERE id = <the key selected>.
\* Nothing re-reads the state, so a deactivation in between is overwritten.
UpdateToActive(v) ==
  /\ vstate' = [vstate EXCEPT ![v] = "active"]
  /\ UNCHANGED <<vid, issued>>

\* The selected row is still there; otherwise the UPDATE matches no row and raises.
SelectedRowExists(p) == Present(req[p].ver) /\ vid[req[p].ver] = req[p].id

-----------------------------------------------------------------------------
(* Requests.                                                               *)

At(p, pc) == req[p].pc = pc
Goto(p, pc) == req' = [req EXCEPT ![p].pc = pc]
Finish(p) == req' = [req EXCEPT ![p] = Resting]
Release == lock' = NoProc

\* A request that takes the row lock, reads the row, and goes on under the lock.
Begin(p, op, pc, ver, old) ==
  /\ op \in Ops
  /\ At(p, "idle")
  /\ lock = NoProc
  /\ lock' = p
  /\ req' = [req EXCEPT ![p] = [pc |-> pc, op |-> op, ver |-> ver, old |-> old,
                                id |-> 0, code |-> "none"]]
  /\ UNCHANGED <<vaultVars, row, bound>>

BeginBind(p) ==
  /\ row.secret_ref = NoRef
  /\ issued < MaxStores
  /\ Begin(p, "bind", "orphan", 1, NoRef)

\* Mutant: rotation stores under the number of the current version.
BeginRotate_SameVersion(p) ==
  /\ row.secret_ref \in 1..(MaxVersion - 1)
  /\ issued < MaxStores
  /\ Begin(p, "rotate", "orphan", row.secret_ref, row.secret_ref)

BeginRotate(p) ==
  /\ row.secret_ref \in 1..(MaxVersion - 1)
  /\ issued < MaxStores
  /\ Begin(p, "rotate", "orphan", row.secret_ref + 1, row.secret_ref)

\* Mutant: the reference is cleared without revoking the version first.
BeginDisconnect_NoRevoke(p) ==
  /\ row.secret_ref # NoRef
  /\ Begin(p, "disconnect", "clear", row.secret_ref, NoRef)

BeginDisconnect(p) ==
  /\ row.secret_ref # NoRef
  /\ Begin(p, "disconnect", "revoke", row.secret_ref, NoRef)

BeginRecoverActivation(p) ==
  /\ row.secret_ref # NoRef
  /\ Begin(p, "recover_activation", "recover", row.secret_ref, NoRef)

BeginRecoverRotation(p) ==
  /\ row.secret_ref >= 2
  /\ Begin(p, "recover_rotation", "recover", row.secret_ref, row.secret_ref - 1)

\* disconnect of a connection that has nothing bound: statuses only.
DisconnectNothing(p) ==
  /\ "disconnect" \in Ops
  /\ At(p, "idle")
  /\ lock = NoProc
  /\ row.secret_ref = NoRef
  /\ row' = [row EXCEPT !.token_status = "not_configured"]
  /\ UNCHANGED <<vaultVars, lock, req, bound>>

-----------------------------------------------------------------------------
(* bind_secret and rotate_secret up to the commit.                         *)

\* Mutant: a deactivated orphan counts as a free version number.
CheckOrphan_KeepsDeactivated(p) ==
  /\ At(p, "orphan")
  /\ \/ vstate[req[p].ver] \in {"absent", "deactivated"} /\ Goto(p, "store") /\ UNCHANGED lock
     \/ vstate[req[p].ver] = "active" /\ Finish(p) /\ Release
     \/ vstate[req[p].ver] = "pending" /\ Goto(p, "drop") /\ UNCHANGED lock
  /\ UNCHANGED <<vaultVars, row, bound>>

CheckOrphan(p) ==
  /\ At(p, "orphan")
  /\ \/ /\ vstate[req[p].ver] = "absent"
        /\ Goto(p, "store")
        /\ UNCHANGED lock
     \/ /\ vstate[req[p].ver] = "active"       \* vault_active_orphan
        /\ Finish(p)
        /\ Release
     \/ /\ vstate[req[p].ver] \in {"pending", "deactivated"}
        /\ Goto(p, "drop")
        /\ UNCHANGED lock
  /\ UNCHANGED <<vaultVars, row, bound>>

DropOrphan(p) ==
  /\ At(p, "drop")
  /\ DeleteVersion(req[p].ver)
  /\ Goto(p, "store")
  /\ UNCHANGED <<row, lock, bound>>

Store(p) ==
  /\ At(p, "store")
  /\ StoreSecret(req[p].ver)
  /\ req' = [req EXCEPT ![p].pc = "health", ![p].id = issued + 1]
  /\ UNCHANGED <<row, lock, bound>>

Healthy(p) ==
  /\ At(p, "health")
  /\ Goto(p, "commit")
  /\ UNCHANGED <<vaultVars, row, lock, bound>>

\* Mutant: a failed health check drops the version being replaced as well.
Unhealthy_DropsBoth(p) ==
  /\ At(p, "health")
  /\ vstate' = [v \in Versions |-> IF v \in {req[p].ver, req[p].old}
                                   THEN "absent" ELSE vstate[v]]
  /\ Finish(p)
  /\ Release
  /\ UNCHANGED <<vid, issued, row, bound>>

\* UNHEALTHY: the new version is deleted before the rollback drops the lock.
Unhealthy(p) ==
  /\ At(p, "health")
  /\ DeleteVersion(req[p].ver)
  /\ Finish(p)
  /\ Release
  /\ UNCHANGED <<row, bound>>

BindRow(p) ==
  /\ row' = [secret_ref |-> req[p].ver, error_code |-> "none",
             token_status |-> "not_configured"]
  /\ bound' = req[p].id

\* Mutant: the transaction stays open after the commit.
Commit_KeepsLock(p) ==
  /\ At(p, "commit")
  /\ BindRow(p)
  /\ Goto(p, "activate")
  /\ UNCHANGED <<vaultVars, lock>>

Commit(p) ==
  /\ At(p, "commit")
  /\ BindRow(p)
  /\ Release
  /\ Goto(p, "activate")
  /\ UNCHANGED vaultVars

\* The health check, the audit record or the commit raises.  The rollback comes first
\* and drops the row lock; the compensation follows it.
CommitFails(p) ==
  /\ "commit" \in Faults
  /\ req[p].pc \in {"health", "commit"}
  /\ Release
  /\ Goto(p, "compensate")
  /\ UNCHANGED <<vaultVars, row, bound>>

\* The server committed, the acknowledgement was lost: the code sees an exception.
CommitUnacknowledged(p) ==
  /\ "ack" \in Faults
  /\ At(p, "commit")
  /\ BindRow(p)
  /\ Release
  /\ Goto(p, "compensate")
  /\ UNCHANGED vaultVars

\* _safe_delete_pending: the state is read, then the version number is deleted.
Compensate(p) ==
  /\ At(p, "compensate")
  /\ \/ /\ vstate[req[p].ver] \in {"pending", "deactivated"}
        /\ Goto(p, "compensate_delete")
     \/ /\ vstate[req[p].ver] \in {"absent", "active"}
        /\ Finish(p)
  /\ UNCHANGED <<vaultVars, row, lock, bound>>

CompensateDelete(p) ==
  /\ At(p, "compensate_delete")
  /\ DeleteVersion(req[p].ver)
  /\ Finish(p)
  /\ UNCHANGED <<row, lock, bound>>

-----------------------------------------------------------------------------
(* After the commit: activate the new version, then retire the old one.    *)

Record(p, code) == req' = [req EXCEPT ![p].pc = "record", ![p].code = code]

\* get_version_state and the SELECT of activate_version, which it only routes to.
Activate(p) ==
  /\ At(p, "activate")
  /\ \/ /\ vstate[req[p].ver] = "active"
        /\ Goto(p, "view")
     \/ /\ vstate[req[p].ver] = "pending"
        /\ req' = [req EXCEPT ![p].pc = "activate_update", ![p].id = vid[req[p].ver]]
     \/ /\ vstate[req[p].ver] \in {"absent", "deactivated"}
        /\ Record(p, "activation_required")
  /\ UNCHANGED <<vaultVars, row, lock, bound>>

ActivateUpdate(p) ==
  /\ At(p, "activate_update")
  /\ SelectedRowExists(p)
  /\ UpdateToActive(req[p].ver)
  /\ Goto(p, "view")
  /\ UNCHANGED <<row, lock, bound>>

\* StaleDataError is not a SecretVaultError: the request dies without a trace.
ActivateStale(p) ==
  /\ At(p, "activate_update")
  /\ ~SelectedRowExists(p)
  /\ Finish(p)
  /\ UNCHANGED <<vaultVars, row, lock, bound>>

\* Mutant: rotate returns before it retires the old version.
View_NoRetire(p) ==
  /\ At(p, "view")
  /\ lock = NoProc
  /\ Finish(p)
  /\ UNCHANGED <<vaultVars, row, lock, bound>>

\* The view is read under a fresh row lock; rotate then retires the old version.
View(p) ==
  /\ At(p, "view")
  /\ lock = NoProc
  /\ \/ /\ req[p].op = "rotate"
        /\ Goto(p, "retire")
     \/ /\ req[p].op = "bind"
        /\ Finish(p)
  /\ UNCHANGED <<vaultVars, row, lock, bound>>

Retire(p) ==
  /\ At(p, "retire")
  /\ \/ /\ vstate[req[p].old] \in {"pending", "active"}
        /\ Goto(p, "retire_write")
     \/ /\ vstate[req[p].old] \in {"absent", "deactivated"}
        /\ Finish(p)
  /\ UNCHANGED <<vaultVars, row, lock, bound>>

\* deactivate_version selects by version number again: any row with it will do.
RetireWrite(p) ==
  /\ At(p, "retire_write")
  /\ \/ /\ Present(req[p].old)
        /\ DeactivateVersion(req[p].old)
        /\ Finish(p)
     \/ /\ ~Present(req[p].old)
        /\ Record(p, "recovery_required")
        /\ UNCHANGED vaultVars
  /\ UNCHANGED <<row, lock, bound>>

\* Mutant: a failed activation ends the request without a recovery code.
VaultFails_Silent(p) ==
  /\ "vault" \in Faults
  /\ req[p].pc \in {"activate", "activate_update", "retire", "retire_write"}
  /\ Finish(p)
  /\ UNCHANGED <<vaultVars, row, lock, bound>>

\* A SecretVaultError raised by the vault: after the commit, before anything was stored,
\* while recovering, or in a disconnect, where only deactivate_version has a handler of its
\* own: the checks before and after it reach the outer one, which records a code.
VaultFails(p) ==
  /\ "vault" \in Faults
  /\ \/ /\ req[p].pc \in {"activate", "activate_update"}
        /\ Record(p, "activation_required")
        /\ UNCHANGED lock
     \/ /\ req[p].pc \in {"retire", "retire_write"}
        /\ Record(p, "recovery_required")
        /\ UNCHANGED lock
     \/ /\ req[p].pc \in {"orphan", "drop", "store", "revoke", "recover",
                          "recover_update", "recover_retire"}
        /\ Finish(p)
        /\ Release
     \/ /\ req[p].pc \in {"revoke", "confirm"}
        /\ Record(p, "recovery_required")
        /\ Release
  /\ UNCHANGED <<vaultVars, row, bound>>

RecordRecovery(p) ==
  /\ At(p, "record")
  /\ lock = NoProc
  /\ row' = [row EXCEPT !.error_code = req[p].code]
  /\ Finish(p)
  /\ UNCHANGED <<vaultVars, lock, bound>>

\* _record_recovery_code swallows its own failure.
RecordFails(p) ==
  /\ "record" \in Faults
  /\ At(p, "record")
  /\ Finish(p)
  /\ UNCHANGED <<vaultVars, row, lock, bound>>

-----------------------------------------------------------------------------
(* disconnect.                                                             *)

Revoke(p) ==
  /\ At(p, "revoke")
  /\ \/ /\ Present(req[p].ver)
        /\ DeactivateVersion(req[p].ver)
     \/ /\ ~Present(req[p].ver)
        /\ UNCHANGED vaultVars
  /\ Goto(p, "confirm")
  /\ UNCHANGED <<row, lock, bound>>

ConfirmInactive(p) ==
  /\ At(p, "confirm")
  /\ \/ /\ vstate[req[p].ver] \in {"absent", "deactivated"}
        /\ Goto(p, "clear")
        /\ UNCHANGED <<row, lock>>
     \/ /\ vstate[req[p].ver] \in {"pending", "active"}
        /\ row' = [row EXCEPT !.error_code = "revoke_failed"]
        /\ Finish(p)
        /\ Release
  /\ UNCHANGED <<vaultVars, bound>>

ClearRef(p) ==
  /\ At(p, "clear")
  /\ row' = [secret_ref |-> NoRef, error_code |-> "none", token_status |-> "not_configured"]
  /\ bound' = 0
  /\ Finish(p)
  /\ Release
  /\ UNCHANGED vaultVars

\* Mutant: a disconnect whose commit fails leaves no recovery code.
ClearFails_Silent(p) ==
  /\ "commit" \in Faults
  /\ At(p, "clear")
  /\ Finish(p)
  /\ Release
  /\ UNCHANGED <<vaultVars, row, bound>>

ClearFails(p) ==
  /\ "commit" \in Faults
  /\ At(p, "clear")
  /\ Record(p, "recovery_required")
  /\ Release
  /\ UNCHANGED <<vaultVars, row, bound>>

-----------------------------------------------------------------------------
(* recover_bound_activation and recover_rotation_previous_deactivate.      *)

\* Where recovery goes once the current version needs nothing more.
AfterActivation(p) ==
  IF req[p].op = "recover_rotation" THEN "recover_retire" ELSE "recover_commit"

Recover(p) ==
  /\ At(p, "recover")
  /\ \/ /\ vstate[req[p].ver] = "active"
        /\ Goto(p, AfterActivation(p))
        /\ UNCHANGED lock
     \/ /\ vstate[req[p].ver] = "pending"
        /\ req' = [req EXCEPT ![p].pc = "recover_update", ![p].id = vid[req[p].ver]]
        /\ UNCHANGED lock
     \/ /\ vstate[req[p].ver] \in {"absent", "deactivated"}
        /\ req[p].op = "recover_activation"    \* vault_recovery_required
        /\ Finish(p)
        /\ Release
     \/ /\ vstate[req[p].ver] \in {"absent", "deactivated"}
        /\ req[p].op = "recover_rotation"      \* no such check here: it goes on
        /\ Goto(p, "recover_retire")
        /\ UNCHANGED lock
  /\ UNCHANGED <<vaultVars, row, bound>>

RecoverUpdate(p) ==
  /\ At(p, "recover_update")
  /\ SelectedRowExists(p)
  /\ UpdateToActive(req[p].ver)
  /\ Goto(p, AfterActivation(p))
  /\ UNCHANGED <<row, lock, bound>>

RecoverStale(p) ==
  /\ At(p, "recover_update")
  /\ ~SelectedRowExists(p)
  /\ Finish(p)
  /\ Release
  /\ UNCHANGED <<vaultVars, row, bound>>

RecoverRetire(p) ==
  /\ At(p, "recover_retire")
  /\ \/ /\ Present(req[p].old)
        /\ DeactivateVersion(req[p].old)
     \/ /\ ~Present(req[p].old)
        /\ UNCHANGED vaultVars
  /\ Goto(p, "recover_commit")
  /\ UNCHANGED <<row, lock, bound>>

RecoverCommit(p) ==
  /\ At(p, "recover_commit")
  /\ row' = [row EXCEPT !.error_code = "none",
                        !.token_status = IF req[p].op = "recover_activation"
                                         THEN "not_configured" ELSE @]
  /\ Finish(p)
  /\ Release
  /\ UNCHANGED <<vaultVars, bound>>

-----------------------------------------------------------------------------
(* set_token_status to a healthy value, on the caller's own session: the   *)
(* row is read without a lock, checked, and written at the caller's commit.*)

ReadForToken(p) ==
  /\ "set_token" \in Ops
  /\ At(p, "idle")
  /\ row.secret_ref # NoRef
  /\ req' = [req EXCEPT ![p] = [pc |-> "token_write", op |-> "set_token", ver |-> 0,
                                old |-> 0, id |-> 0, code |-> row.error_code]]
  /\ UNCHANGED <<vaultVars, row, lock, bound>>

\* Mutant: the table has no check constraint on healthy tokens.
WriteToken_NoConstraint(p) ==
  /\ At(p, "token_write")
  /\ lock = NoProc
  /\ row' = [row EXCEPT !.token_status = "valid",
                        !.error_code = IF req[p].code = "none" THEN @ ELSE "none"]
  /\ Finish(p)
  /\ UNCHANGED <<vaultVars, lock, bound>>

\* Only changed columns are written (the error code if the stale row had one), and the
\* check constraint of the table refuses a healthy token on a row without a secret.
WriteToken(p) ==
  /\ At(p, "token_write")
  /\ lock = NoProc
  /\ \/ /\ row.secret_ref # NoRef
        /\ row' = [row EXCEPT !.token_status = "valid",
                              !.error_code = IF req[p].code = "none" THEN @ ELSE "none"]
     \/ /\ row.secret_ref = NoRef
        /\ UNCHANGED row
  /\ Finish(p)
  /\ UNCHANGED <<vaultVars, lock, bound>>

-----------------------------------------------------------------------------
(* The environment.                                                        *)

\* The process dies, or a driver error ends the request with no compensation:
\* the database rolls the open transaction back, the vault keeps what it has.
Crash(p) ==
  /\ "crash" \in Faults
  /\ ~At(p, "idle")
  /\ lock' = IF lock = p THEN NoProc ELSE lock
  /\ Finish(p)
  /\ UNCHANGED <<vaultVars, row, bound>>

InFlight == {req[p].ver : p \in {q \in Procs : ~At(q, "idle")}}

\* cleanup_orphan_pending: every pending row older than the TTL.  A version some
\* request is still working on is taken to be younger than that.
CleanupPending ==
  /\ "ttl" \in Faults
  /\ \E v \in Versions \ InFlight : vstate[v] = "pending"
  /\ vstate' = [v \in Versions |-> IF vstate[v] = "pending" /\ v \notin InFlight
                                   THEN "absent" ELSE vstate[v]]
  /\ UNCHANGED <<vid, issued, row, lock, req, bound>>

-----------------------------------------------------------------------------
\* What a worker does inside a request it has begun, failures aside.
Step(p) ==
  \/ CheckOrphan(p) \/ DropOrphan(p) \/ Store(p) \/ Healthy(p) \/ Unhealthy(p)
  \/ Commit(p) \/ Compensate(p) \/ CompensateDelete(p)
  \/ Activate(p) \/ ActivateUpdate(p) \/ ActivateStale(p) \/ View(p)
  \/ Retire(p) \/ RetireWrite(p) \/ RecordRecovery(p)
  \/ Revoke(p) \/ ConfirmInactive(p) \/ ClearRef(p)
  \/ Recover(p) \/ RecoverUpdate(p) \/ RecoverStale(p) \/ RecoverRetire(p)
  \/ RecoverCommit(p) \/ WriteToken(p)

Arrive(p) ==
  \/ BeginBind(p) \/ BeginRotate(p) \/ BeginDisconnect(p) \/ DisconnectNothing(p)
  \/ BeginRecoverActivation(p) \/ BeginRecoverRotation(p) \/ ReadForToken(p)

Fail(p) ==
  \/ CommitFails(p) \/ CommitUnacknowledged(p) \/ VaultFails(p) \/ RecordFails(p)
  \/ ClearFails(p) \/ Crash(p)

Next == CleanupPending \/ \E p \in Procs : Step(p) \/ Arrive(p) \/ Fail(p)

Spec == Init /\ [][Next]_vars

\* Workers run to the end of a request, and the row lock is granted in the order
\* it was asked for: nobody waits for it forever.  Failures are never owed.
FairSpec == Spec /\ \A p \in Procs : SF_vars(Step(p))

-----------------------------------------------------------------------------
(* Correctness.                                                            *)

AllIdle == \A p \in Procs : At(p, "idle")

\* The row lock is held exactly by the request that is between _lock_or_404 and
\* its commit or rollback: no path forgets to end its transaction or goes on
\* changing the row after it did.
LockDiscipline == \A p \in Procs : req[p].pc \in LockedPcs <=> lock = p

\* When bind or rotate reaches store_secret, the version number it is about to use
\* is free, whatever crashed, failed or compensated before: the unique key of the
\* vault is never what stops a retry.
StoreFindsFreeSlot == \A p \in Procs : At(p, "store") => ~Present(req[p].ver)

\* "Post-commit failures never delete a bound version": while the row carries a
\* reference, the vault has that version and it is the very row whose storage the
\* binding request committed, not a later one that reuses the number.
BoundSecretKept ==
  IF row.secret_ref = NoRef
    THEN bound = 0
    ELSE Present(row.secret_ref) /\ vid[row.secret_ref] = bound

\* The lifecycle implements SecretCustody: what the connection holds is the vault row
\* its reference leads to, so a step that discards, replaces or resurrects the bound
\* secret in the vault shows as a step the custody does not allow.
Custody == INSTANCE SecretCustody WITH
             held <- IF row.secret_ref = NoRef THEN 0 ELSE vid[row.secret_ref],
             stored <- {vid[v] : v \in {w \in Versions : Present(w)}},
             last <- issued

CustodyKept == Custody!CustodySpec

\* A connection never loses track of a live secret: once nothing is bound and no
\* request is running, no version is active ("avoid orphan secret with no DB pointer").
NoUntrackedActive ==
  AllIdle /\ row.secret_ref = NoRef => \A v \in Versions : vstate[v] # "active"

\* "No dual-active grace period": at rest, and unless the row asks for recovery, only
\* the bound version is active.
NoDualActive ==
  AllIdle /\ row.error_code = "none" =>
    \A v \in Versions : vstate[v] = "active" => v = row.secret_ref

\* At rest, a bound secret that is not active is one the row reports as such.
InactiveIsReported ==
  AllIdle /\ row.secret_ref # NoRef =>
    vstate[row.secret_ref] = "active" \/ row.error_code # "none"

\* A healthy token has a secret, although set_token_status checks a row it read without
\* a lock and a disconnect may clear the reference before the token is written.
HealthyTokenHasSecret == row.token_status = "valid" => row.secret_ref # NoRef

\* Every request ends: the waits for the row lock after the commit cannot starve or
\* deadlock with the requests that hold it.
EveryRequestEnds == \A p \in Procs : ~At(p, "idle") ~> At(p, "idle")

\* The bound version is gone from the vault: the TTL sweep has deleted it, or a compensation
\* has, after a lost acknowledgement or for another request that used the same number.
BoundDeleted == row.secret_ref # NoRef /\ ~Present(row.secret_ref)

\* A secret committed as pending does not stay that way in silence: it becomes active, is
\* replaced or disconnected, or the row gets a recovery code (_post_commit_activate,
\* _record_recovery_code).  Behaviours in which the sweep or a compensation deletes a bound
\* version are left out: there the row stays without a code.
PendingSettles ==
  []~BoundDeleted =>
    \A v \in Versions :
      (row.secret_ref = v /\ vstate[v] = "pending") ~>
        (row.secret_ref # v \/ vstate[v] = "active" \/ row.error_code # "none")
=============================================================================
