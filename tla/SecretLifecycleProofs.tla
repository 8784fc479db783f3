------------------------ MODULE SecretLifecycleProofs ------------------------
(***************************************************************************)
(* Proofs about SecretLifecycle, for any set of workers and any bounds.    *)
(*                                                                         *)
(* Every action touches three independent things: the vault, the           *)
(* connection row and the request record of its worker.  The lemmas        *)
(* VaultMoves, RowMoves and RequestMoves say once what the actions may do  *)
(* to each of them; the invariants follow from those.                      *)
(***************************************************************************)
EXTENDS SecretLifecycle, TLAPS

Acts(p) == Step(p) \/ Arrive(p) \/ Fail(p)

Pcs == LockedPcs \cup UnlockedPcs
AllRequests == [Procs -> Requests]

-----------------------------------------------------------------------------
(* The vault.                                                              *)

\* The ways a request changes the vault.
VaultMove(p) ==
  \/ UNCHANGED vaultVars
  \/ At(p, "store") /\ StoreSecret(req[p].ver)
  \/ req[p].pc \in {"drop", "health", "compensate_delete"} /\ DeleteVersion(req[p].ver)
  \/ /\ req[p].pc \in {"retire_write", "revoke", "recover_retire"}
     /\ \E v \in {req[p].ver, req[p].old} : Present(v) /\ DeactivateVersion(v)
  \/ /\ req[p].pc \in {"activate_update", "recover_update"}
     /\ SelectedRowExists(p) /\ UpdateToActive(req[p].ver)

\* Whatever a request does, its effect on the vault is one of the moves above.
LEMMA VaultMoves ==
  ASSUME NEW p \in Procs, Acts(p)
  PROVE  VaultMove(p)
<1>1. CASE \/ CheckOrphan(p) \/ Healthy(p) \/ Commit(p) \/ Compensate(p) \/ Activate(p)
           \/ ActivateStale(p) \/ View(p) \/ Retire(p) \/ RecordRecovery(p)
           \/ ConfirmInactive(p) \/ ClearRef(p) \/ Recover(p) \/ RecoverStale(p)
           \/ RecoverCommit(p) \/ WriteToken(p)
  BY <1>1, Zenon DEF VaultMove, CheckOrphan, Healthy, Commit, Compensate, Activate, ActivateStale,
     View, Retire, RecordRecovery, ConfirmInactive, ClearRef, Recover, RecoverStale,
     RecoverCommit, WriteToken
<1>2. CASE Arrive(p)
  BY <1>2, Zenon DEF VaultMove, Arrive, BeginBind, BeginRotate, BeginDisconnect, DisconnectNothing,
     BeginRecoverActivation, BeginRecoverRotation, ReadForToken, Begin
<1>3. CASE Fail(p)
  BY <1>3, Zenon DEF VaultMove, Fail, CommitFails, CommitUnacknowledged, VaultFails, RecordFails,
     ClearFails, Crash
<1>4. CASE Store(p)
  BY <1>4 DEF VaultMove, Store
<1>5. CASE DropOrphan(p) \/ Unhealthy(p) \/ CompensateDelete(p)
  BY <1>5 DEF VaultMove, DropOrphan, Unhealthy, CompensateDelete, At
<1>6. CASE RetireWrite(p) \/ Revoke(p) \/ RecoverRetire(p)
  BY <1>6 DEF VaultMove, RetireWrite, Revoke, RecoverRetire, At
<1>7. CASE ActivateUpdate(p) \/ RecoverUpdate(p)
  BY <1>7 DEF VaultMove, ActivateUpdate, RecoverUpdate, At
<1>. QED BY <1>1, <1>2, <1>3, <1>4, <1>5, <1>6, <1>7 DEF Acts, Step

-----------------------------------------------------------------------------
(* The connection row.                                                     *)

\* A reference is written only at the commit of bind and rotate and cleared only at
\* the commit of disconnect; everything else touches error code and token status.
RowMove(p) ==
  \/ row'.secret_ref = row.secret_ref /\ bound' = bound
  \/ At(p, "commit") /\ BindRow(p)
  \/ At(p, "clear") /\ row'.secret_ref = NoRef /\ bound' = 0

RowTyped == row \in [secret_ref : 0..MaxVersion, error_code : ErrorCodes,
                     token_status : TokenStatuses]

\* Whatever a request does, its effect on the connection row is one of these moves.
LEMMA RowMoves ==
  ASSUME TypeOK, NEW p \in Procs, Acts(p)
  PROVE  RowMove(p) /\ RowTyped'
<1>. USE DEF RowMove, RowTyped, TypeOK
<1>1. CASE UNCHANGED <<row, bound>>
  BY <1>1
<1>2. CASE Commit(p) \/ CommitUnacknowledged(p)
  <2>1. At(p, "commit") /\ BindRow(p)
    BY <1>2 DEF Commit, CommitUnacknowledged
  <2>2. req[p].ver \in 0..MaxVersion
    BY DEF Requests
  <2>. QED BY <2>1, <2>2 DEF BindRow, ErrorCodes, TokenStatuses
<1>3. CASE ClearRef(p)
  BY <1>3, BoundsAssumption DEF ClearRef, NoRef, ErrorCodes, TokenStatuses
<1>4. CASE RecordRecovery(p)
  <2>1. req[p].code \in ErrorCodes
    BY DEF Requests
  <2>. QED BY <1>4, <2>1 DEF RecordRecovery
<1>5. CASE DisconnectNothing(p) \/ WriteToken(p) \/ RecoverCommit(p)
  BY <1>5 DEF DisconnectNothing, WriteToken, RecoverCommit, ErrorCodes, TokenStatuses
<1>6. CASE ConfirmInactive(p)
  BY <1>6 DEF ConfirmInactive, ErrorCodes
<1>. QED BY <1>1, <1>2, <1>3, <1>4, <1>5, <1>6 DEF Acts, Step, Arrive, Fail, CheckOrphan,
  DropOrphan, Store, Healthy, Unhealthy, Compensate, CompensateDelete, Activate, ActivateUpdate,
  ActivateStale, View, Retire, RetireWrite, Revoke, Recover, RecoverUpdate, RecoverStale,
  RecoverRetire, BeginBind, BeginRotate, BeginDisconnect, BeginRecoverActivation,
  BeginRecoverRotation, Begin, ReadForToken, CommitFails, VaultFails, RecordFails, ClearFails, Crash

-----------------------------------------------------------------------------
(* The request records.                                                    *)

\* The program points of a request are those of the two phases, locked and unlocked.
LEMMA PcNames ==
  {"orphan", "drop", "store", "health", "commit", "revoke", "confirm", "clear", "recover",
   "recover_update", "recover_retire", "recover_commit", "idle", "compensate",
   "compensate_delete", "activate", "activate_update", "view", "retire", "retire_write",
   "record", "token_write"} \subseteq Pcs
  BY DEF Pcs, LockedPcs, UnlockedPcs

\* The recovery codes the requests record are error codes of the row.
LEMMA CodeNames == {"none", "activation_required", "recovery_required"} \subseteq ErrorCodes
  BY DEF ErrorCodes

\* The ways the record of a worker changes keep it a request record.
LEMMA RequestUpdates ==
  ASSUME req \in AllRequests, NEW p \in Procs
  PROVE  /\ Finish(p) => req' \in AllRequests
         /\ \A pc \in Pcs : Goto(p, pc) => req' \in AllRequests
         /\ \A code \in ErrorCodes : Record(p, code) => req' \in AllRequests
         /\ \A pc \in Pcs, i \in Nat :
              req' = [req EXCEPT ![p].pc = pc, ![p].id = i] => req' \in AllRequests
<1>1. Resting \in Requests
  BY BoundsAssumption, PcNames, CodeNames DEF Resting, Requests, Pcs
<1>2. Finish(p) => req' \in AllRequests
  BY <1>1 DEF Finish, AllRequests
<1>3. ASSUME NEW pc \in Pcs, Goto(p, pc) PROVE req' \in AllRequests
  BY <1>3 DEF Goto, Requests, AllRequests, Pcs
<1>4. ASSUME NEW code \in ErrorCodes, Record(p, code) PROVE req' \in AllRequests
  BY <1>4, PcNames DEF Record, Requests, AllRequests, Pcs
<1>5. ASSUME NEW pc \in Pcs, NEW i \in Nat,
             req' = [req EXCEPT ![p].pc = pc, ![p].id = i]
      PROVE  req' \in AllRequests
  BY <1>5 DEF Requests, AllRequests, Pcs
<1>. QED BY <1>2, <1>3, <1>4, <1>5

\* The same updates, read field by field.
SameWork(p) == req'[p].ver = req[p].ver /\ req'[p].old = req[p].old /\ req'[p].op = req[p].op

\* Only a request that begins chooses its version numbers; later steps keep them.
LEMMA RequestFields ==
  ASSUME req \in AllRequests, NEW p \in Procs
  PROVE  /\ Finish(p) => req'[p] = Resting
         /\ \A pc : Goto(p, pc) => SameWork(p) /\ req'[p].pc = pc /\ req'[p].id = req[p].id
         /\ \A code : Record(p, code) => SameWork(p) /\ req'[p].pc = "record"
         /\ \A pc, i : req' = [req EXCEPT ![p].pc = pc, ![p].id = i]
                         => SameWork(p) /\ req'[p].pc = pc /\ req'[p].id = i
  BY DEF AllRequests, Requests, Finish, Goto, Record, SameWork

\* Storing a secret keeps the version numbers its request works on.
LEMMA StoreFields ==
  ASSUME req \in AllRequests, NEW p \in Procs, Store(p)
  PROVE  SameWork(p) /\ req'[p].pc = "health" /\ req'[p].id = issued + 1
  BY DEF AllRequests, Requests, Store, SameWork

\* A step of one worker leaves the records of the others alone.
LEMMA OthersUntouched ==
  ASSUME req \in AllRequests, NEW p \in Procs, Acts(p), NEW q \in Procs, q # p
  PROVE  req'[q] = req[q]
<1>. USE DEF AllRequests, Goto, Finish, Record
<1>1. CASE Arrive(p)
  BY <1>1 DEF Arrive, BeginBind, BeginRotate, BeginDisconnect, DisconnectNothing,
     BeginRecoverActivation, BeginRecoverRotation, ReadForToken, Begin
<1>2. CASE Fail(p)
  BY <1>2 DEF Fail, CommitFails, CommitUnacknowledged, VaultFails, RecordFails, ClearFails, Crash
<1>3. CASE Step(p)
  BY <1>3 DEF Step, CheckOrphan, DropOrphan, Store, Healthy, Unhealthy, Commit, Compensate,
     CompensateDelete, Activate, ActivateUpdate, ActivateStale, View, Retire, RetireWrite,
     RecordRecovery, Revoke, ConfirmInactive, ClearRef, Recover, RecoverUpdate, RecoverStale,
     RecoverRetire, RecoverCommit, WriteToken
<1>. QED BY <1>1, <1>2, <1>3 DEF Acts

\* A request that takes the row lock starts with a well-typed record.
LEMMA BeginTyped ==
  ASSUME req \in AllRequests, NEW p \in Procs, NEW op \in Operations, NEW pc \in Pcs,
         NEW ver \in 0..MaxVersion, NEW old \in 0..MaxVersion, Begin(p, op, pc, ver, old)
  PROVE  req' \in AllRequests
  BY CodeNames DEF Begin, AllRequests, Requests, Pcs

\* No step takes a request record out of its type.
LEMMA RequestsTyped ==
  ASSUME TypeOK, NEW p \in Procs, Acts(p)
  PROVE  req' \in AllRequests
<1>1. req \in AllRequests /\ issued \in Nat
  BY DEF TypeOK, AllRequests
<1>2. ~At(p, "idle") /\ ~At(p, "token_write") => vid[req[p].ver] \in Nat
  BY DEF TypeOK, At
<1>. USE PcNames, CodeNames, RequestUpdates, <1>1
<1>3. CASE CheckOrphan(p) \/ DropOrphan(p) \/ Healthy(p) \/ Unhealthy(p) \/ Commit(p)
        \/ Compensate(p) \/ CompensateDelete(p)
  BY <1>3 DEF CheckOrphan, DropOrphan, Healthy, Unhealthy, Commit, Compensate, CompensateDelete
<1>4. CASE ActivateUpdate(p) \/ ActivateStale(p) \/ View(p) \/ Retire(p) \/ RetireWrite(p)
        \/ RecordRecovery(p) \/ Revoke(p) \/ ConfirmInactive(p) \/ ClearRef(p)
  BY <1>4 DEF ActivateUpdate, ActivateStale, View, Retire, RetireWrite, RecordRecovery, Revoke,
     ConfirmInactive, ClearRef
<1>5. CASE RecoverUpdate(p) \/ RecoverStale(p) \/ RecoverRetire(p) \/ RecoverCommit(p)
        \/ WriteToken(p) \/ DisconnectNothing(p)
  BY <1>5 DEF RecoverUpdate, RecoverStale, RecoverRetire, RecoverCommit, WriteToken,
     AfterActivation, DisconnectNothing
<1>6. CASE Store(p)
  <2>1. issued + 1 \in Nat /\ "health" \in Pcs
    BY <1>1
  <2>2. req' = [req EXCEPT ![p].pc = "health", ![p].id = issued + 1]
    BY <1>6 DEF Store
  <2>. QED BY <2>1, <2>2
<1>7. CASE Activate(p)
  BY <1>7, <1>2 DEF Activate, At
<1>8. CASE Recover(p)
  BY <1>8, <1>2 DEF Recover, At, AfterActivation
<1>9. CASE Fail(p)
  BY <1>9 DEF Fail, CommitFails, CommitUnacknowledged, VaultFails, RecordFails, ClearFails, Crash
<1>10. CASE \/ BeginBind(p) \/ BeginRotate(p) \/ BeginDisconnect(p)
            \/ BeginRecoverActivation(p) \/ BeginRecoverRotation(p)
  <2>1. row.secret_ref \in 0..MaxVersion
    BY DEF TypeOK
  <2>2. \E op \in Operations, pc \in Pcs, ver \in 0..MaxVersion, old \in 0..MaxVersion :
          Begin(p, op, pc, ver, old)
    <3>1. CASE BeginBind(p)
      <4>1. 1 \in 0..MaxVersion /\ NoRef \in 0..MaxVersion /\ "bind" \in Operations
        BY BoundsAssumption DEF NoRef, Operations
      <4>. QED BY <3>1, <4>1 DEF BeginBind
    <3>2. CASE BeginRotate(p)
      <4>1. row.secret_ref + 1 \in 0..MaxVersion /\ "rotate" \in Operations
        BY BoundsAssumption, <2>1, <3>2 DEF Operations, BeginRotate
      <4>. QED BY <3>2, <2>1, <4>1 DEF BeginRotate
    <3>3. CASE BeginDisconnect(p) \/ BeginRecoverActivation(p)
      <4>1. NoRef \in 0..MaxVersion /\ {"disconnect", "recover_activation"} \subseteq Operations
        BY BoundsAssumption DEF NoRef, Operations
      <4>. QED BY <3>3, <2>1, <4>1 DEF BeginDisconnect, BeginRecoverActivation
    <3>4. CASE BeginRecoverRotation(p)
      <4>1. row.secret_ref - 1 \in 0..MaxVersion /\ "recover_rotation" \in Operations
        BY BoundsAssumption, <2>1, <3>4 DEF Operations, BeginRecoverRotation
      <4>. QED BY <3>4, <2>1, <4>1 DEF BeginRecoverRotation
    <3>. QED BY <1>10, <3>1, <3>2, <3>3, <3>4
  <2>. QED BY <2>2, BeginTyped
<1>11. CASE ReadForToken(p)
  <2>1. row.error_code \in ErrorCodes /\ "set_token" \in Operations
    BY DEF TypeOK, Operations
  <2> DEFINE reading == [pc |-> "token_write", op |-> "set_token", ver |-> 0, old |-> 0,
                         id |-> 0, code |-> row.error_code]
  <2>2. reading \in Requests
    BY <2>1, BoundsAssumption DEF Requests, Pcs
  <2>. QED BY <1>11, <2>2 DEF ReadForToken, AllRequests
<1>. QED BY <1>3, <1>4, <1>5, <1>6, <1>7, <1>8, <1>9, <1>10, <1>11 DEF Acts, Step, Arrive

-----------------------------------------------------------------------------
(* Types.                                                                  *)

\* No move takes the vault out of its type.
LEMMA VaultTyped ==
  ASSUME TypeOK, NEW p \in Procs, Acts(p)
  PROVE  /\ vstate' \in [Versions -> VaultStates]
         /\ vid' \in [Versions -> Nat]
         /\ issued' \in Nat
<1>1. VaultMove(p)
  BY VaultMoves
<1>. QED BY <1>1 DEF VaultMove, TypeOK, VaultStates, vaultVars, StoreSecret, DeleteVersion,
     DeactivateVersion, UpdateToActive

\* A request under way keeps working on a real version number.
LEMMA WorkingVersion ==
  ASSUME TypeOK, NEW p \in Procs, Acts(p), NEW q \in Procs
  PROVE  req'[q].pc \notin {"idle", "token_write"} => req'[q].ver \in Versions
<1>1. req \in AllRequests /\ row.secret_ref \in 0..MaxVersion
  BY DEF TypeOK, AllRequests
<1>2. req[q].pc \notin {"idle", "token_write"} => req[q].ver \in Versions
  BY DEF TypeOK
<1>3. CASE req'[q] = req[q] \/ req'[q] = Resting
  BY <1>2, <1>3 DEF Resting
<1>4. CASE req'[q].ver = req[q].ver /\ req[q].pc \notin {"idle", "token_write"}
  BY <1>2, <1>4
<1>5. CASE p = q /\ Arrive(p)
  <2>. USE <1>1, <1>5, BoundsAssumption DEF Versions, AllRequests
  <2>1. CASE BeginBind(p) \/ BeginRotate(p)
    BY <2>1 DEF BeginBind, BeginRotate, Begin, NoRef
  <2>2. CASE BeginDisconnect(p) \/ BeginRecoverActivation(p) \/ BeginRecoverRotation(p)
    BY <2>2 DEF BeginDisconnect, BeginRecoverActivation, BeginRecoverRotation, Begin, NoRef
  <2>3. CASE ReadForToken(p)
    BY <2>3 DEF ReadForToken
  <2>4. CASE DisconnectNothing(p)
    BY <2>4, <1>2 DEF DisconnectNothing
  <2>. QED BY <2>1, <2>2, <2>3, <2>4 DEF Arrive
<1>6. CASE p # q
  BY <1>1, <1>6, <1>3, OthersUntouched
<1>7. CASE p = q /\ ~Arrive(p)
  <2>1. \/ req'[p] = Resting
        \/ SameWork(p) /\ req[p].pc \notin {"idle", "token_write"}
    <3>. USE <1>1, RequestFields DEF At
    <3>1. CASE Fail(p)
      BY <3>1 DEF Fail, CommitFails, CommitUnacknowledged, VaultFails, RecordFails, ClearFails, Crash
    <3>2. CASE CheckOrphan(p) \/ DropOrphan(p) \/ Healthy(p) \/ Unhealthy(p)
               \/ Commit(p) \/ Compensate(p) \/ CompensateDelete(p)
      BY <3>2 DEF CheckOrphan, DropOrphan, Healthy, Unhealthy, Commit, Compensate,
         CompensateDelete
    <3>5. CASE Store(p)
      BY <3>5, StoreFields DEF Store
    <3>3. CASE Activate(p) \/ ActivateUpdate(p) \/ ActivateStale(p) \/ View(p) \/ Retire(p)
               \/ RetireWrite(p) \/ RecordRecovery(p)
      BY <3>3 DEF Activate, ActivateUpdate, ActivateStale, View, Retire, RetireWrite, RecordRecovery
    <3>4. CASE Revoke(p) \/ ConfirmInactive(p) \/ ClearRef(p) \/ Recover(p) \/ RecoverUpdate(p)
               \/ RecoverStale(p) \/ RecoverRetire(p) \/ RecoverCommit(p) \/ WriteToken(p)
      BY <3>4 DEF Revoke, ConfirmInactive, ClearRef, Recover, RecoverUpdate, RecoverStale,
         RecoverRetire, RecoverCommit, WriteToken
    <3>. QED BY <1>7, <3>1, <3>2, <3>3, <3>4, <3>5 DEF Acts, Step
  <2>. QED BY <2>1, <1>3, <1>4, <1>7 DEF SameWork
<1>. QED BY <1>5, <1>6, <1>7

\* CleanupPending makes some pending versions absent and does nothing else.
LEMMA CleanupTyped == TypeOK /\ CleanupPending => TypeOK'
  BY DEF TypeOK, CleanupPending, VaultStates

\* TypeOK is preserved by every step of the lifecycle, the TTL sweep included.
LEMMA StepTyped == TypeOK /\ [Next]_vars => TypeOK'
<1>1. TypeOK /\ UNCHANGED vars => TypeOK'
  BY DEF TypeOK, vars
<1>2. ASSUME TypeOK, NEW p \in Procs, Acts(p)
      PROVE  TypeOK'
  <2>1. lock' \in Procs \cup {NoProc}
    BY <1>2 DEF TypeOK, Acts, Step, Arrive, Fail, Release, CheckOrphan, DropOrphan, Store,
       Healthy, Unhealthy, Commit, Compensate, CompensateDelete, Activate, ActivateUpdate,
       ActivateStale, View, Retire, RetireWrite, RecordRecovery, Revoke, ConfirmInactive,
       ClearRef, Recover, RecoverUpdate, RecoverStale, RecoverRetire, RecoverCommit, WriteToken,
       BeginBind, BeginRotate, BeginDisconnect, DisconnectNothing, BeginRecoverActivation,
       BeginRecoverRotation, ReadForToken, Begin, CommitFails, CommitUnacknowledged, VaultFails,
       RecordFails, ClearFails, Crash
  <2>2. bound' \in Nat
    <3>1. RowMove(p) /\ req[p].id \in Nat
      BY <1>2, RowMoves DEF TypeOK, Requests
    <3>. QED BY <1>2, <3>1 DEF TypeOK, RowMove, BindRow
  <2>. QED BY <1>2, <2>1, <2>2, VaultTyped, RowMoves, RequestsTyped, WorkingVersion
           DEF TypeOK, RowTyped, AllRequests
<1>. QED BY <1>1, <1>2, CleanupTyped DEF Next, Acts

\* Every reachable state of the lifecycle is well typed, and a request under way names a
\* version number the vault knows about.
THEOREM TypeInvariant == Spec => []TypeOK
<1>1. Init => TypeOK
  BY BoundsAssumption DEF Init, TypeOK, Versions, NoRef, VaultStates, ErrorCodes, TokenStatuses,
     Requests, Resting, UnlockedPcs
<1>. QED BY <1>1, StepTyped, PTL DEF Spec

-----------------------------------------------------------------------------
(* The row lock.                                                           *)

Locked(p) == req[p].pc \in LockedPcs

\* A worker enters the locked phases by taking a free lock, leaves them by releasing it,
\* and otherwise leaves the lock alone.
LockMove(p) ==
  \/ ~Locked(p) /\ ~Locked(p)' /\ lock' = lock
  \/ Locked(p) /\ Locked(p)' /\ lock' = lock
  \/ Locked(p) /\ ~Locked(p)' /\ lock' = NoProc
  \/ ~Locked(p) /\ Locked(p)' /\ lock = NoProc /\ lock' = p

\* A step keeps the phase of its worker and the lock, or changes both together.
LEMMA LockMoves ==
  ASSUME TypeOK, LockDiscipline, NEW p \in Procs, Acts(p)
  PROVE  LockMove(p)
<1>1. req \in AllRequests
  BY DEF TypeOK, AllRequests
<1>. USE <1>1, RequestFields DEF LockMove, Locked, LockedPcs, At, Release
<1>2. CASE BeginBind(p) \/ BeginRotate(p) \/ BeginDisconnect(p) \/ BeginRecoverActivation(p)
        \/ BeginRecoverRotation(p)
  BY <1>2 DEF BeginBind, BeginRotate, BeginDisconnect, BeginRecoverActivation,
     BeginRecoverRotation, Begin, AllRequests
<1>3. CASE DisconnectNothing(p) \/ ReadForToken(p)
  BY <1>3 DEF DisconnectNothing, ReadForToken, AllRequests
<1>4. CASE CheckOrphan(p) \/ DropOrphan(p) \/ Healthy(p) \/ Unhealthy(p) \/ Commit(p)
  BY <1>4 DEF CheckOrphan, DropOrphan, Healthy, Unhealthy, Commit, Resting
<1>5. CASE Store(p)
  BY <1>5, StoreFields DEF Store
<1>6. CASE Compensate(p) \/ CompensateDelete(p) \/ Activate(p) \/ ActivateUpdate(p)
        \/ ActivateStale(p) \/ View(p)
  BY <1>6 DEF Compensate, CompensateDelete, Activate, ActivateUpdate, ActivateStale, View, Resting
<1>7. CASE Retire(p) \/ RetireWrite(p) \/ RecordRecovery(p) \/ WriteToken(p)
  BY <1>7 DEF Retire, RetireWrite, RecordRecovery, WriteToken, Resting
<1>8. CASE Revoke(p) \/ ConfirmInactive(p) \/ ClearRef(p)
  BY <1>8 DEF Revoke, ConfirmInactive, ClearRef, Resting
<1>9. CASE Recover(p) \/ RecoverUpdate(p) \/ RecoverStale(p) \/ RecoverRetire(p)
        \/ RecoverCommit(p)
  BY <1>9 DEF Recover, RecoverUpdate, RecoverStale, RecoverRetire, RecoverCommit, AfterActivation,
     Resting
<1>10. CASE CommitFails(p) \/ CommitUnacknowledged(p) \/ VaultFails(p) \/ RecordFails(p)
         \/ ClearFails(p)
  BY <1>10 DEF CommitFails, CommitUnacknowledged, VaultFails, RecordFails, ClearFails, Resting
<1>11. CASE Crash(p)
  BY <1>11 DEF Crash, Resting, LockDiscipline
<1>. QED BY <1>2, <1>3, <1>4, <1>5, <1>6, <1>7, <1>8, <1>9, <1>10, <1>11
         DEF Acts, Step, Arrive, Fail

\* LockDiscipline is preserved by every step.
LEMMA StepLocked == TypeOK /\ LockDiscipline /\ [Next]_vars => LockDiscipline'
<1>1. LockDiscipline /\ (UNCHANGED vars \/ CleanupPending) => LockDiscipline'
  BY DEF LockDiscipline, vars, CleanupPending
<1>2. ASSUME TypeOK, LockDiscipline, NEW p \in Procs, Acts(p)
      PROVE  LockDiscipline'
  <2>1. LockMove(p) /\ \A q \in Procs \ {p} : req'[q] = req[q]
    BY <1>2, LockMoves, OthersUntouched DEF TypeOK, AllRequests
  <2>. QED BY <1>2, <2>1, ProcsAssumption DEF LockMove, Locked, LockDiscipline
<1>. QED BY <1>1, <1>2 DEF Next, Acts

\* The row lock is held exactly by the request that is in its locked phase, whatever
\* fails: at most one request at a time prepares a change of the connection.
THEOREM LockInvariant == Spec => []LockDiscipline
<1>1. Init => LockDiscipline
  BY ProcsAssumption DEF Init, LockDiscipline, Resting, LockedPcs
<1>. QED BY <1>1, StepLocked, TypeInvariant, PTL DEF Spec

-----------------------------------------------------------------------------
(* Storing and binding.                                                    *)

\* The only ways into the phases between the lock and the commit, and into compensation.
LEMMA StagingFlow ==
  ASSUME TypeOK, NEW p \in Procs, Acts(p)
  PROVE  /\ req'[p].pc = "orphan" => BeginBind(p) \/ BeginRotate(p)
         /\ req'[p].pc = "drop" => CheckOrphan(p)
         /\ req'[p].pc = "store" => (CheckOrphan(p) /\ ~Present(req[p].ver)) \/ DropOrphan(p)
         /\ req'[p].pc = "health" => Store(p)
         /\ req'[p].pc = "commit" => Healthy(p)
         /\ req'[p].pc = "compensate" => "commit" \in Faults \/ "ack" \in Faults
         /\ req'[p].pc = "compensate_delete" => At(p, "compensate")
<1>1. req \in AllRequests
  BY DEF TypeOK, AllRequests
<1>. USE <1>1, RequestFields DEF At, Resting
<1>2. CASE BeginBind(p) \/ BeginRotate(p) \/ BeginDisconnect(p) \/ BeginRecoverActivation(p)
        \/ BeginRecoverRotation(p) \/ DisconnectNothing(p) \/ ReadForToken(p)
  BY <1>2 DEF BeginBind, BeginRotate, BeginDisconnect, BeginRecoverActivation,
     BeginRecoverRotation, Begin, AllRequests, DisconnectNothing, ReadForToken
<1>3. CASE Store(p)
  BY <1>3, StoreFields
<1>4. CASE CheckOrphan(p) \/ DropOrphan(p) \/ Healthy(p) \/ Unhealthy(p) \/ Commit(p)
  BY <1>4 DEF CheckOrphan, DropOrphan, Healthy, Unhealthy, Commit, Present
<1>5. CASE Compensate(p) \/ CompensateDelete(p) \/ Activate(p) \/ ActivateUpdate(p)
        \/ ActivateStale(p) \/ View(p)
  BY <1>5 DEF Compensate, CompensateDelete, Activate, ActivateUpdate, ActivateStale, View
<1>6. CASE Retire(p) \/ RetireWrite(p) \/ RecordRecovery(p) \/ WriteToken(p)
  BY <1>6 DEF Retire, RetireWrite, RecordRecovery, WriteToken
<1>7. CASE Revoke(p) \/ ConfirmInactive(p) \/ ClearRef(p)
  BY <1>7 DEF Revoke, ConfirmInactive, ClearRef
<1>8. CASE Recover(p) \/ RecoverUpdate(p) \/ RecoverStale(p) \/ RecoverRetire(p)
        \/ RecoverCommit(p)
  BY <1>8 DEF Recover, RecoverUpdate, RecoverStale, RecoverRetire, RecoverCommit, AfterActivation
<1>9. CASE Fail(p)
  BY <1>9 DEF Fail, CommitFails, CommitUnacknowledged, VaultFails, RecordFails, ClearFails, Crash
<1>. QED BY <1>2, <1>3, <1>4, <1>5, <1>6, <1>7, <1>8, <1>9 DEF Acts, Step, Arrive

\* Two workers are never both between their lock and their commit.
LEMMA OneLocked ==
  ASSUME LockDiscipline, NEW p \in Procs, NEW q \in Procs, Locked(p), Locked(q)
  PROVE  p = q
  BY DEF LockDiscipline, Locked

\* A free version number stays free until the request that checked it stores its own.
LEMMA StepStoreFree ==
  TypeOK /\ LockDiscipline /\ StoreFindsFreeSlot /\ [Next]_vars => StoreFindsFreeSlot'
<1>1. StoreFindsFreeSlot /\ UNCHANGED vars => StoreFindsFreeSlot'
  BY DEF StoreFindsFreeSlot, vars, At, Present
<1>2. TypeOK /\ StoreFindsFreeSlot /\ CleanupPending => StoreFindsFreeSlot'
  BY DEF TypeOK, StoreFindsFreeSlot, CleanupPending, At, Present
<1>3. ASSUME TypeOK, LockDiscipline, StoreFindsFreeSlot, NEW p \in Procs, Acts(p),
             NEW q \in Procs, req'[q].pc = "store"
      PROVE  ~Present(req[q].ver)' /\ req'[q].ver = req[q].ver
  <2>1. req \in AllRequests
    BY <1>3 DEF TypeOK, AllRequests
  <2>2. CASE p = q
    <3>1. CASE DropOrphan(p)
      <4>1. req[p].ver \in Versions /\ SameWork(p)
        BY <3>1, <1>3, <2>1, RequestFields DEF DropOrphan, TypeOK, At
      <4>. QED BY <3>1, <2>2, <4>1, <1>3 DEF DropOrphan, DeleteVersion, Present, TypeOK, SameWork
    <3>2. CASE CheckOrphan(p) /\ ~Present(req[p].ver)
      <4>1. req'[p].ver = req[p].ver
        BY <3>2, <2>1, <2>2, <1>3, RequestFields DEF CheckOrphan, Present, SameWork, Resting
      <4>. QED BY <3>2, <2>2, <4>1 DEF CheckOrphan, Present, vaultVars
    <3>. QED BY <3>1, <3>2, <2>2, <1>3, StagingFlow
  <2>3. CASE p # q
    <3>1. req'[q] = req[q]
      BY <2>1, <2>3, <1>3, OthersUntouched
    <3>2. ~Present(req[q].ver) /\ ~At(p, "store")
      BY <3>1, <1>3, <2>3, OneLocked DEF StoreFindsFreeSlot, At, Locked, LockedPcs
    <3>3. VaultMove(p)
      BY <1>3, VaultMoves
    <3>. QED BY <3>1, <3>2, <3>3, <1>3 DEF VaultMove, vaultVars, DeleteVersion,
             DeactivateVersion, UpdateToActive, SelectedRowExists, Present, TypeOK
  <2>. QED BY <2>2, <2>3
<1>. QED
  <2>1. ASSUME TypeOK, LockDiscipline, StoreFindsFreeSlot, NEW p \in Procs, Acts(p)
        PROVE  StoreFindsFreeSlot'
    BY <2>1, <1>3 DEF StoreFindsFreeSlot, At, Present
  <2>. QED BY <2>1, <1>1, <1>2 DEF Next, Acts

\* The version number a bind or a rotate is about to store is free in every reachable
\* state, under every fault: a retry never runs into the unique key of the vault.
THEOREM StoreAlwaysFree == Spec => []StoreFindsFreeSlot
<1>1. Init => StoreFindsFreeSlot
  BY DEF Init, StoreFindsFreeSlot, At, Resting
<1>. QED BY <1>1, StepStoreFree, TypeInvariant, LockInvariant, PTL DEF Spec

-----------------------------------------------------------------------------
(* The bound secret is kept, as long as nobody deletes in the vault after  *)
(* having lost the row lock: no failed or unacknowledged commit is         *)
(* compensated, and the TTL cleanup does not run.                          *)

NoLateDeletion == Faults \cap {"commit", "ack", "ttl"} = {}

\* The invariant that keeps BoundSecretKept: a version that is being staged is not the
\* bound one, and what was stored for a commit is still there when the commit comes.
Staging(p) == req[p].pc \in {"orphan", "drop", "store", "health", "commit"}
Staged(p) == req[p].pc \in {"health", "commit"}

StagingInv ==
  \A p \in Procs :
    /\ Staging(p) => req[p].ver # row.secret_ref
    /\ Staged(p) => Present(req[p].ver) /\ vid[req[p].ver] = req[p].id
    /\ req[p].pc \notin {"compensate", "compensate_delete"}

KeptInv == TypeOK /\ LockDiscipline /\ StagingInv /\ BoundSecretKept

\* A request that is staging a version holds the row lock.
LEMMA StagingLocked == \A p \in Procs : Staging(p) => Locked(p)
  BY DEF Staging, Locked, LockedPcs

\* What the mover does to a version it is not staging itself.
LEMMA StagingStep ==
  ASSUME NoLateDeletion, KeptInv, NEW p \in Procs, Acts(p), NEW q \in Procs
  PROVE  /\ Staging(q)' => req'[q].ver # row'.secret_ref
         /\ Staged(q)' => Present(req[q].ver)' /\ vid'[req'[q].ver] = req'[q].id
         /\ req'[q].pc \notin {"compensate", "compensate_delete"}
<1>1. req \in AllRequests /\ TypeOK /\ LockDiscipline
  BY DEF KeptInv, TypeOK, AllRequests
<1>2. VaultMove(p) /\ RowMove(p)
  BY <1>1, VaultMoves, RowMoves
<1>3. CASE p = q
  <2>1. req'[q].pc \notin {"compensate", "compensate_delete"}
    BY <1>1, <1>3, StagingFlow DEF NoLateDeletion, KeptInv, StagingInv, At
  <2>2. ASSUME Staging(q)' PROVE req'[q].ver # row'.secret_ref
    <3>1. CASE BeginBind(p) \/ BeginRotate(p)
      <4>1. row.secret_ref \in Nat
        BY <1>1 DEF TypeOK
      <4>. QED BY <1>1, <1>3, <3>1, <4>1 DEF BeginBind, BeginRotate, Begin, NoRef, AllRequests
    <3>2. CASE CheckOrphan(p) \/ DropOrphan(p) \/ Store(p) \/ Healthy(p)
      <4>1. req'[p].ver = req[p].ver
        BY <1>1, <1>3, <2>2, <3>2, RequestFields, StoreFields
           DEF CheckOrphan, DropOrphan, Healthy, SameWork, Staging, Resting
      <4>2. Staging(p) /\ row' = row
        BY <3>2 DEF CheckOrphan, DropOrphan, Store, Healthy, Staging, At
      <4>. QED BY <1>3, <4>1, <4>2 DEF KeptInv, StagingInv
    <3>. QED BY <1>1, <1>3, <2>2, <3>1, <3>2, StagingFlow DEF Staging
  <2>3. ASSUME Staged(q)' PROVE Present(req[q].ver)' /\ vid'[req'[q].ver] = req'[q].id
    <3>1. CASE Store(p)
      <4>1. req[p].ver \in Versions
        BY <1>1, <3>1 DEF TypeOK, Store, At
      <4>. QED BY <1>1, <1>3, <3>1, <4>1, StoreFields
           DEF Store, StoreSecret, Present, TypeOK, SameWork
    <3>2. CASE Healthy(p)
      <4>1. req'[p].ver = req[p].ver /\ req'[p].id = req[p].id
        BY <1>1, <3>2, RequestFields DEF Healthy, SameWork
      <4>2. Staged(p)
        BY <3>2 DEF Healthy, Staged, At
      <4>. QED BY <1>3, <3>2, <4>1, <4>2 DEF Healthy, KeptInv, StagingInv, Present, vaultVars
    <3>. QED BY <1>1, <1>3, <2>3, <3>1, <3>2, StagingFlow DEF Staged
  <2>. QED BY <2>1, <2>2, <2>3
<1>4. CASE p # q
  <2>1. req'[q] = req[q]
    BY <1>1, <1>4, OthersUntouched
  <2>2. req'[q].pc \notin {"compensate", "compensate_delete"}
    BY <2>1 DEF KeptInv, StagingInv
  <2>3. ASSUME Staging(q)' PROVE req'[q].ver # row'.secret_ref
    <3>1. Staging(q) /\ ~Locked(p)
      BY <1>1, <1>4, <2>1, <2>3, StagingLocked, OneLocked DEF Staging
    <3>2. row'.secret_ref = row.secret_ref
      BY <1>2, <3>1 DEF RowMove, Locked, LockedPcs, At
    <3>. QED BY <2>1, <3>1, <3>2 DEF KeptInv, StagingInv
  <2>4. ASSUME Staged(q)' PROVE Present(req[q].ver)' /\ vid'[req'[q].ver] = req'[q].id
    <3>1. Staged(q) /\ ~Locked(p) /\ req[p].pc # "compensate_delete"
      BY <1>1, <1>4, <2>1, <2>4, StagingLocked, OneLocked DEF Staging, Staged, KeptInv, StagingInv
    <3>2. Present(req[q].ver) /\ vid[req[q].ver] = req[q].id
      BY <3>1 DEF KeptInv, StagingInv
    <3>3. req[p].pc \notin {"store", "drop", "health"}
      BY <3>1 DEF Locked, LockedPcs
    <3>4. req[q].ver \in Versions /\ vstate \in [Versions -> VaultStates]
      BY <1>1, <3>1 DEF TypeOK, Staged
    <3>5. vid' = vid /\ Present(req[q].ver)'
      BY <1>2, <2>1, <3>1, <3>2, <3>3, <3>4 DEF VaultMove, vaultVars, At, DeactivateVersion,
         UpdateToActive, Present
    <3>. QED BY <2>1, <3>2, <3>5
  <2>. QED BY <2>2, <2>3, <2>4
<1>. QED BY <1>3, <1>4

\* A step of one worker keeps the bound secret, unless it deletes outside the lock.
LEMMA BoundStep ==
  ASSUME NoLateDeletion, KeptInv, NEW p \in Procs, Acts(p)
  PROVE  BoundSecretKept'
<1>1. TypeOK /\ row.secret_ref \in 0..MaxVersion
  BY DEF KeptInv, TypeOK
<1>2. VaultMove(p) /\ RowMove(p)
  BY <1>1, VaultMoves, RowMoves
<1>3. CASE row'.secret_ref = row.secret_ref /\ bound' = bound
  <2>1. CASE row.secret_ref = NoRef
    BY <1>3, <2>1 DEF BoundSecretKept, KeptInv
  <2>2. CASE row.secret_ref # NoRef
    <3>1. Present(row.secret_ref) /\ vid[row.secret_ref] = bound
      BY <2>2 DEF BoundSecretKept, KeptInv
    <3>2. req[p].pc \in {"store", "drop", "health"} => req[p].ver # row.secret_ref
      BY DEF KeptInv, StagingInv, Staging
    <3>3. req[p].pc # "compensate_delete"
      BY DEF KeptInv, StagingInv
    <3>4. /\ row.secret_ref \in Versions
          /\ vstate \in [Versions -> VaultStates] /\ vid \in [Versions -> Nat]
      BY <1>1, <2>2 DEF TypeOK, Versions, NoRef
    <3>5. vid'[row.secret_ref] = vid[row.secret_ref] /\ vstate'[row.secret_ref] # "absent"
      BY <1>2, <3>1, <3>2, <3>3, <3>4 DEF VaultMove, vaultVars, At, StoreSecret, DeleteVersion,
         DeactivateVersion, UpdateToActive, Present
    <3>. QED BY <1>3, <2>2, <3>1, <3>5 DEF BoundSecretKept, Present
  <2>. QED BY <2>1, <2>2
<1>4. CASE At(p, "commit") /\ BindRow(p)
  <2>1. UNCHANGED <<vstate, vid>>
    BY <1>2, <1>4 DEF VaultMove, vaultVars, At
  <2>2. Present(req[p].ver) /\ vid[req[p].ver] = req[p].id
    BY <1>4 DEF KeptInv, StagingInv, Staged, At
  <2>3. req[p].ver # NoRef
    BY <1>1, <1>4 DEF TypeOK, At, Versions, NoRef
  <2>. QED BY <1>4, <2>1, <2>2, <2>3 DEF BindRow, BoundSecretKept, Present
<1>5. CASE row'.secret_ref = NoRef /\ bound' = 0
  BY <1>5 DEF BoundSecretKept
<1>. QED BY <1>2, <1>3, <1>4, <1>5 DEF RowMove

\* The inductive invariant of BoundSecretIsKept is preserved by every step.
LEMMA StepKept == NoLateDeletion /\ KeptInv /\ [Next]_vars => KeptInv'
<1>1. KeptInv /\ UNCHANGED vars => KeptInv'
  BY StepTyped, StepLocked DEF KeptInv, StagingInv, Staging, Staged, BoundSecretKept, Present, vars
<1>2. NoLateDeletion => ~CleanupPending
  BY DEF NoLateDeletion, CleanupPending
<1>3. ASSUME NoLateDeletion, KeptInv, NEW p \in Procs, Acts(p)
      PROVE  KeptInv'
  <2>1. TypeOK' /\ LockDiscipline'
    BY <1>3, StepTyped, StepLocked DEF KeptInv, Next, Acts
  <2>2. StagingInv'
    BY <1>3, StagingStep DEF StagingInv, Present
  <2>. QED BY <1>3, <2>1, <2>2, BoundStep DEF KeptInv
<1>. QED BY <1>1, <1>2, <1>3 DEF Next, Acts

\* The inductive invariant of BoundSecretIsKept holds initially.
LEMMA InitKept == Init => KeptInv
<1>1. Init => TypeOK
  BY BoundsAssumption DEF Init, TypeOK, Versions, NoRef, VaultStates, ErrorCodes,
     TokenStatuses, Requests, Resting, UnlockedPcs
<1>. QED BY <1>1, ProcsAssumption DEF Init, KeptInv, LockDiscipline, LockedPcs, StagingInv,
         Staging, Staged, BoundSecretKept, Resting

\* While a connection carries a reference, the vault keeps the very row that was bound:
\* true for any number of workers, crashes and vault errors, provided no deletion runs
\* outside the row lock (the run of
\* SecretCompensation.cfg shows that the proviso is needed).
THEOREM BoundSecretIsKept ==
  ASSUME NoLateDeletion
  PROVE  Spec => []BoundSecretKept
<1>1. Init => KeptInv
  BY InitKept
<1>2. KeptInv /\ [Next]_vars => KeptInv'
  BY StepKept
<1>3. KeptInv => BoundSecretKept
  BY DEF KeptInv
<1>. QED BY <1>1, <1>2, <1>3, PTL DEF Spec
-----------------------------------------------------------------------------
(* The lifecycle implements SecretCustody, under the same proviso.         *)

Stored == {vid[v] : v \in {w \in Versions : Present(w)}}
Held == IF row.secret_ref = NoRef THEN 0 ELSE vid[row.secret_ref]

\* The keys of the vault are the numbers handed out so far, each given to one version; what
\* is staged for a commit is the newest.
NumberingInv ==
  /\ \A v \in Versions : Present(v) => vid[v] \in 1..issued
  /\ \A v, w \in Versions : Present(v) /\ Present(w) /\ vid[v] = vid[w] => v = w
  /\ \A p \in Procs : Staged(p) => req[p].id = issued

CustodyInv == KeptInv /\ NumberingInv

\* The version a request works on outside the row of the connection.
LEMMA WorksOnVersion ==
  ASSUME TypeOK, NEW p \in Procs, req[p].pc \notin {"idle", "token_write"}
  PROVE  req[p].ver \in Versions
  BY DEF TypeOK

\* What a step does to the keys in use: nothing, one more, or one less.
LEMMA StoredMoves ==
  ASSUME TypeOK, NumberingInv, StoreFindsFreeSlot, NEW p \in Procs, Acts(p)
  PROVE  \/ Stored' = Stored /\ issued' = issued
         \/ At(p, "store") /\ issued' = issued + 1 /\ Stored' = Stored \cup {issued + 1}
         \/ /\ req[p].pc \in {"drop", "health", "compensate_delete"} /\ issued' = issued
            /\ Present(req[p].ver) /\ Stored' = Stored \ {vid[req[p].ver]}
<1>1. /\ VaultMove(p) /\ issued \in Nat
      /\ vstate \in [Versions -> VaultStates] /\ vid \in [Versions -> Nat]
  BY VaultMoves DEF TypeOK
<1>2. CASE UNCHANGED vaultVars
  BY <1>2 DEF vaultVars, Stored, Present
<1>3. CASE At(p, "store") /\ StoreSecret(req[p].ver)
  <2>1. req[p].ver \in Versions
    BY <1>3, WorksOnVersion DEF At
  <2>2. /\ \A v \in Versions : Present(v)' <=> Present(v) \/ v = req[p].ver
        /\ \A v \in Versions \ {req[p].ver} : vid'[v] = vid[v]
        /\ vid'[req[p].ver] = issued + 1 /\ ~Present(req[p].ver)
    BY <1>1, <1>3, <2>1 DEF StoreSecret, Present
  <2>3. Stored' = Stored \cup {issued + 1}
    BY <2>1, <2>2 DEF Stored
  <2>. QED BY <1>3, <2>3 DEF StoreSecret
<1>4. CASE req[p].pc \in {"drop", "health", "compensate_delete"} /\ DeleteVersion(req[p].ver)
  <2>1. req[p].ver \in Versions
    BY <1>4, WorksOnVersion
  <2>2. /\ \A v \in Versions : Present(v)' <=> Present(v) /\ v # req[p].ver
        /\ vid' = vid /\ issued' = issued
    BY <1>1, <1>4, <2>1 DEF DeleteVersion, Present
  <2>3. CASE Present(req[p].ver)
    <3>1. Stored' = Stored \ {vid[req[p].ver]}
      BY <2>1, <2>2, <2>3 DEF Stored, NumberingInv
    <3>. QED BY <1>4, <2>2, <2>3, <3>1
  <2>4. CASE ~Present(req[p].ver)
    BY <2>2, <2>4 DEF Stored
  <2>. QED BY <2>3, <2>4
<1>5. CASE \/ \E v \in {req[p].ver, req[p].old} : Present(v) /\ DeactivateVersion(v)
           \/ SelectedRowExists(p) /\ UpdateToActive(req[p].ver)
  <2>1. vid' = vid /\ issued' = issued /\ \A v \in Versions : Present(v)' <=> Present(v)
    BY <1>1, <1>5 DEF DeactivateVersion, UpdateToActive, SelectedRowExists, Present
  <2>. QED BY <2>1 DEF Stored
<1>. QED BY <1>1, <1>2, <1>3, <1>4, <1>5 DEF VaultMove

\* Keys stay distinct and in order, whatever a request stores, deletes or stages.
LEMMA NumberingStep ==
  ASSUME TypeOK, LockDiscipline, StoreFindsFreeSlot, NumberingInv, NEW p \in Procs, Acts(p)
  PROVE  NumberingInv'
<1>1. /\ VaultMove(p) /\ issued \in Nat /\ req \in AllRequests
      /\ vstate \in [Versions -> VaultStates] /\ vid \in [Versions -> Nat]
  BY VaultMoves DEF TypeOK, AllRequests
<1>2. CASE At(p, "store") /\ StoreSecret(req[p].ver)
  <2>1. req[p].ver \in Versions
    BY <1>2, WorksOnVersion DEF At
  <2>2. /\ \A v \in Versions : Present(v)' <=> Present(v) \/ v = req[p].ver
        /\ \A v \in Versions \ {req[p].ver} : vid'[v] = vid[v]
        /\ vid'[req[p].ver] = issued + 1 /\ issued' = issued + 1
    BY <1>1, <1>2, <2>1 DEF StoreSecret, Present
  <2>3. \A v \in Versions : Present(v)' => vid'[v] \in 1..issued'
    BY <1>1, <2>2 DEF NumberingInv
  <2>4. \A v, w \in Versions : Present(v)' /\ Present(w)' /\ vid'[v] = vid'[w] => v = w
    <3>1. \A v \in Versions \ {req[p].ver} : Present(v)' => vid'[v] # issued + 1
      BY <1>1, <2>2 DEF NumberingInv
    <3>. QED BY <2>2, <3>1 DEF NumberingInv
  <2>5. ASSUME NEW q \in Procs, Staged(q)' PROVE req'[q].id = issued'
    <3>1. p = q
      <4>1. p # q => req'[q] = req[q]
        BY <1>1, OthersUntouched
      <4>2. p # q => Locked(q) /\ Locked(p)
        BY <1>2, <2>5, <4>1 DEF Staged, Locked, LockedPcs, At
      <4>. QED BY <4>2, OneLocked
    <3>2. req'[p].pc \in {"health", "commit"} => Store(p) \/ Healthy(p)
      BY StagingFlow
    <3>3. Store(p)
      BY <1>2, <2>5, <3>1, <3>2 DEF Staged, Healthy, At
    <3>. QED BY <1>1, <2>2, <3>1, <3>3, StoreFields
  <2>. QED BY <2>3, <2>4, <2>5 DEF NumberingInv, Present, Staged
<1>3. CASE ~At(p, "store")
  <2>1. /\ vid' = vid /\ issued' = issued
        /\ \A v \in Versions : Present(v)' => Present(v)
    BY <1>1, <1>3 DEF VaultMove, vaultVars, DeleteVersion, DeactivateVersion, UpdateToActive,
       SelectedRowExists, Present
  <2>2. ASSUME NEW q \in Procs, Staged(q)' PROVE req'[q].id = issued
    <3>1. CASE p # q
      <4>1. req'[q] = req[q]
        BY <1>1, <3>1, OthersUntouched
      <4>. QED BY <2>2, <4>1 DEF NumberingInv, Staged
    <3>2. CASE p = q
      <4>1. Healthy(p)
        BY <1>3, <2>2, <3>2, StagingFlow DEF Staged, Store
      <4>2. req'[p].id = req[p].id /\ Staged(p)
        BY <1>1, <4>1, RequestFields DEF Healthy, Staged, At
      <4>. QED BY <3>2, <4>2 DEF NumberingInv
    <3>. QED BY <3>1, <3>2
  <2>. QED BY <2>1, <2>2 DEF NumberingInv, Present, Staged
<1>4. CASE At(p, "store") /\ ~StoreSecret(req[p].ver)
  <2>1. UNCHANGED vaultVars
    BY <1>1, <1>4 DEF VaultMove, At
  <2>2. ASSUME NEW q \in Procs, Staged(q)' PROVE q # p
    BY <1>4, <2>2, StagingFlow DEF Staged, Store, Healthy, At
  <2>3. ASSUME NEW q \in Procs, Staged(q)' PROVE req'[q].id = issued
    BY <1>1, <2>2, <2>3, OthersUntouched DEF NumberingInv, Staged
  <2>. QED BY <2>1, <2>3 DEF NumberingInv, vaultVars, Present, Staged
<1>. QED BY <1>2, <1>3, <1>4

\* Every step of a request is a step of the custody, or one that it does not see.
LEMMA CustodyStep ==
  ASSUME NoLateDeletion, CustodyInv, StoreFindsFreeSlot, KeptInv', NEW p \in Procs, Acts(p)
  PROVE  [Custody!CustodyNext]_<<Held, Stored, issued>>
<1>1. /\ TypeOK /\ LockDiscipline /\ NumberingInv /\ KeptInv /\ issued \in Nat
  BY DEF CustodyInv, KeptInv, TypeOK
<1>2. Held = bound /\ Held' = bound'
  BY DEF CustodyInv, KeptInv, BoundSecretKept, Held
<1>3. RowMove(p)
  BY <1>1, RowMoves
<1>4. \/ Stored' = Stored /\ issued' = issued
      \/ At(p, "store") /\ issued' = issued + 1 /\ Stored' = Stored \cup {issued + 1}
      \/ /\ req[p].pc \in {"drop", "health", "compensate_delete"} /\ issued' = issued
         /\ Present(req[p].ver) /\ Stored' = Stored \ {vid[req[p].ver]}
  BY <1>1, StoredMoves
<1>5. CASE At(p, "commit") /\ BindRow(p)
  <2>1. Stored' = Stored /\ issued' = issued
    BY <1>4, <1>5 DEF At
  <2>2. Staged(p) /\ Staging(p) /\ req[p].ver \in Versions
    BY <1>1, <1>5, WorksOnVersion DEF Staged, Staging, At
  <2>3. /\ Present(req[p].ver) /\ vid[req[p].ver] = issued
        /\ bound' = issued /\ req[p].ver # row.secret_ref
    BY <1>1, <1>5, <2>2 DEF KeptInv, StagingInv, NumberingInv, BindRow
  <2>4. issued \in Stored
    BY <2>2, <2>3 DEF Stored
  <2>5. issued > Held
    <3>1. CASE row.secret_ref = NoRef
      <4>1. vid[req[p].ver] \in 1..issued
        BY <2>2, <2>3 DEF CustodyInv, NumberingInv
      <4>. QED BY <1>1, <2>3, <3>1, <4>1 DEF Held
    <3>2. CASE row.secret_ref # NoRef
      <4>1. /\ row.secret_ref \in Versions /\ Present(row.secret_ref)
            /\ Held = vid[row.secret_ref]
        BY <1>1, <3>2 DEF TypeOK, Versions, NoRef, KeptInv, BoundSecretKept, Held
      <4>2. Held \in 1..issued /\ Held # issued
        BY <1>1, <2>2, <2>3, <4>1 DEF NumberingInv
      <4>. QED BY <1>1, <4>2
    <3>. QED BY <3>1, <3>2
  <2>6. Custody!Adopt
    BY <1>2, <2>1, <2>3, <2>4, <2>5 DEF Custody!Adopt, Held, Stored
  <2>. QED BY <2>6 DEF Custody!CustodyNext
<1>6. CASE At(p, "clear") /\ row'.secret_ref = NoRef /\ bound' = 0
  <2>1. Stored' = Stored /\ issued' = issued
    BY <1>4, <1>6 DEF At
  <2>2. Held # Held' => Custody!GiveUp
    BY <1>2, <1>6, <2>1 DEF Custody!GiveUp, Held, Stored
  <2>. QED BY <2>1, <2>2 DEF Custody!CustodyNext
<1>7. CASE row'.secret_ref = row.secret_ref /\ bound' = bound
  <2>1. Held' = Held
    BY <1>2, <1>7
  <2>2. CASE Stored' = Stored /\ issued' = issued
    BY <2>1, <2>2
  <2>3. CASE At(p, "store") /\ issued' = issued + 1 /\ Stored' = Stored \cup {issued + 1}
    <3>1. Custody!Receive
      BY <2>1, <2>3 DEF Custody!Receive, Held, Stored
    <3>. QED BY <3>1 DEF Custody!CustodyNext
  <2>4. CASE /\ req[p].pc \in {"drop", "health", "compensate_delete"} /\ issued' = issued
             /\ Present(req[p].ver) /\ Stored' = Stored \ {vid[req[p].ver]}
    <3>1. req[p].ver \in Versions /\ req[p].pc # "compensate_delete"
      BY <1>1, <2>4, WorksOnVersion DEF KeptInv, StagingInv
    <3>2. req[p].ver # row.secret_ref
      BY <1>1, <2>4, <3>1 DEF KeptInv, StagingInv, Staging
    <3>3. vid[req[p].ver] \in Stored /\ vid[req[p].ver] # Held
      <4>1. vid[req[p].ver] \in 1..issued
        BY <1>1, <2>4, <3>1 DEF NumberingInv
      <4>2. row.secret_ref # NoRef => row.secret_ref \in Versions /\ Present(row.secret_ref)
        BY <1>1 DEF TypeOK, Versions, NoRef, KeptInv, BoundSecretKept
      <4>. QED BY <1>1, <2>4, <3>1, <3>2, <4>1, <4>2 DEF NumberingInv, Held, Stored
    <3>4. Custody!Discard
      BY <2>1, <2>4, <3>3 DEF Custody!Discard, Held, Stored
    <3>. QED BY <3>4 DEF Custody!CustodyNext
  <2>. QED BY <1>4, <2>2, <2>3, <2>4
<1>. QED BY <1>3, <1>5, <1>6, <1>7 DEF RowMove

\* Seen from outside, the requests only ever let the connection adopt the newest secret,
\* give it up, or discard one it does not hold: bind_secret, rotate_secret, disconnect and
\* the recoveries implement the custody of a secret, for any number of workers.
THEOREM CustodyIsImplemented ==
  ASSUME NoLateDeletion
  PROVE  Spec => CustodyKept
<1>1. Init => Custody!CustodyInit /\ NumberingInv /\ StoreFindsFreeSlot
  BY DEF Init, Custody!CustodyInit, NumberingInv, StoreFindsFreeSlot, Present, Staged, At,
     Resting, NoRef
<1>2. NumberingInv /\ UNCHANGED vars => NumberingInv' /\ UNCHANGED <<Held, Stored, issued>>
  BY DEF NumberingInv, Present, Staged, Held, Stored, vars
<1>3. CustodyInv /\ StoreFindsFreeSlot /\ KeptInv' /\ [Next]_vars
        => NumberingInv' /\ [Custody!CustodyNext]_<<Held, Stored, issued>>
  <2>1. ~CleanupPending
    BY DEF NoLateDeletion, CleanupPending
  <2>2. ASSUME CustodyInv, StoreFindsFreeSlot, KeptInv', NEW p \in Procs, Acts(p)
        PROVE  NumberingInv' /\ [Custody!CustodyNext]_<<Held, Stored, issued>>
    BY <2>2, NumberingStep, CustodyStep DEF CustodyInv, KeptInv
  <2>. QED BY <1>2, <2>1, <2>2 DEF Next, Acts, CustodyInv
<1>4. Spec => []KeptInv
  <2>1. Init => KeptInv
    BY InitKept
  <2>2. KeptInv /\ [Next]_vars => KeptInv'
    BY StepKept
  <2>. QED BY <2>1, <2>2, PTL DEF Spec
<1>5. Spec => []NumberingInv
  <2>1. KeptInv /\ NumberingInv /\ StoreFindsFreeSlot /\ KeptInv' /\ [Next]_vars => NumberingInv'
    BY <1>3 DEF CustodyInv
  <2>. QED BY <1>1, <1>4, <2>1, StoreAlwaysFree, PTL DEF Spec
<1>6. KeptInv /\ NumberingInv /\ StoreFindsFreeSlot /\ KeptInv' /\ [Next]_vars
        => [Custody!CustodyNext]_Custody!custodyVars
  BY <1>3 DEF CustodyInv, Custody!custodyVars, Held, Stored
<1>. QED BY <1>1, <1>4, <1>5, <1>6, StoreAlwaysFree, PTL DEF Spec, CustodyKept, Custody!CustodySpec

-----------------------------------------------------------------------------
(* The token.                                                              *)

\* A step of a request keeps a healthy token on a row that has a secret: reference and
\* status are written together, or the check constraint has seen the reference.
LEMMA TokenStep ==
  ASSUME TypeOK, HealthyTokenHasSecret, NEW p \in Procs, Acts(p)
  PROVE  HealthyTokenHasSecret'
<1>. USE DEF HealthyTokenHasSecret
<1>1. row = [secret_ref |-> row.secret_ref, error_code |-> row.error_code,
             token_status |-> row.token_status]
  BY DEF TypeOK
<1>2. CASE UNCHANGED row
  BY <1>2
<1>3. CASE Commit(p) \/ CommitUnacknowledged(p) \/ ClearRef(p)
  BY <1>3 DEF Commit, CommitUnacknowledged, ClearRef, BindRow
<1>4. CASE RecordRecovery(p) \/ DisconnectNothing(p) \/ RecoverCommit(p) \/ ConfirmInactive(p)
  BY <1>1, <1>4 DEF RecordRecovery, DisconnectNothing, RecoverCommit, ConfirmInactive
<1>5. CASE WriteToken(p)
  BY <1>1, <1>5 DEF WriteToken
<1>. QED BY <1>2, <1>3, <1>4, <1>5 DEF Acts, Step, Arrive, Fail, CheckOrphan,
  DropOrphan, Store, Healthy, Unhealthy, Compensate, CompensateDelete, Activate, ActivateUpdate,
  ActivateStale, View, Retire, RetireWrite, Revoke, Recover, RecoverUpdate, RecoverStale,
  RecoverRetire, BeginBind, BeginRotate, BeginDisconnect, BeginRecoverActivation,
  BeginRecoverRotation, Begin, ReadForToken, CommitFails, VaultFails, RecordFails, ClearFails, Crash

\* No interleaving of set_token_status with a disconnect leaves a healthy token on a row
\* without a secret, for any workers and under every fault.
THEOREM HealthyTokensHaveSecrets == Spec => []HealthyTokenHasSecret
<1>1. Init => HealthyTokenHasSecret
  BY DEF Init, HealthyTokenHasSecret
<1>2. TypeOK /\ HealthyTokenHasSecret /\ [Next]_vars => HealthyTokenHasSecret'
  <2>1. HealthyTokenHasSecret /\ (UNCHANGED vars \/ CleanupPending) => HealthyTokenHasSecret'
    BY DEF HealthyTokenHasSecret, vars, CleanupPending
  <2>. QED BY <2>1, TokenStep DEF Next, Acts
<1>. QED BY <1>1, <1>2, TypeInvariant, PTL DEF Spec

-----------------------------------------------------------------------------
(* One administrator at a time, and nothing fails but commits: no secret   *)
(* is left live without a trace.  Overlapping requests and crashes are     *)
(* outside of this argument, and so of what the code promises.             *)

OneAtATime == \E a : Procs = {a}
OnlyCommitsFail == Faults \subseteq {"commit"}

Live == {v \in Versions : vstate[v] = "active"}

Activating == {"activate", "activate_update"}
Retiring == {"view", "retire", "retire_write"}
Revoking == {"revoke", "confirm", "clear"}
Recovering == {"recover", "recover_update", "recover_retire", "recover_commit"}

\* Which versions may be live at each point of the only request, and which one it works on.
\* From the commit of a rotation to its retirement the old version may be live besides the
\* new one; at every other time only the bound version may.
LiveInv(p) ==
  /\ req[p].pc \notin Activating \cup Retiring => Live \subseteq {row.secret_ref}
  /\ req[p].pc \in Activating \cup Retiring =>
       /\ row.secret_ref = req[p].ver /\ Live \subseteq {req[p].old, req[p].ver}
       /\ req[p].op \in {"bind", "rotate"} /\ req[p].old # req[p].ver
  /\ req[p].pc \in {"confirm", "clear"} => Live = {}
  /\ req[p].pc \in {"health", "commit"} \cup Activating => vstate[req[p].ver] = "pending"
  /\ At(p, "activate_update") => vid[req[p].ver] = req[p].id
  /\ req[p].pc \in Retiring => vstate[req[p].ver] = "active"
  /\ Staging(p) => req[p].old = row.secret_ref /\ req[p].op \in {"bind", "rotate"}
  /\ Staging(p) \/ req[p].pc \in {"compensate", "compensate_delete"} =>
       req[p].ver # row.secret_ref
  /\ Staging(p) \/ req[p].pc \in Activating \cup Retiring =>
       (req[p].op = "bind" => req[p].old = NoRef)
  /\ req[p].pc \in Revoking \cup Recovering => req[p].ver = row.secret_ref
  /\ req[p].pc \in Recovering => req[p].op \in {"recover_activation", "recover_rotation"}

\* A bound secret that is not live is reported, or the request is about to change that.
ReportInv(p) ==
  /\ req[p].op \in {"none", "bind", "rotate", "disconnect", "recover_activation"}
  /\ req[p].pc \notin {"token_write", "recover_retire"}
  /\ req[p].pc \notin Activating \cup {"confirm", "clear", "record"} =>
       (row.secret_ref # NoRef => vstate[row.secret_ref] = "active" \/ row.error_code # "none")
  /\ At(p, "recover_commit") => vstate[row.secret_ref] = "active"
  /\ At(p, "record") => req[p].code # "none"

SoloInv == \A p \in Procs : LiveInv(p)
SoloReportInv == \A p \in Procs : ReportInv(p)

\* What Live becomes when one version of the vault gets a new state.
LEMMA LiveMoves ==
  ASSUME TypeOK, NEW v \in Versions, NEW s \in VaultStates, vstate' = [vstate EXCEPT ![v] = s]
  PROVE  /\ vstate'[v] = s
         /\ \A w \in Versions \ {v} : vstate'[w] = vstate[w]
         /\ Live' = IF s = "active" THEN Live \cup {v} ELSE Live \ {v}
  BY DEF TypeOK, Live, VaultStates

LEMMA Deactivated ==
  ASSUME TypeOK, NEW v, DeactivateVersion(v)
  PROVE  /\ Live' = Live \ {v}
         /\ \A w \in Versions : w # v => vstate'[w] = vstate[w]
         /\ v \in Versions => vstate'[v] = "deactivated"
  BY DEF TypeOK, DeactivateVersion, Live

\* The record of the worker, read field by field after each kind of update.
Kept(p, pc) ==
  /\ req'[p].pc = pc /\ req'[p].op = req[p].op
  /\ req'[p].ver = req[p].ver /\ req'[p].old = req[p].old

LEMMA FieldMoves ==
  ASSUME TypeOK, NEW p \in Procs
  PROVE  /\ Finish(p) => req'[p] = Resting
         /\ \A pc : Goto(p, pc) => Kept(p, pc) /\ req'[p].code = req[p].code
         /\ \A code : Record(p, code) => Kept(p, "record") /\ req'[p].code = code
         /\ \A pc, i : req' = [req EXCEPT ![p].pc = pc, ![p].id = i]
                         => Kept(p, pc) /\ req'[p].id = i
  BY DEF TypeOK, Requests, Finish, Goto, Record, Kept

LEMMA LiveStep ==
  ASSUME TypeOK, OnlyCommitsFail, NEW p \in Procs, LiveInv(p), Acts(p)
  PROVE  LiveInv(p)'
<1>. USE FieldMoves DEF At, Kept, Staging, Activating, Retiring, Revoking, Recovering, vaultVars
<1>1. row.secret_ref \in 0..MaxVersion
  BY DEF TypeOK
<1>2. vstate' = vstate => Live' = Live
  BY DEF Live
<1>3. CASE Finish(p) /\ row'.secret_ref = row.secret_ref /\ Live' \subseteq {row.secret_ref}
  BY <1>3 DEF LiveInv, Resting
<1>4. CASE BeginBind(p) \/ BeginRotate(p)
  BY <1>1, <1>2, <1>4 DEF LiveInv, BeginBind, BeginRotate, Begin, TypeOK, NoRef
<1>5. CASE BeginDisconnect(p) \/ BeginRecoverActivation(p) \/ BeginRecoverRotation(p)
  BY <1>1, <1>2, <1>5 DEF LiveInv, BeginDisconnect, BeginRecoverActivation, BeginRecoverRotation,
     Begin, TypeOK, NoRef
<1>6. CASE DisconnectNothing(p) \/ ReadForToken(p)
  BY <1>1, <1>2, <1>6 DEF LiveInv, DisconnectNothing, ReadForToken, TypeOK, NoRef
<1>7. CASE CheckOrphan(p)
  BY <1>2, <1>3, <1>7 DEF LiveInv, CheckOrphan
<1>8. CASE DropOrphan(p) \/ CompensateDelete(p) \/ Unhealthy(p)
  <2>1. req[p].ver \in Versions /\ Live' = Live \ {req[p].ver} /\ row' = row
    BY <1>8, WorksOnVersion, LiveMoves
       DEF DropOrphan, CompensateDelete, Unhealthy, DeleteVersion, VaultStates
  <2>. QED BY <1>3, <1>8, <2>1 DEF LiveInv, DropOrphan, CompensateDelete, Unhealthy
<1>9. CASE Store(p)
  <2>1. /\ req[p].ver \in Versions /\ Live' = Live \ {req[p].ver} /\ row' = row
        /\ vstate'[req[p].ver] = "pending"
    BY <1>9, WorksOnVersion, LiveMoves DEF Store, StoreSecret, VaultStates
  <2>2. req'[p].pc = "health" /\ SameWork(p) /\ req'[p].op = req[p].op
    BY <1>9, StoreFields DEF TypeOK, AllRequests, SameWork
  <2>. QED BY <1>9, <2>1, <2>2 DEF LiveInv, Store, SameWork
<1>10. CASE Healthy(p) \/ CommitFails(p) \/ Compensate(p)
  BY <1>2, <1>3, <1>10 DEF LiveInv, Healthy, CommitFails, Compensate
<1>11. CASE Commit(p)
  BY <1>2, <1>11 DEF LiveInv, Commit, BindRow
<1>12. CASE Activate(p)
  BY <1>2, <1>12 DEF LiveInv, Activate
<1>13. CASE ActivateUpdate(p)
  <2>1. /\ req[p].ver \in Versions /\ Live' = Live \cup {req[p].ver} /\ row' = row
        /\ vstate'[req[p].ver] = "active"
    BY <1>13, WorksOnVersion, LiveMoves DEF ActivateUpdate, UpdateToActive, VaultStates
  <2>. QED BY <1>13, <2>1 DEF LiveInv, ActivateUpdate
<1>14. CASE ActivateStale(p) \/ RecordFails(p) \/ Crash(p) \/ VaultFails(p)
             \/ CommitUnacknowledged(p)
  BY <1>14 DEF LiveInv, ActivateStale, SelectedRowExists, Present, RecordFails, Crash,
     VaultFails, CommitUnacknowledged, OnlyCommitsFail
<1>15. CASE View(p) \/ Retire(p)
  <2>1. /\ vstate' = vstate /\ row' = row /\ Live' = Live
        /\ req[p].pc \in Retiring
    BY <1>2, <1>15 DEF View, Retire
  <2>2. CASE Finish(p)
    <3>1. req'[p].pc = "idle"
      BY <2>2 DEF Resting
    <3>2. View(p) => req[p].op = "bind"
      BY <3>1 DEF View
    <3>3. Retire(p) => vstate[req[p].old] \in {"absent", "deactivated"}
      BY <3>1 DEF Retire
    <3>4. req[p].old \notin Live
      BY <1>15, <2>1, <3>2, <3>3 DEF LiveInv, Live, Versions, NoRef
    <3>. QED BY <1>3, <2>1, <2>2, <3>4 DEF LiveInv
  <2>. QED BY <1>15, <2>1, <2>2 DEF LiveInv, View, Retire
<1>16. CASE RetireWrite(p)
  <2>1. CASE Present(req[p].old) /\ DeactivateVersion(req[p].old) /\ Finish(p)
    <3>1. Live' = Live \ {req[p].old} /\ row' = row
      BY <1>16, <2>1, Deactivated DEF RetireWrite
    <3>. QED BY <1>3, <1>16, <2>1, <3>1 DEF LiveInv, RetireWrite
  <2>2. CASE ~Present(req[p].old) /\ Record(p, "recovery_required") /\ UNCHANGED vaultVars
    <3>1. req[p].old \notin Live /\ Live' = Live /\ row' = row
      BY <1>2, <1>16, <2>2 DEF RetireWrite, Present, Live
    <3>. QED BY <1>16, <2>2, <3>1 DEF LiveInv, RetireWrite
  <2>. QED BY <1>16, <2>1, <2>2 DEF RetireWrite
<1>17. CASE RecordRecovery(p) \/ WriteToken(p) \/ RecoverCommit(p) \/ RecoverStale(p)
  <2>1. vstate' = vstate /\ Finish(p) /\ Live \subseteq {row.secret_ref}
    BY <1>17 DEF LiveInv, RecordRecovery, WriteToken, RecoverCommit, RecoverStale
  <2>2. row'.secret_ref = row.secret_ref
    BY <1>17 DEF RecordRecovery, WriteToken, RecoverCommit, RecoverStale, TypeOK
  <2>. QED BY <1>2, <1>3, <2>1, <2>2
<1>18. CASE Revoke(p)
  <2>1. Live' = {} /\ row' = row
    BY <1>2, <1>18, Deactivated DEF LiveInv, Revoke, Present, Live
  <2>. QED BY <1>18, <2>1 DEF LiveInv, Revoke
<1>19. CASE ConfirmInactive(p) \/ ClearRef(p) \/ ClearFails(p)
  <2>1. vstate' = vstate /\ Live' = Live /\ row.secret_ref = req[p].ver
    BY <1>2, <1>19 DEF LiveInv, ConfirmInactive, ClearRef, ClearFails
  <2>2. CASE ConfirmInactive(p)
    <3>1. row'.secret_ref = row.secret_ref /\ Live = {}
      BY <1>1, <2>2 DEF LiveInv, ConfirmInactive, TypeOK
    <3>. QED BY <1>3, <2>1, <2>2, <3>1 DEF LiveInv, ConfirmInactive
  <2>3. CASE ClearRef(p) \/ ClearFails(p)
    BY <2>1, <2>3 DEF LiveInv, ClearRef, ClearFails, Resting
  <2>. QED BY <1>19, <2>2, <2>3
<1>20. CASE Recover(p)
  BY <1>2, <1>3, <1>20 DEF LiveInv, Recover, AfterActivation
<1>21. CASE RecoverUpdate(p)
  <2>1. /\ req[p].ver \in Versions /\ Live' = Live \cup {req[p].ver} /\ row' = row
    BY <1>21, WorksOnVersion, LiveMoves DEF RecoverUpdate, UpdateToActive, VaultStates
  <2>. QED BY <1>21, <2>1 DEF LiveInv, RecoverUpdate, AfterActivation
<1>22. CASE RecoverRetire(p)
  <2>1. Live' \subseteq Live /\ row' = row
    BY <1>2, <1>22, Deactivated DEF RecoverRetire
  <2>. QED BY <1>22, <2>1 DEF LiveInv, RecoverRetire
<1>. QED BY <1>4, <1>5, <1>6, <1>7, <1>8, <1>9, <1>10, <1>11, <1>12, <1>13, <1>14, <1>15, <1>16,
  <1>17, <1>18, <1>19, <1>20, <1>21, <1>22 DEF Acts, Step, Arrive, Fail

\* Neither recover_rotation nor set_token_status is asked for: both clear a recovery code
\* whatever it was there for.
CodesStay == Ops \cap {"recover_rotation", "set_token"} = {}

LEMMA ReportStep ==
  ASSUME TypeOK, OnlyCommitsFail, CodesStay, NEW p \in Procs, LiveInv(p), ReportInv(p), Acts(p)
  PROVE  ReportInv(p)'
<1>. USE FieldMoves DEF At, Kept, Staging, Activating, Retiring, Revoking, Recovering, vaultVars
<1>1. /\ row.secret_ref \in 0..MaxVersion /\ row \in [secret_ref : 0..MaxVersion,
           error_code : ErrorCodes, token_status : TokenStatuses]
      /\ vstate \in [Versions -> VaultStates]
      /\ row.secret_ref # NoRef => row.secret_ref \in Versions
  BY DEF TypeOK, Versions, NoRef
<1>. DEFINE Reported == row.secret_ref # NoRef =>
                          vstate[row.secret_ref] = "active" \/ row.error_code # "none"
<1>2. CASE /\ row' = row
           /\ row.secret_ref # NoRef => vstate'[row.secret_ref] = vstate[row.secret_ref]
           /\ Reported
           /\ req'[p].op \in {"none", req[p].op}
           /\ req'[p].pc \notin {"token_write", "recover_retire", "recover_commit", "record"}
  BY <1>2 DEF ReportInv
<1>3. CASE BeginBind(p) \/ BeginRotate(p) \/ BeginDisconnect(p) \/ BeginRecoverActivation(p)
  BY <1>3 DEF ReportInv, BeginBind, BeginRotate, BeginDisconnect, BeginRecoverActivation, Begin, TypeOK
<1>4. CASE BeginRecoverRotation(p) \/ ReadForToken(p) \/ WriteToken(p)
  BY <1>4 DEF ReportInv, BeginRecoverRotation, Begin, ReadForToken, WriteToken, CodesStay
<1>5. CASE DisconnectNothing(p)
  BY <1>1, <1>5 DEF ReportInv, DisconnectNothing
<1>6. CASE CheckOrphan(p) \/ Healthy(p) \/ CommitFails(p) \/ Compensate(p) \/ View(p) \/ Retire(p)
  <2>1. Reported /\ row' = row /\ vstate' = vstate
    BY <1>6 DEF ReportInv, CheckOrphan, Healthy, CommitFails, Compensate, View, Retire
  <2>. QED BY <1>2, <1>6, <2>1 DEF CheckOrphan, Healthy, CommitFails, Compensate, View, Retire,
                                   Resting
<1>7. CASE DropOrphan(p) \/ CompensateDelete(p) \/ Unhealthy(p) \/ Store(p)
  <2>1. Reported /\ row' = row /\ req[p].ver # row.secret_ref
    BY <1>7 DEF ReportInv, LiveInv, DropOrphan, CompensateDelete, Unhealthy, Store
  <2>2. \A v \in Versions : v # req[p].ver => vstate'[v] = vstate[v]
    BY <1>1, <1>7 DEF DropOrphan, CompensateDelete, Unhealthy, Store, DeleteVersion, StoreSecret
  <2>3. req'[p].op \in {"none", req[p].op} /\ req'[p].pc \in {"store", "idle", "health"}
    BY <1>7, StoreFields DEF DropOrphan, CompensateDelete, Unhealthy, Resting, SameWork, TypeOK,
       AllRequests
  <2>. QED BY <1>1, <1>2, <2>1, <2>2, <2>3
<1>8. CASE Commit(p) \/ Activate(p)
  BY <1>8 DEF ReportInv, LiveInv, Commit, Activate, Record
<1>9. CASE ActivateUpdate(p) \/ RecoverUpdate(p)
  <2>1. req[p].ver = row.secret_ref /\ req[p].ver \in Versions /\ row' = row
    BY <1>9, WorksOnVersion DEF LiveInv, ActivateUpdate, RecoverUpdate
  <2>2. vstate'[row.secret_ref] = "active"
    BY <1>1, <1>9, <2>1 DEF ActivateUpdate, RecoverUpdate, UpdateToActive
  <2>. QED BY <1>9, <2>1, <2>2 DEF ReportInv, ActivateUpdate, RecoverUpdate, AfterActivation
<1>10. CASE ActivateStale(p) \/ RecordFails(p) \/ Crash(p) \/ VaultFails(p)
             \/ CommitUnacknowledged(p)
  BY <1>10 DEF LiveInv, ActivateStale, SelectedRowExists, Present, RecordFails, Crash,
     VaultFails, CommitUnacknowledged, OnlyCommitsFail
<1>11. CASE RetireWrite(p)
  <2>1. /\ row' = row /\ row.secret_ref = req[p].ver /\ vstate[req[p].ver] = "active"
        /\ req[p].old # req[p].ver /\ req[p].ver \in Versions
    BY <1>11, WorksOnVersion DEF LiveInv, RetireWrite
  <2>2. vstate'[req[p].ver] = "active"
    BY <1>11, <2>1, Deactivated DEF RetireWrite
  <2>. QED BY <1>11, <2>1, <2>2 DEF ReportInv, RetireWrite, Resting
<1>12. CASE RecordRecovery(p)
  BY <1>1, <1>12 DEF ReportInv, RecordRecovery, Resting
<1>13. CASE Revoke(p)
  BY <1>13 DEF ReportInv, Revoke
<1>14. CASE ConfirmInactive(p)
  BY <1>1, <1>14 DEF ReportInv, ConfirmInactive, Resting
<1>15. CASE ClearRef(p) \/ ClearFails(p)
  BY <1>15 DEF ReportInv, ClearRef, ClearFails, Resting
<1>16. CASE Recover(p)
  BY <1>16 DEF ReportInv, LiveInv, Recover, AfterActivation, Resting
<1>17. CASE RecoverStale(p)
  BY <1>17 DEF ReportInv, RecoverStale, Resting
<1>18. CASE RecoverRetire(p)
  BY <1>18 DEF ReportInv, RecoverRetire
<1>19. CASE RecoverCommit(p)
  BY <1>1, <1>19 DEF ReportInv, RecoverCommit, Resting
<1>. QED BY <1>3, <1>4, <1>5, <1>6, <1>7, <1>8, <1>9, <1>10, <1>11, <1>12, <1>13, <1>14, <1>15,
  <1>16, <1>17, <1>18, <1>19 DEF Acts, Step, Arrive, Fail

\* The invariants of the only request hold initially and along every step.
LEMMA SoloInduction ==
  ASSUME OneAtATime, OnlyCommitsFail
  PROVE  /\ Init => SoloInv /\ SoloReportInv
         /\ TypeOK /\ SoloInv /\ [Next]_vars => SoloInv'
         /\ CodesStay /\ TypeOK /\ SoloInv /\ SoloReportInv /\ [Next]_vars => SoloReportInv'
<1>. USE DEF SoloInv, SoloReportInv
<1>1. Init => SoloInv /\ SoloReportInv
  BY DEF Init, LiveInv, ReportInv, Resting, Live, Staging, Activating, Retiring, Revoking,
     Recovering, At, NoRef
<1>2. ~CleanupPending
  BY DEF OnlyCommitsFail, CleanupPending
<1>3. UNCHANGED vars => (SoloInv => SoloInv') /\ (SoloReportInv => SoloReportInv')
  BY DEF vars, LiveInv, ReportInv, Live, Staging, At
<1>4. ASSUME TypeOK, SoloInv, NEW p \in Procs, Acts(p)
      PROVE  SoloInv' /\ (CodesStay /\ SoloReportInv => SoloReportInv')
  <2>1. \A q \in Procs : q = p
    BY DEF OneAtATime
  <2>2. LiveInv(p)' /\ (CodesStay /\ ReportInv(p) => ReportInv(p)')
    BY <1>4, LiveStep, ReportStep
  <2>. QED BY <2>1, <2>2
<1>. QED BY <1>1, <1>2, <1>3, <1>4 DEF Next, Acts

\* Whatever sequence of binds, rotations, disconnects and recoveries one administrator asks
\* for, and whichever commits fail: with nothing bound, no version of the secret is live.
THEOREM NothingLiveUntracked ==
  ASSUME OneAtATime, OnlyCommitsFail
  PROVE  Spec => []NoUntrackedActive
<1>1. TypeOK /\ SoloInv => NoUntrackedActive
  BY DEF SoloInv, LiveInv, NoUntrackedActive, AllIdle, At, Live, Activating, Retiring, OneAtATime,
     Versions, NoRef
<1>. QED BY <1>1, SoloInduction, TypeInvariant, PTL DEF Spec

\* Under the same proviso at most the bound version is live at rest, even while the row asks
\* for recovery: retirement never leaves the version it replaces behind.
THEOREM NothingDualActive ==
  ASSUME OneAtATime, OnlyCommitsFail
  PROVE  Spec => []NoDualActive
<1>1. SoloInv => NoDualActive
  BY DEF SoloInv, LiveInv, NoDualActive, AllIdle, At, Live, Activating, Retiring, OneAtATime
<1>. QED BY <1>1, SoloInduction, TypeInvariant, PTL DEF Spec

\* And a bound secret that is not live is reported by the row, as long as nobody asks for one
\* of the two operations that clear a recovery code unconditionally.
THEOREM InactiveAlwaysReported ==
  ASSUME OneAtATime, OnlyCommitsFail, CodesStay
  PROVE  Spec => []InactiveIsReported
<1>1. SoloReportInv => InactiveIsReported
  BY DEF SoloReportInv, ReportInv, InactiveIsReported, AllIdle, At, Activating, OneAtATime
<1>. QED BY <1>1, SoloInduction, TypeInvariant, PTL DEF Spec
=============================================================================
