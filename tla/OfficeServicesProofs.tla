------------------------ MODULE OfficeServicesProofs -------------------------
(***************************************************************************)
(* Proofs about the back-office services, for any workers, modules,        *)
(* documents, proposals, parties and tenants and any bounds.  Each service *)
(* has an inductive invariant of its own, about its part of the state; a   *)
(* step of another service leaves that part alone.                         *)
(*                                                                         *)
(* Work items come first.  There the row lock on the item does the work:   *)
(* from the guard of a writer to its write nobody inserts a run (the       *)
(* foreign key waits for the lock) and nobody ends the run the guard found *)
(* (its row is locked too), so what the guard concluded still holds when   *)
(* the stage is written.                                                   *)
(***************************************************************************)
EXTENDS OfficeServices, SequenceTheorems, TLAPS

\* An item that was not created has no runs and no writer; only its creator knows of it.
Unborn == item.life = "none" => runs = <<>> /\ holder = NoWorker
Creating == \A w \in Workers : req[w].pc = "create" =>
              /\ item.life = "none"
              /\ req[w].ver \in {NoVersion} \cup Versions
              /\ \A v \in Workers : req[v].pc = "create" => v = w

\* The lock on the item is held exactly by the writer between guard and write.
Holding == \A w \in Workers : req[w].pc \in {"guard", "apply"} <=> holder = w

\* What the other requests carry refers to rows that exist.
Carrying == \A w \in Workers :
              /\ req[w].pc = "start" => req[w].ver \in Versions
              /\ req[w].pc = "end" => req[w].run \in Runs
              /\ req[w].pc = "publish" => req[w].policy \in Policies
              /\ req[w].pc = "guard" => req[w].run = NoRun

\* What the guard concluded is still so.
Allowed(w) == IF req[w].run = NoRun
                THEN item.stage = req[w].stage \/ Active = {}
                ELSE /\ req[w].run \in Active
                     /\ <<item.stage, req[w].stage>> \in versions[runs[req[w].run].ver]
Applying == \A w \in Workers : req[w].pc = "apply" => Allowed(w)

IInv == TypeOK /\ Unborn /\ Creating /\ Holding /\ Carrying /\ OneActiveRun /\ Applying

-----------------------------------------------------------------------------
(* Rows.                                                                   *)

\* A run inserted while no run is active is the only active one.
LEMMA RunInserted ==
  ASSUME TypeOK, versions' = versions, Active = {},
         NEW ver \in Versions, NEW stage \in Stages, runs' = Append(runs, Run(ver, stage))
  PROVE  /\ runs' \in Seq(RunRows)
         /\ Runs \subseteq Runs'
         /\ OneActiveRun'
<1>1. runs \in Seq(RunRows) /\ Run(ver, stage) \in RunRows
  BY DEF TypeOK, Items, Requests, RunRows, Run, RunStates
<1>2. /\ runs' \in Seq(RunRows)
      /\ Len(runs') = Len(runs) + 1
      /\ \A r \in Runs : runs'[r] = runs[r]
  BY <1>1, AppendProperties DEF Runs
<1>3. Len(runs) \in Nat
  BY <1>1, LenProperties
<1>4. Active' \subseteq {Len(runs) + 1}
  BY <1>2, <1>3 DEF Active, Runs
<1>. QED BY <1>2, <1>3, <1>4 DEF OneActiveRun, Runs

\* A write to one existing run keeps the others, the number of runs and the pinned policy.
LEMMA RunUpdated ==
  ASSUME TypeOK, versions' = versions, NEW run \in Runs, NEW row \in RunRows,
         runs' = [runs EXCEPT ![run] = row]
  PROVE  /\ runs' \in Seq(RunRows)
         /\ Runs' = Runs
         /\ \A r \in Runs : runs'[r] = IF r = run THEN row ELSE runs[r]
<1>1. runs \in Seq(RunRows)
  BY DEF TypeOK, Items, Requests, RunRows
<1>. QED BY <1>1, ExceptSeq DEF Runs

\* Publishing keeps every published policy where it is.
LEMMA VersionInserted ==
  ASSUME TypeOK, NEW policy \in Policies, versions' = Append(versions, policy)
  PROVE  /\ versions' \in Seq(Policies)
         /\ Len(versions') = Len(versions) + 1
         /\ Versions \subseteq Versions'
         /\ \A v \in Versions : versions'[v] = versions[v]
<1>1. versions \in Seq(Policies) /\ Len(versions) \in Nat
  BY LenProperties DEF TypeOK, Items, RunRows, Requests
<1>. QED BY <1>1, AppendProperties DEF Versions

-----------------------------------------------------------------------------
(* The actions.                                                            *)

LEMMA InitInv == Init => IInv
<1>. SUFFICES ASSUME Init PROVE IInv
  OBVIOUS
<1>1. runs = <<>> /\ versions = <<>> /\ Len(runs) = 0 /\ Len(versions) = 0
  BY EmptySeq DEF Init
<1>2. Idle \in Requests
  BY <1>1, StagesAssumption DEF Idle, Requests, NoRun, NoVersion, RunStates, Runs
<1>3. TypeOK
  BY <1>1, <1>2, StagesAssumption, EmptySeq DEF Init, TypeOK, Items, RunRows, Requests, NoVersion
<1>4. Active = {}
  BY <1>1 DEF Active, Runs
<1>. QED BY <1>1, <1>3, <1>4, WorkersAssumption
     DEF Init, IInv, Unborn, Creating, Holding, Carrying, OneActiveRun, Applying, Idle

\* Steps that only change what a worker is doing, and take or drop the lock on the item.
LEMMA RequestSteps ==
  ASSUME IInv, NEW w \in Workers, UNCHANGED <<item, runs, config, versions>>,
         NEW new \in Requests, req' = [req EXCEPT ![w] = new],
         new.pc = "create" =>
           /\ item.life = "none" /\ new.ver \in {NoVersion} \cup Versions
           /\ \A v \in Workers : req[v].pc = "create" => v = w,
         new.pc = "start" => new.ver \in Versions,
         new.pc = "end" => new.run \in Runs,
         new.pc = "publish" => new.policy \in Policies,
         new.pc = "guard" => new.run = NoRun,
         IF new.pc \in {"guard", "apply"}
           THEN item.life # "none" /\ holder \in {w, NoWorker} /\ holder' = w
           ELSE holder' = IF holder = w THEN NoWorker ELSE holder,
         new.pc = "apply" =>
           IF new.run = NoRun
             THEN item.stage = new.stage \/ Active = {}
             ELSE /\ new.run \in Active
                  /\ <<item.stage, new.stage>> \in versions[runs[new.run].ver]
  PROVE  IInv'
<1>1. Runs' = Runs /\ Versions' = Versions /\ Active' = Active /\ Requests' = Requests
  BY DEF Runs, Versions, Active, Requests
<1>2. req \in [Workers -> Requests]
  BY DEF IInv, TypeOK, Items, RunRows, Requests
<1>3. \A v \in Workers : req'[v] = IF v = w THEN new ELSE req[v]
  BY <1>2
<1>4. TypeOK'
  <2>1. req' \in [Workers -> Requests']
    BY <1>1, <1>2
  <2>. QED BY <1>1, <2>1 DEF IInv, TypeOK, Items, RunRows, Requests, Holding
<1>5. Unborn' /\ OneActiveRun'
  BY <1>1, WorkersAssumption DEF IInv, Unborn, OneActiveRun
<1>6. Creating' /\ Carrying'
  BY <1>1, <1>3 DEF IInv, Creating, Carrying
<1>7. Holding'
  BY <1>3, WorkersAssumption DEF IInv, Holding
<1>8. Applying'
  BY <1>1, <1>3 DEF IInv, Applying, Allowed
<1>. QED BY <1>4, <1>5, <1>6, <1>7, <1>8 DEF IInv

\* The type invariant, taken apart.
LEMMA Typing ==
  ASSUME TypeOK
  PROVE  /\ runs \in Seq(RunRows) /\ Len(runs) \in Nat
         /\ versions \in Seq(Policies) /\ Len(versions) \in Nat
         /\ req \in [Workers -> Requests]
         /\ Idle \in Requests
         /\ {NoVersion, Len(versions) + 1} \cup Versions \subseteq 0..Len(versions) + 1
         /\ config.active \in {NoVersion} \cup Versions
         /\ config.activation = "active" => config.active \in Versions
         /\ item.stage \in Stages
<1>1. runs \in Seq(RunRows) /\ versions \in Seq(Policies) /\ req \in [Workers -> Requests]
  BY DEF TypeOK, Items, RunRows, Requests
<1>2. Len(runs) \in Nat /\ Len(versions) \in Nat
  BY <1>1, LenProperties
<1>3. {NoVersion, Len(versions) + 1} \cup Versions \subseteq 0..Len(versions) + 1
  BY <1>2 DEF Versions, NoVersion
<1>4. Idle \in Requests
  BY <1>2, StagesAssumption DEF Idle, Requests, NoRun, NoVersion, RunStates
<1>5. /\ config.active \in {NoVersion} \cup Versions
      /\ config.activation = "active" => config.active \in Versions
      /\ item.stage \in Stages
  BY DEF TypeOK, Items, RunRows, Requests
<1>. QED BY <1>1, <1>2, <1>3, <1>4, <1>5

\* What a worker does before it writes, and the end of requests that write nothing.
LEMMA ReadingSteps ==
  ASSUME IInv, NEW w \in Workers,
         \/ Arrive(w) \/ GuardAllows(w) \/ GuardDenies(w) \/ Abort(w)
  PROVE  IInv'
<1>. DEFINE Q == req[w]
<1>. USE DEF Become, Finish, overlayVars, NoRun, NoVersion
<1>0. TypeOK
  BY DEF IInv
<1>1. Q \in Requests /\ Idle \in Requests
  BY <1>0, Typing
<1>2. Q.pc \notin {"guard", "apply"} => holder # w
  BY DEF IInv, Holding
<1>3. CASE BeginCreate(w)
  <2>1. PICK stage \in Stages :
          req' = [req EXCEPT ![w] =
                    [Idle EXCEPT !.pc = "create", !.stage = stage,
                                 !.ver = IF config.activation = "active" THEN config.active ELSE 0]]
    BY <1>3 DEF BeginCreate
  <2>. DEFINE new == [Idle EXCEPT !.pc = "create", !.stage = stage,
                        !.ver = IF config.activation = "active" THEN config.active ELSE 0]
  <2>2. new \in Requests /\ new.pc = "create" /\ new.ver \in {NoVersion} \cup Versions
    BY <1>0, <1>1, Typing DEF Requests, Idle
  <2>. QED BY <1>2, <1>3, <2>1, <2>2, RequestSteps DEF BeginCreate
<1>4. CASE ReadStart(w)
  <2>. DEFINE new == [Idle EXCEPT !.pc = "start", !.stage = item.stage, !.ver = config.active]
  <2>1. new \in Requests /\ new.pc = "start" /\ new.ver \in Versions
    BY <1>0, <1>1, <1>4, Typing DEF ReadStart, Requests, Idle
  <2>. QED BY <1>2, <1>4, <2>1, RequestSteps DEF ReadStart
<1>5. CASE ReadRunToEnd(w)
  <2>1. PICK r \in Active, end \in Ends :
          req' = [req EXCEPT ![w] = [Idle EXCEPT !.pc = "end", !.run = r, !.end = end]]
    BY <1>5 DEF ReadRunToEnd
  <2>. DEFINE new == [Idle EXCEPT !.pc = "end", !.run = r, !.end = end]
  <2>2. new \in Requests /\ new.pc = "end" /\ new.run \in Runs
    BY <1>1, EndsAssumption DEF Requests, Idle, Active, RunStates
  <2>. QED BY <1>2, <1>5, <2>1, <2>2, RequestSteps DEF ReadRunToEnd
<1>6. CASE BeginPublish(w)
  <2>1. PICK policy \in Policies :
          req' = [req EXCEPT ![w] = [Idle EXCEPT !.pc = "publish", !.policy = policy,
                                                 !.ver = Len(versions) + 1]]
    BY <1>6 DEF BeginPublish
  <2>. DEFINE new == [Idle EXCEPT !.pc = "publish", !.policy = policy,
                                  !.ver = Len(versions) + 1]
  <2>2. new \in Requests /\ new.pc = "publish" /\ new.policy \in Policies
    BY <1>0, <1>1, Typing DEF Requests, Idle
  <2>. QED BY <1>2, <1>6, <2>1, <2>2, RequestSteps DEF BeginPublish
<1>7. CASE MoveStage(w) \/ CloseWorkItem(w) \/ ReopenWorkItem(w)
  <2>1. PICK stage \in Stages : Move(w, stage)
    BY <1>7, StagesAssumption DEF MoveStage, CloseWorkItem, ReopenWorkItem
  <2>. DEFINE new == [Idle EXCEPT !.pc = "guard", !.stage = stage]
  <2>2. new \in Requests /\ new.pc = "guard" /\ new.run = NoRun
    BY <1>1 DEF Requests, Idle
  <2>. QED BY <2>1, <2>2, RequestSteps DEF Move
<1>8. CASE GuardAllows(w)
  <2>1. holder = w /\ item.life # "none" /\ Q.run = NoRun
    BY <1>8, WorkersAssumption DEF GuardAllows, IInv, Holding, Unborn, Carrying
  <2>2. CASE (item.stage = Q.stage \/ Active = {}) /\ Become(w, [Q EXCEPT !.pc = "apply"])
    <3>. DEFINE new == [Q EXCEPT !.pc = "apply"]
    <3>1. new \in Requests /\ new.pc = "apply" /\ new.stage = Q.stage /\ new.run = Q.run
      BY <1>1 DEF Requests
    <3>. QED BY <1>8, <2>1, <2>2, <3>1, RequestSteps DEF GuardAllows
  <2>3. CASE \E r \in Active : /\ <<item.stage, Q.stage>> \in versions[runs[r].ver]
                               /\ Become(w, [Q EXCEPT !.pc = "apply", !.run = r])
    <3>1. PICK r \in Active : /\ <<item.stage, Q.stage>> \in versions[runs[r].ver]
                              /\ Become(w, [Q EXCEPT !.pc = "apply", !.run = r])
      BY <2>3
    <3>. DEFINE new == [Q EXCEPT !.pc = "apply", !.run = r]
    <3>2. r \in Runs /\ r # 0
      BY <1>0, Typing DEF Active, Runs
    <3>3. /\ new \in Requests /\ new.pc = "apply" /\ new.stage = Q.stage
          /\ new.run = r
      BY <1>1, <3>2 DEF Requests
    <3>. QED BY <1>8, <2>1, <3>1, <3>2, <3>3, RequestSteps DEF GuardAllows
  <2>. QED BY <1>8, <2>2, <2>3 DEF GuardAllows
<1>9. CASE GuardDenies(w) \/ Abort(w)
  <2>1. Idle.pc = "idle" /\ req' = [req EXCEPT ![w] = Idle]
    BY <1>9 DEF GuardDenies, Abort, Idle
  <2>2. holder' = IF holder = w THEN NoWorker ELSE holder
    BY <1>9 DEF GuardDenies, Abort, IInv, Holding
  <2>3. UNCHANGED <<item, runs, config, versions>>
    BY <1>9 DEF GuardDenies, Abort
  <2>. QED BY <1>1, <2>1, <2>2, <2>3, RequestSteps
<1>. QED BY <1>3, <1>4, <1>5, <1>6, <1>7, <1>8, <1>9 DEF Arrive

\* A run is inserted: with the item, or for an item that nobody holds.
LEMMA InsertSteps ==
  ASSUME IInv, NEW w \in Workers, CommitCreate(w) \/ InsertRun(w)
  PROVE  IInv'
<1>. USE DEF Finish, Become, overlayVars
<1>0. TypeOK
  BY DEF IInv
<1>1. /\ holder = NoWorker /\ holder' = NoWorker
      /\ req' = [req EXCEPT ![w] = Idle]
      /\ config' = config /\ versions' = versions
  BY DEF CommitCreate, InsertRun, IInv, Creating, Unborn
<1>2. \/ runs' = runs
      \/ /\ Active = {}
         /\ \E ver \in Versions, stage \in Stages : runs' = Append(runs, Run(ver, stage))
  <2>1. CASE CommitCreate(w)
    <3>1. runs = <<>> /\ req[w].ver \in {NoVersion} \cup Versions
      BY <2>1 DEF CommitCreate, IInv, Creating, Unborn
    <3>2. Active = {}
      BY <3>1, EmptySeq DEF Active, Runs
    <3>3. req[w].stage \in Stages
      BY <1>0, Typing DEF Requests
    <3>. QED BY <2>1, <3>1, <3>2, <3>3 DEF CommitCreate
  <2>2. CASE InsertRun(w)
    <3>1. req[w].ver \in Versions /\ req[w].stage \in Stages
      BY <1>0, <2>2, Typing DEF InsertRun, IInv, Carrying, Requests
    <3>. QED BY <2>2, <3>1 DEF InsertRun
  <2>. QED BY <2>1, <2>2
<1>3. runs' \in Seq(RunRows) /\ Runs \subseteq Runs' /\ OneActiveRun'
  <2>1. CASE runs' = runs
    BY <1>0, <1>1, <2>1, Typing DEF IInv, OneActiveRun, Active, Runs
  <2>. QED BY <1>0, <1>1, <1>2, <2>1, RunInserted
<1>4. \A v \in Workers : req'[v] = IF v = w THEN Idle ELSE req[v]
  BY <1>0, <1>1, Typing
<1>5. \A v \in Workers : req[v].pc \notin {"guard", "apply"}
  BY <1>1, WorkersAssumption DEF IInv, Holding
<1>6. Idle.pc = "idle"
  BY DEF Idle
<1>7. \A v \in Workers : v # w => req'[v].pc # "create" \/ item'.life = "none"
  BY <1>4 DEF CommitCreate, InsertRun, IInv, Creating
<1>8. item' \in [life : {"none", "live", "deleted"}, stage : Stages]
  <2>1. req[w].stage \in Stages
    BY <1>0, Typing DEF Requests
  <2>. QED BY <2>1 DEF IInv, TypeOK, Items, RunRows, Requests, CommitCreate, InsertRun
<1>9. TypeOK'
  <2>1. Versions' = Versions /\ RunRows' = RunRows /\ Requests \subseteq Requests'
    BY <1>1, <1>3 DEF Versions, RunRows, Requests
  <2>2. req' \in [Workers -> Requests']
    BY <1>0, <1>1, <2>1, Typing
  <2>3. runs' \in Seq(RunRows')
    BY <1>3, <2>1
  <2>. QED BY <1>1, <1>8, <2>1, <2>2, <2>3 DEF IInv, TypeOK, Items, RunRows, Requests
<1>10. Unborn'
  <2>1. CASE CommitCreate(w)
    BY <2>1 DEF CommitCreate, Unborn
  <2>2. CASE InsertRun(w)
    BY <1>1, <2>2 DEF InsertRun, Unborn, IInv
  <2>. QED BY <2>1, <2>2
<1>11. Creating'
  BY <1>1, <1>4, <1>6, <1>7 DEF IInv, Creating, Versions
<1>12. Holding' /\ Applying'
  BY <1>1, <1>4, <1>5, <1>6, WorkersAssumption DEF Holding, Applying
<1>13. Carrying'
  BY <1>1, <1>3, <1>4, <1>6 DEF IInv, Carrying, Versions
<1>. QED BY <1>3, <1>9, <1>10, <1>11, <1>12, <1>13 DEF IInv

\* A run ends.  It is not the run that a writer has locked.
LEMMA EndSteps ==
  ASSUME IInv, NEW w \in Workers, EndRun(w)
  PROVE  IInv'
<1>. DEFINE run == req[w].run
            row == [runs[run] EXCEPT !.state = req[w].end]
<1>. USE DEF Finish, Become, overlayVars
<1>0. TypeOK
  BY DEF IInv
<1>1. /\ run \in Runs /\ run \notin LockedRuns
      /\ runs' = [runs EXCEPT ![run] = row]
      /\ req' = [req EXCEPT ![w] = Idle]
      /\ UNCHANGED <<item, holder, config, versions>>
      /\ req[w].pc = "end"
  BY DEF EndRun, IInv, Carrying
<1>2. row \in RunRows /\ row.state # "active" /\ row.ver = runs[run].ver
  <2>1. runs[run] \in RunRows
    BY <1>0, <1>1, Typing, ElementOfSeq DEF Runs
  <2>2. req[w].end \in RunStates \ {"active"}
    BY <1>0, Typing DEF Requests
  <2>. QED BY <2>1, <2>2 DEF RunRows
<1>3. /\ runs' \in Seq(RunRows) /\ Runs' = Runs
      /\ \A r \in Runs : runs'[r] = IF r = run THEN row ELSE runs[r]
  <2>. HIDE DEF run, row
  <2>. QED BY <1>0, <1>1, <1>2, RunUpdated
<1>4. Active' = Active \ {run}
  BY <1>2, <1>3 DEF Active
<1>5. \A v \in Workers : req'[v] = IF v = w THEN Idle ELSE req[v]
  BY <1>0, <1>1, Typing
<1>6. Idle.pc = "idle" /\ Versions' = Versions /\ Requests' = Requests /\ RunRows' = RunRows
  BY <1>1, <1>3 DEF Idle, Versions, Requests, RunRows
<1>7. TypeOK'
  <2>1. req' \in [Workers -> Requests'] /\ runs' \in Seq(RunRows')
    BY <1>0, <1>1, <1>3, <1>6, Typing
  <2>. QED BY <1>0, <1>1, <1>6, <2>1 DEF TypeOK, Items, RunRows, Requests
<1>8. Unborn'
  <2>1. runs # <<>>
    BY <1>1, EmptySeq DEF Runs
  <2>. QED BY <1>1, <2>1 DEF IInv, Unborn
<1>9. Creating' /\ Holding' /\ Carrying'
  BY <1>1, <1>3, <1>5, <1>6 DEF IInv, Creating, Holding, Carrying
<1>10. OneActiveRun'
  BY <1>4 DEF IInv, OneActiveRun
<1>11. Applying'
  <2>. SUFFICES ASSUME NEW v \in Workers, req'[v].pc = "apply" PROVE Allowed(v)'
    BY DEF Applying
  <2>1. v # w /\ req'[v] = req[v] /\ Allowed(v)
    BY <1>5, <1>6 DEF IInv, Applying
  <2>2. req[v].run # run
    BY <1>1, <2>1 DEF LockedRuns
  <2>3. \A r \in Active : r \in Runs
    BY DEF Active
  <2>. QED BY <1>1, <1>3, <1>4, <2>1, <2>2, <2>3 DEF Allowed
<1>. QED BY <1>7, <1>8, <1>9, <1>10, <1>11 DEF IInv

\* What ApplyStage does to the runs.
LEMMA StageWritten ==
  ASSUME IInv, NEW w \in Workers, ApplyStage(w)
  PROVE  /\ runs' \in Seq(RunRows) /\ Runs' = Runs
         /\ \A r \in Runs :
              /\ runs'[r].state = runs[r].state
              /\ runs'[r].ver = runs[r].ver
              /\ runs'[r].stage = IF r = req[w].run THEN req[w].stage ELSE runs[r].stage
<1>. DEFINE run == req[w].run
            row == [runs[run] EXCEPT !.stage = req[w].stage]
<1>0. TypeOK /\ Allowed(w) /\ versions' = versions
  BY DEF IInv, Applying, ApplyStage, overlayVars
<1>1. Len(runs) \in Nat /\ runs \in Seq(RunRows)
  BY <1>0, Typing
<1>2. CASE run = NoRun
  <2>1. runs' = runs
    BY <1>2 DEF ApplyStage
  <2>. QED BY <1>1, <1>2, <2>1 DEF Runs, NoRun
<1>3. CASE run # NoRun
  <2>1. run \in Runs /\ runs' = [runs EXCEPT ![run] = row]
    BY <1>0, <1>3 DEF ApplyStage, Allowed, Active
  <2>2. runs[run] \in RunRows /\ req[w].stage \in Stages
    BY <1>0, <1>1, <2>1, Typing, ElementOfSeq DEF Runs, Requests
  <2>3. /\ row \in RunRows /\ row.state = runs[run].state /\ row.ver = runs[run].ver
        /\ row.stage = req[w].stage
    BY <2>2 DEF RunRows
  <2>4. /\ runs' \in Seq(RunRows) /\ Runs' = Runs
        /\ \A r \in Runs : runs'[r] = IF r = run THEN row ELSE runs[r]
    <3>. HIDE DEF run, row
    <3>. QED BY <1>0, <2>1, <2>3, RunUpdated
  <2>. QED BY <2>3, <2>4
<1>. QED BY <1>2, <1>3

\* A writer writes the stage and gives the lock back.
LEMMA ApplySteps ==
  ASSUME IInv, NEW w \in Workers, ApplyStage(w)
  PROVE  IInv'
<1>. USE DEF Finish, Become, overlayVars
<1>0. TypeOK
  BY DEF IInv
<1>1. /\ holder = w /\ holder' = NoWorker
      /\ req' = [req EXCEPT ![w] = Idle]
      /\ item' = [item EXCEPT !.stage = req[w].stage]
      /\ UNCHANGED <<config, versions>>
  BY DEF ApplyStage, IInv, Holding
<1>2. /\ runs' \in Seq(RunRows) /\ Runs' = Runs
      /\ \A r \in Runs : runs'[r].state = runs[r].state
  BY StageWritten
<1>3. Active' = Active
  BY <1>2 DEF Active
<1>4. \A v \in Workers : req'[v] = IF v = w THEN Idle ELSE req[v]
  BY <1>0, <1>1, Typing
<1>5. Idle.pc = "idle" /\ Versions' = Versions /\ Requests' = Requests /\ RunRows' = RunRows
  BY <1>1, <1>2 DEF Idle, Versions, Requests, RunRows
<1>6. /\ item \in [life : {"none", "live", "deleted"}, stage : Stages]
      /\ item.life # "none" /\ item'.life = item.life
  BY <1>1, WorkersAssumption DEF IInv, TypeOK, Items, RunRows, Requests, Unborn
<1>7. TypeOK'
  <2>1. req[w].stage \in Stages
    BY <1>0, Typing DEF Requests
  <2>2. item' \in [life : {"none", "live", "deleted"}, stage : Stages]
    BY <1>1, <1>6, <2>1
  <2>3. req' \in [Workers -> Requests'] /\ runs' \in Seq(RunRows')
    BY <1>0, <1>1, <1>2, <1>5, Typing
  <2>. QED BY <1>0, <1>1, <1>5, <2>2, <2>3 DEF TypeOK, Items, RunRows, Requests
<1>8. Unborn' /\ OneActiveRun'
  BY <1>3, <1>6 DEF IInv, Unborn, OneActiveRun
<1>9. Creating' /\ Carrying'
  BY <1>2, <1>4, <1>5, <1>6 DEF IInv, Creating, Carrying
<1>10. Holding' /\ Applying'
  BY <1>1, <1>4, <1>5, WorkersAssumption DEF IInv, Holding, Applying
<1>. QED BY <1>7, <1>8, <1>9, <1>10 DEF IInv

\* A version is published: what refers to older ones is not touched.
LEMMA PublishSteps ==
  ASSUME IInv, NEW w \in Workers, InsertVersion(w)
  PROVE  IInv'
<1>. USE DEF Finish, Become, overlayVars
<1>0. TypeOK
  BY DEF IInv
<1>1. /\ req' = [req EXCEPT ![w] = Idle]
      /\ UNCHANGED <<item, holder, runs, config>>
      /\ Runs' = Runs /\ Active' = Active
      /\ Idle.pc = "idle" /\ req[w].pc = "publish"
  BY DEF InsertVersion, Runs, Active, Idle
<1>2. CASE versions' = versions
  <2>1. Idle \in Requests /\ (holder = w => FALSE)
    BY <1>0, <1>1, Typing DEF IInv, Holding
  <2>. QED BY <1>1, <1>2, <2>1, RequestSteps
<1>3. CASE versions' = Append(versions, req[w].policy)
  <2>1. /\ versions' \in Seq(Policies) /\ Len(versions') = Len(versions) + 1
        /\ Versions \subseteq Versions'
        /\ \A v \in Versions : versions'[v] = versions[v]
    BY <1>0, <1>1, <1>3, VersionInserted DEF IInv, Carrying
  <2>2. Requests \subseteq Requests' /\ RunRows \subseteq RunRows'
    BY <1>0, <1>1, <2>1, Typing DEF Requests, RunRows
  <2>3. req' \in [Workers -> Requests'] /\ runs' \in Seq(RunRows')
    BY <1>0, <1>1, <2>2, Typing, SeqMonotonic
  <2>4. TypeOK'
    BY <1>0, <1>1, <2>1, <2>3 DEF TypeOK, Items, Requests, RunRows
  <2>5. \A v \in Workers : req'[v] = IF v = w THEN Idle ELSE req[v]
    BY <1>0, <1>1, Typing
  <2>6. Unborn' /\ OneActiveRun'
    BY <1>1 DEF IInv, Unborn, OneActiveRun
  <2>7. Creating' /\ Carrying' /\ Holding'
    BY <1>1, <2>1, <2>5 DEF IInv, Creating, Carrying, Holding
  <2>8. ASSUME NEW r \in Active PROVE runs[r].ver \in Versions
    <3>1. runs \in Seq(RunRows) /\ r \in 1..Len(runs)
      BY <1>0, Typing DEF Active, Runs
    <3>2. runs[r] \in RunRows
      BY <3>1, ElementOfSeq
    <3>. QED BY <3>2 DEF RunRows
  <2>9. Applying'
    BY <1>1, <2>1, <2>5, <2>8, SMTT(30) DEF IInv, Applying, Allowed
  <2>. QED BY <2>4, <2>6, <2>7, <2>9 DEF IInv
<1>. QED BY <1>2, <1>3 DEF InsertVersion

\* The steps of the administrator, and the deletion of the item.
LEMMA OtherSteps ==
  ASSUME IInv, \/ DeleteWorkItem \/ SetActiveDefinitionVersion
               \/ ActivateConfiguration \/ DeactivateConfiguration
  PROVE  IInv'
<1>0. TypeOK
  BY DEF IInv
<1>1. UNCHANGED <<holder, runs, versions, req>>
  BY DEF DeleteWorkItem,
     SetActiveDefinitionVersion, ActivateConfiguration, DeactivateConfiguration, overlayVars
<1>2. Runs' = Runs /\ Versions' = Versions /\ Active' = Active
  BY <1>1 DEF Runs, Versions, Active
<1>3. TypeOK'
  <2>1. CASE DeleteWorkItem
    BY <1>0, <1>1, <1>2, <2>1 DEF TypeOK, Items, RunRows, Requests, DeleteWorkItem, overlayVars
  <2>2. CASE SetActiveDefinitionVersion \/ ActivateConfiguration \/ DeactivateConfiguration
    <3>1. /\ config' \in [activation : {"inactive", "active"},
                          active : {NoVersion} \cup Versions]
          /\ config'.activation = "active" => config'.active # NoVersion
          /\ item' = item
      BY <1>0, <2>2, Typing
         DEF TypeOK, Items, RunRows, Requests, SetActiveDefinitionVersion, ActivateConfiguration,
             DeactivateConfiguration, NoVersion, Versions
    <3>. QED BY <1>0, <1>1, <1>2, <3>1 DEF TypeOK, Items, RunRows, Requests
  <2>. QED BY <2>1, <2>2
<1>4. \/ item' = item
      \/ item.life = "live" /\ item'.life = "deleted" /\ item'.stage = item.stage
  BY <1>0 DEF TypeOK, Items, RunRows, Requests, DeleteWorkItem, SetActiveDefinitionVersion, ActivateConfiguration,
         DeactivateConfiguration
<1>5. Unborn' /\ Creating' /\ Holding' /\ Carrying' /\ OneActiveRun'
  BY <1>1, <1>2, <1>4 DEF IInv, Unborn, Creating, Holding, Carrying, OneActiveRun
<1>6. Applying'
  BY <1>1, <1>2, <1>4 DEF IInv, Applying, Allowed
<1>. QED BY <1>3, <1>5, <1>6 DEF IInv

LEMMA StepInv == IInv /\ [Next]_vars => IInv'
<1>. SUFFICES ASSUME IInv, [Next]_vars PROVE IInv'
  OBVIOUS
<1>1. CASE UNCHANGED vars
  <2>1. UNCHANGED <<item, holder, runs, config, versions, req>>
    BY <1>1 DEF vars
  <2>2. Runs' = Runs /\ Versions' = Versions /\ Active' = Active
    BY <2>1 DEF Runs, Versions, Active
  <2>3. TypeOK'
    BY <2>1, <2>2 DEF IInv, TypeOK, Items, RunRows, Requests
  <2>4. Unborn' /\ Creating' /\ Holding' /\ Carrying' /\ OneActiveRun'
    BY <2>1, <2>2 DEF IInv, Unborn, Creating, Holding, Carrying, OneActiveRun
  <2>5. Applying'
    BY <2>1, <2>2 DEF IInv, Applying, Allowed
  <2>. QED BY <2>3, <2>4, <2>5 DEF IInv
<1>2. CASE Next
  BY <1>2, ReadingSteps, InsertSteps, EndSteps, ApplySteps, PublishSteps, OtherSteps
     DEF Next, Step
<1>. QED BY <1>1, <1>2

-----------------------------------------------------------------------------
(* The theorems.                                                           *)

\* IInv holds in every reachable state.
LEMMA Invariance == Spec => []IInv
<1>1. Init => IInv
  BY InitInv
<1>2. IInv /\ [Next]_vars => IInv'
  BY StepInv
<1>. QED BY <1>1, <1>2, PTL DEF Spec

\* Every variable keeps its type: in particular a run is pinned to, and the configuration
\* points to, a version that was published, and an active configuration has a version.
THEOREM TypeInvariant == Spec => []TypeOK
<1>1. IInv => TypeOK
  BY DEF IInv
<1>. QED BY <1>1, Invariance, PTL

\* start_run and the automatic start of a creation never leave an item two active runs.
THEOREM OneActiveRunAlways == Spec => []OneActiveRun
<1>1. IInv => OneActiveRun
  BY DEF IInv
<1>. QED BY <1>1, Invariance, PTL

\* Only the creation of an item and ApplyStage change its stage.
LEMMA StageChanges ==
  ASSUME IInv, [Next]_vars, item'.stage # item.stage
  PROVE  \E w \in Workers : CommitCreate(w) \/ ApplyStage(w)
<1>1. CASE UNCHANGED item
  BY <1>1
<1>2. CASE DeleteWorkItem
  BY <1>2 DEF DeleteWorkItem, IInv, TypeOK, Items, RunRows, Requests
<1>. QED BY <1>1, <1>2
     DEF Next, vars, Arrive, Step, BeginCreate, ReadStart, ReadRunToEnd, BeginPublish,
         MoveStage, CloseWorkItem, ReopenWorkItem, Move, InsertRun, EndRun, GuardAllows,
         GuardDenies, InsertVersion, Abort, SetActiveDefinitionVersion,
         ActivateConfiguration, DeactivateConfiguration

\* assert_transition_allowed is still right when the stage is written: a stage change of
\* an item with an active run is an edge of the policy version pinned by that run.
THEOREM PolicyIsHonoured == Spec => PolicyHonoured
<1>1. IInv /\ [Next]_vars =>
        [\A r \in Active : item'.stage # item.stage =>
           <<item.stage, item'.stage>> \in versions[runs[r].ver]]_vars
  <2>. SUFFICES ASSUME IInv, [Next]_vars, NEW r \in Active, item'.stage # item.stage
                PROVE  <<item.stage, item'.stage>> \in versions[runs[r].ver]
    OBVIOUS
  <2>1. PICK w \in Workers : CommitCreate(w) \/ ApplyStage(w)
    BY StageChanges
  <2>2. ~ CommitCreate(w)
    BY EmptySeq DEF CommitCreate, IInv, Creating, Unborn, Active, Runs
  <2>3. item'.stage = req[w].stage /\ Allowed(w)
    BY <2>1, <2>2 DEF ApplyStage, IInv, Applying, TypeOK, Items, RunRows, Requests
  <2>4. r = req[w].run
    BY <2>3 DEF Allowed, IInv, OneActiveRun
  <2>5. req[w].run # NoRun
    BY <2>3 DEF Allowed
  <2>. QED BY <2>3, <2>4, <2>5 DEF Allowed
<1>. QED BY <1>1, Invariance, PTL DEF Spec, PolicyHonoured

\* A run leaves the record of its stage only in ApplyStage, and a run is never removed.
LEMMA RunStages ==
  ASSUME IInv, [Next]_vars, NEW r \in Runs, \A w \in Workers : ~ ApplyStage(w)
  PROVE  runs'[r].stage = runs[r].stage
<1>0. TypeOK /\ runs \in Seq(RunRows) /\ Len(runs) \in Nat
  BY Typing DEF IInv
<1>1. CASE UNCHANGED runs
  BY <1>1
<1>2. ASSUME NEW w \in Workers, CommitCreate(w) PROVE runs'[r].stage = runs[r].stage
  BY <1>2, EmptySeq DEF CommitCreate, IInv, Creating, Unborn, Runs
<1>3. ASSUME NEW w \in Workers, InsertRun(w) PROVE runs'[r].stage = runs[r].stage
  <2>1. Run(req[w].ver, req[w].stage) \in RunRows
    BY <1>0, <1>3, Typing DEF InsertRun, IInv, Carrying, Requests, Run, RunRows, RunStates
  <2>. QED BY <1>0, <1>3, <2>1, AppendProperties DEF InsertRun, Runs
<1>4. ASSUME NEW w \in Workers, EndRun(w) PROVE runs'[r].stage = runs[r].stage
  <2>1. runs[r] \in RunRows /\ r \in DOMAIN runs
    BY <1>0, ElementOfSeq, LenProperties DEF Runs
  <2>. QED BY <1>4, <2>1 DEF EndRun, RunRows
<1>. QED BY <1>1, <1>2, <1>3, <1>4
     DEF Next, vars, Arrive, Step, BeginCreate, ReadStart, ReadRunToEnd, BeginPublish,
         MoveStage, CloseWorkItem, ReopenWorkItem, Move, GuardAllows, GuardDenies,
         InsertVersion, Abort, SetActiveDefinitionVersion, ActivateConfiguration,
         DeactivateConfiguration, DeleteWorkItem

\* record_applied_transition is never skipped: a run in step with its item stays in step.
THEOREM StageSyncIsKept == Spec => StageSyncKept
<1>1. IInv /\ [Next]_vars =>
        [\A r \in Runs : InSync(r) /\ runs'[r].state = "active" =>
           runs'[r].stage = item'.stage]_vars
  <2>. SUFFICES ASSUME IInv, [Next]_vars, NEW r \in Runs, InSync(r)
                PROVE  runs'[r].stage = item'.stage
    OBVIOUS
  <2>1. r \in Active /\ runs[r].stage = item.stage
    BY DEF InSync, Active
  <2>2. CASE \E w \in Workers : ApplyStage(w)
    <3>1. PICK w \in Workers : ApplyStage(w)
      BY <2>2
    <3>2. item'.stage = req[w].stage /\ Allowed(w)
      BY <3>1 DEF ApplyStage, IInv, Applying, TypeOK, Items, RunRows, Requests
    <3>3. runs'[r].stage = IF r = req[w].run THEN req[w].stage ELSE runs[r].stage
      BY <3>1, StageWritten
    <3>4. CASE req[w].run = NoRun
      <4>1. item.stage = req[w].stage
        BY <2>1, <3>2, <3>4 DEF Allowed
      <4>. QED BY <2>1, <3>2, <3>3, <4>1
    <3>5. CASE req[w].run # NoRun
      <4>1. r = req[w].run
        BY <2>1, <3>2, <3>5 DEF Allowed, IInv, OneActiveRun
      <4>. QED BY <3>2, <3>3, <4>1
    <3>. QED BY <3>4, <3>5
  <2>3. CASE \A w \in Workers : ~ ApplyStage(w)
    <3>1. runs'[r].stage = runs[r].stage
      BY <2>3, RunStages
    <3>2. \A w \in Workers : ~ CommitCreate(w)
      BY EmptySeq DEF CommitCreate, IInv, Creating, Unborn, Runs
    <3>3. item'.stage = item.stage
      BY <2>3, <3>2, StageChanges
    <3>. QED BY <2>1, <3>1, <3>3
  <2>. QED BY <2>2, <2>3
<1>. QED BY <1>1, Invariance, PTL DEF Spec, StageSyncKept

-----------------------------------------------------------------------------
(* Document signing.  A request that nobody has overtaken still has in     *)
(* mind what the row says, and the file it has written is the one on the   *)
(* disk; only an upload can leave a clean document signed, and it never    *)
(* starts from a signed one.                                               *)

SigningRequest(r) ==
  /\ r.fresh => r.seen = docs[r.doc]
  /\ r.fresh /\ r.pc = "written" => \A f \in r.file : disk[r.doc][f.name] = f.content
  /\ r.guarded /\ r.status = "signed" => /\ r.opens = {} /\ r.closes = r.seen.open
                                         /\ \E f \in r.file : f.type = "signed"
                                         /\ r.seen # Signing!Absent
  /\ r.guarded /\ (r.file # {} \/ r.status = "signed") => r.seen.status # "signed"
  /\ r.file # {} => r.guarded /\ (\E f \in r.file : r.file = {f})

SigningInv ==
  /\ Signing!TypeOK
  /\ disk = [d \in Docs |-> disk[d]]
  /\ \A w \in Workers : signingCall[w] # Signing!Idle => SigningRequest(signingCall[w])
  /\ SignedIsBacked

\* What a request may have decided.
SigningChoice(d, status, opens, closes, file, guarded) ==
  /\ d \in Docs /\ status \in Signing!Statuses
  /\ opens \in SUBSET (1..MaxSigningCalls) /\ closes \in SUBSET (1..MaxSigningCalls)
  /\ file \in SUBSET Signing!Files /\ guarded \in BOOLEAN
  /\ guarded /\ status = "signed" => /\ opens = {} /\ closes = docs[d].open
                                     /\ \E f \in file : f.type = "signed"
                                     /\ docs[d] # Signing!Absent
  /\ guarded /\ (file # {} \/ status = "signed") => docs[d].status # "signed"
  /\ file # {} => guarded /\ (\E f \in file : file = {f})

\* Every request decides on the document it has just read.
LEMMA SigningChoices ==
  ASSUME SigningInv, NEW w \in Workers, Signing!Ask(w)
  PROVE  \E d, status, opens, closes, file, guarded :
            /\ SigningChoice(d, status, opens, closes, file, guarded)
            /\ Signing!Decide(w, d, status, opens, closes, file, guarded)
<1> USE CallsAssumption
<1>0. Signing!TypeOK
  BY DEF SigningInv
<1>1. CASE Signing!GenerateDocument(w)
  <2>1. PICK d \in Docs, provided \in SUBSET Keys :
          /\ Signing!Unused(d)
          /\ Signing!Decide(w, d, "generated", {}, {},
               {[type |-> "generated", name |-> "<id>.txt", content |-> Signing!Rendered]}, TRUE)
    BY <1>1 DEF Signing!GenerateDocument
  <2>2. SigningChoice(d, "generated", {}, {},
               {[type |-> "generated", name |-> "<id>.txt", content |-> Signing!Rendered]}, TRUE)
    BY <2>1, <1>0 DEF SigningChoice, Signing!Unused, Signing!Exists, Signing!Absent, Signing!Statuses,
                 Signing!Files, Signing!FileTypes, Signing!Names, Signing!Contents
  <2>3. QED
    BY <2>1, <2>2
<1>2. CASE Signing!ImportDocument(w)
  <2>1. PICK d \in Docs, status \in Signing!LegacyStatuses \cup Signing!Statuses :
          Signing!Unused(d) /\ Signing!Decide(w, d, status, {}, {}, {}, status # "signed")
    BY <1>2 DEF Signing!ImportDocument
  <2>2. SigningChoice(d, status, {}, {}, {}, status # "signed")
    BY <2>1 DEF SigningChoice, Signing!LegacyStatuses, Signing!Statuses
  <2>3. QED
    BY <2>1, <2>2
<1>3. CASE Signing!UpdateDocument(w)
  <2>1. PICK d \in Docs, status \in Signing!Statuses :
          Signing!Decide(w, d, status, {}, {}, {}, status # "signed")
    BY <1>3 DEF Signing!UpdateDocument
  <2>2. SigningChoice(d, status, {}, {}, {}, status # "signed")
    BY <2>1 DEF SigningChoice
  <2>3. QED
    BY <2>1, <2>2
<1>4. CASE Signing!SendForSignature(w)
  <2>1. PICK d \in Docs : Signing!Decide(w, d, "sent_for_signature", {signingCalls + 1}, {}, {}, TRUE)
    BY <1>4 DEF Signing!SendForSignature
  <2>2. {signingCalls + 1} \in SUBSET (1..MaxSigningCalls)
    BY <2>1, <1>0 DEF Signing!Decide, Signing!TypeOK
  <2>3. SigningChoice(d, "sent_for_signature", {signingCalls + 1}, {}, {}, TRUE)
    BY <2>1, <2>2 DEF SigningChoice, Signing!Statuses
  <2>4. QED
    BY <2>1, <2>3
<1>5. CASE Signing!UploadSignedFile(w)
  <2>1. PICK d \in Docs, name \in Signing!Names, content \in Uploads :
          /\ docs[d].status \in {"sent_for_signature", "sent_for_review", "generated"}
          /\ Signing!Decide(w, d, "signed", {}, docs[d].open,
               {[type |-> "signed", name |-> name, content |-> content]}, TRUE)
    BY <1>5 DEF Signing!UploadSignedFile
  <2>2. docs[d] \in Signing!Rows /\ docs[d] # Signing!Absent
    BY <2>1, <1>0 DEF Signing!TypeOK, Signing!Absent
  <2>3. docs[d].open \in SUBSET (1..MaxSigningCalls)
    BY <2>2 DEF Signing!Rows
  <2>4. {[type |-> "signed", name |-> name, content |-> content]} \in SUBSET Signing!Files
    BY DEF Signing!Files, Signing!FileTypes, Signing!Contents
  <2>5. SigningChoice(d, "signed", {}, docs[d].open,
               {[type |-> "signed", name |-> name, content |-> content]}, TRUE)
    BY <2>1, <2>2, <2>3, <2>4 DEF SigningChoice, Signing!Statuses
  <2>6. QED
    BY <2>1, <2>5
<1>6. QED
  BY <1>1, <1>2, <1>3, <1>4, <1>5 DEF Signing!Ask

\* A request that begins reads the row as it is and disturbs nobody.
LEMMA SigningAsks ==
  ASSUME SigningInv, NEW w \in Workers, Signing!Ask(w)
  PROVE  SigningInv'
<1>1. PICK d, status, opens, closes, file, guarded :
        /\ SigningChoice(d, status, opens, closes, file, guarded)
        /\ Signing!Decide(w, d, status, opens, closes, file, guarded)
  BY SigningChoices
<1> DEFINE r == [pc |-> "decided", doc |-> d, seen |-> docs[d], status |-> status,
                 opens |-> opens, closes |-> closes, file |-> file, guarded |-> guarded,
                 fresh |-> TRUE]
<1>2. /\ signingCall' = [signingCall EXCEPT ![w] = r]
      /\ signingCalls < MaxSigningCalls /\ signingCalls' = signingCalls + 1
      /\ UNCHANGED <<template, docs, disk, clean>>
  BY <1>1 DEF Signing!Decide
<1>3. r \in Signing!Calls
  BY <1>1 DEF SigningChoice, Signing!Calls, SigningInv, Signing!TypeOK
<1>4. Signing!TypeOK'
  BY <1>2, <1>3, CallsAssumption DEF SigningInv, Signing!TypeOK
<1>5. SigningRequest(r)'
  BY <1>1, <1>2 DEF SigningRequest, SigningChoice, Signing!Absent
<1>6. ASSUME NEW v \in Workers, signingCall'[v] # Signing!Idle
      PROVE  SigningRequest(signingCall[v])'
  <2>1. CASE v = w
    BY <2>1, <1>2, <1>5 DEF SigningInv, Signing!TypeOK
  <2>2. CASE v # w
    BY <2>2, <1>2, <1>6 DEF SigningInv, Signing!TypeOK, SigningRequest
  <2>3. QED
    BY <2>1, <2>2
<1>7. SignedIsBacked' /\ disk' = [x \in Docs |-> disk'[x]]
  BY <1>2 DEF SigningInv, SignedIsBacked, Signing!SignedIsBacked
<1>8. QED
  BY <1>4, <1>6, <1>7 DEF SigningInv, Signing!Idle

\* The requests that are left after one has written or ended: the others on its document
\* are overtaken.
LEMMA SigningOvertakes ==
  ASSUME SigningInv, NEW w \in Workers, signingCall[w] # Signing!Idle,
         NEW next \in Signing!Calls,
         signingCall' = Signing!Overtaking(w, next)
  PROVE  /\ signingCall' \in [Workers -> Signing!Calls]
         /\ signingCall'[w] = next
         /\ \A v \in Workers \ {w} : signingCall'[v] # Signing!Idle =>
              /\ signingCall[v] # Signing!Idle
              /\ \/ signingCall'[v] = signingCall[v] /\ signingCall[v].doc # signingCall[w].doc
                 \/ signingCall'[v] = [signingCall[v] EXCEPT !.fresh = FALSE]
<1>1. ASSUME NEW v \in Workers, signingCall[v] # Signing!Idle
      PROVE  [signingCall[v] EXCEPT !.fresh = FALSE] \in Signing!Calls
  <2>1. signingCall[v] \in Signing!Calls \ {Signing!Idle}
    BY <1>1 DEF SigningInv, Signing!TypeOK
  <2>2. QED
    BY <2>1 DEF Signing!Calls
<1>2. signingCall \in [Workers -> Signing!Calls]
  BY DEF SigningInv, Signing!TypeOK
<1>3. QED
  BY <1>1, <1>2 DEF Signing!Overtaking

LEMMA SigningWrites ==
  ASSUME SigningInv, NEW w \in Workers, Signing!WriteFile(w)
  PROVE  SigningInv'
<1> DEFINE r == signingCall[w]
           next == [r EXCEPT !.pc = "written"]
<1>1. r \in Signing!Calls \ {Signing!Idle} /\ r.pc = "decided"
  BY DEF Signing!WriteFile, SigningInv, Signing!TypeOK, Signing!Idle
<1>2. r \in [pc : {"decided", "written"}, doc : Docs, seen : Signing!Rows \cup {Signing!Absent},
             status : Signing!Statuses, opens : SUBSET (1..MaxSigningCalls),
             closes : SUBSET (1..MaxSigningCalls), file : SUBSET Signing!Files,
             guarded : BOOLEAN, fresh : BOOLEAN]
  BY <1>1 DEF Signing!Calls
<1>3. next \in Signing!Calls /\ next # Signing!Idle
  BY <1>2 DEF Signing!Calls, Signing!Idle
<1>4. PICK f \in r.file :
        disk' = [disk EXCEPT ![r.doc] =
                   [n \in DOMAIN @ \cup {f.name} |-> IF n = f.name THEN f.content ELSE @[n]]]
  BY DEF Signing!WriteFile
<1>5. /\ signingCall' = Signing!Overtaking(w, next)
      /\ clean' = IF r.guarded /\ r.fresh THEN clean ELSE clean \ {r.doc}
      /\ UNCHANGED <<template, docs, signingCalls>>
  BY DEF Signing!WriteFile, Signing!Soiled
<1>6. SigningRequest(r)
  BY <1>1 DEF SigningInv
<1>7. Signing!TypeOK /\ disk = [d \in Docs |-> disk[d]]
  BY DEF SigningInv
<1>8. f \in Signing!Files
  BY <1>2
<1>9. /\ disk' = [d \in Docs |-> disk'[d]]
      /\ \A d \in Docs : d # r.doc => disk'[d] = disk[d]
      /\ disk'[r.doc] = [n \in DOMAIN disk[r.doc] \cup {f.name} |->
                           IF n = f.name THEN f.content ELSE disk[r.doc][n]]
  BY <1>2, <1>4, <1>7
<1>10. ASSUME NEW d \in Docs
       PROVE  /\ DOMAIN disk'[d] \subseteq Signing!Names
              /\ \A n \in DOMAIN disk'[d] : disk'[d][n] \in Signing!Contents
  <2>1. /\ DOMAIN disk[d] \subseteq Signing!Names
        /\ \A n \in DOMAIN disk[d] : disk[d][n] \in Signing!Contents
    BY <1>7 DEF Signing!TypeOK
  <2>2. f.name \in Signing!Names /\ f.content \in Signing!Contents
    BY <1>8 DEF Signing!Files
  <2>3. CASE d = r.doc
    BY <2>1, <2>2, <2>3, <1>9
  <2>4. CASE d # r.doc
    BY <2>1, <2>4, <1>9
  <2>5. QED
    BY <2>3, <2>4
<1>11. /\ signingCall' \in [Workers -> Signing!Calls]
       /\ signingCall'[w] = next
       /\ \A v \in Workers \ {w} : signingCall'[v] # Signing!Idle =>
              /\ signingCall[v] # Signing!Idle
              /\ \/ signingCall'[v] = signingCall[v] /\ signingCall[v].doc # r.doc
                 \/ signingCall'[v] = [signingCall[v] EXCEPT !.fresh = FALSE]
  BY <1>1, <1>3, <1>5, SigningOvertakes DEF Signing!Idle
<1>12. Signing!TypeOK'
  BY <1>5, <1>7, <1>10, <1>11 DEF Signing!TypeOK
<1>13. r.file = {f}
  BY <1>4, <1>6 DEF SigningRequest
<1>14. SigningRequest(signingCall[w])'
  <2>1. disk'[r.doc][f.name] = f.content
    BY <1>2, <1>9
  <2> DEFINE n == signingCall'[w]
  <2>2. /\ n.doc = r.doc /\ n.seen = r.seen /\ n.status = r.status /\ n.opens = r.opens
        /\ n.closes = r.closes /\ n.file = r.file
    BY <1>2, <1>11
  <2>3. (n.fresh => r.fresh) /\ (n.guarded <=> r.guarded)
    BY <1>2, <1>11
  <2> HIDE DEF r, n
  <2>4. /\ n.fresh => n.seen = docs'[n.doc]
        /\ n.fresh /\ n.pc = "written" => \A g \in n.file : disk'[n.doc][g.name] = g.content
    BY <2>1, <2>2, <2>3, <1>5, <1>6, <1>13 DEF SigningRequest
  <2>5. /\ n.guarded /\ n.status = "signed" => /\ n.opens = {} /\ n.closes = n.seen.open
                                               /\ \E g \in n.file : g.type = "signed"
                                               /\ n.seen # Signing!Absent
        /\ n.guarded /\ (n.file # {} \/ n.status = "signed") => n.seen.status # "signed"
        /\ n.file # {} => n.guarded /\ (\E g \in n.file : n.file = {g})
    BY <2>2, <2>3, <1>6 DEF SigningRequest
  <2>6. QED
    BY <2>4, <2>5 DEF SigningRequest, n, Signing!Absent
<1>15. ASSUME NEW v \in Workers, signingCall'[v] # Signing!Idle
       PROVE  SigningRequest(signingCall[v])'
  <2>1. CASE v = w
    BY <2>1, <1>11, <1>14
  <2>2. CASE v # w
    <3>1. SigningRequest(signingCall[v]) /\ signingCall[v] \in Signing!Calls \ {Signing!Idle}
      BY <2>2, <1>7, <1>11, <1>15 DEF SigningInv, Signing!TypeOK
    <3>2. CASE signingCall'[v] = signingCall[v] /\ signingCall[v].doc # r.doc
      <4>1. signingCall[v].doc \in Docs
        BY <3>1 DEF Signing!Calls
      <4>2. QED
        BY <3>1, <3>2, <4>1, <1>5, <1>9 DEF SigningRequest
    <3>3. CASE signingCall'[v] = [signingCall[v] EXCEPT !.fresh = FALSE]
      BY <3>1, <3>3, <1>5 DEF SigningRequest, Signing!Calls
    <3>4. QED
      BY <2>2, <3>2, <3>3, <1>11, <1>15
  <2>3. QED
    BY <2>1, <2>2
<1>16. ASSUME NEW d \in clean', docs'[d].status = "signed"
       PROVE  /\ docs'[d].open = {}
              /\ \E g \in docs'[d].files : g.type = "signed" /\ disk'[d][g.name] = g.content
  <2>1. /\ docs[d].open = {}
        /\ \E g \in docs[d].files : g.type = "signed" /\ disk[d][g.name] = g.content
    BY <1>5, <1>16 DEF SigningInv, SignedIsBacked, Signing!SignedIsBacked
  <2>2. d # r.doc
    BY <1>2, <1>4, <1>5, <1>6, <1>16 DEF SigningRequest
  <2>3. d \in Docs
    BY <1>5, <1>7, <1>16 DEF Signing!TypeOK
  <2>4. QED
    BY <1>5, <1>9, <2>1, <2>2, <2>3
<1>17. QED
  BY <1>9, <1>12, <1>15, <1>16 DEF SigningInv, SignedIsBacked, Signing!SignedIsBacked

LEMMA SigningCommits ==
  ASSUME SigningInv, NEW w \in Workers, Signing!Commit(w)
  PROVE  SigningInv'
<1> DEFINE r == signingCall[w]
           row == Signing!Committed(r)
<1>1. r \in Signing!Calls \ {Signing!Idle}
  BY DEF Signing!Commit, SigningInv, Signing!TypeOK
<1>2. r \in [pc : {"decided", "written"}, doc : Docs, seen : Signing!Rows \cup {Signing!Absent},
             status : Signing!Statuses, opens : SUBSET (1..MaxSigningCalls),
             closes : SUBSET (1..MaxSigningCalls), file : SUBSET Signing!Files,
             guarded : BOOLEAN, fresh : BOOLEAN]
  BY <1>1 DEF Signing!Calls
<1>3. /\ r.file # {} => r.pc = "written"
      /\ docs' = [docs EXCEPT ![r.doc] = row]
      /\ signingCall' = Signing!Overtaking(w, Signing!Idle)
      /\ clean' = IF r.guarded /\ r.fresh THEN clean ELSE clean \ {r.doc}
      /\ UNCHANGED <<template, disk, signingCalls>>
  BY DEF Signing!Commit, Signing!Soiled
<1>4. SigningRequest(r)
  BY <1>1 DEF SigningInv
<1>5. Signing!TypeOK /\ disk = [d \in Docs |-> disk[d]]
  BY DEF SigningInv
<1>6. docs[r.doc] \in Signing!Rows \cup {Signing!Absent}
  BY <1>2, <1>5 DEF Signing!TypeOK
<1> DEFINE now == IF docs[r.doc] = Signing!Absent
                  THEN [status |-> r.status, open |-> {}, files |-> {}] ELSE docs[r.doc]
<1>7. now \in Signing!Rows
  BY <1>2, <1>6 DEF Signing!Rows
<1>8. row = [status |-> IF r.seen = Signing!Absent \/ r.seen.status # r.status
                        THEN r.status ELSE now.status,
             open |-> (now.open \ r.closes) \cup r.opens,
             files |-> now.files \cup r.file]
  BY DEF Signing!Committed
<1>9. row \in Signing!Rows
  <2>1. /\ now.status \in Signing!Statuses /\ now.open \in SUBSET (1..MaxSigningCalls)
        /\ now.files \in SUBSET Signing!Files
    BY <1>7 DEF Signing!Rows
  <2>2. QED
    BY <1>2, <1>8, <2>1 DEF Signing!Rows
<1>10. /\ signingCall' \in [Workers -> Signing!Calls]
       /\ signingCall'[w] = Signing!Idle
       /\ \A v \in Workers \ {w} : signingCall'[v] # Signing!Idle =>
              /\ signingCall[v] # Signing!Idle
              /\ \/ signingCall'[v] = signingCall[v] /\ signingCall[v].doc # r.doc
                 \/ signingCall'[v] = [signingCall[v] EXCEPT !.fresh = FALSE]
  BY <1>1, <1>3, SigningOvertakes DEF Signing!Calls
<1>11. Signing!TypeOK'
  BY <1>2, <1>3, <1>5, <1>9, <1>10 DEF Signing!TypeOK
<1>12. ASSUME NEW v \in Workers, signingCall'[v] # Signing!Idle
       PROVE  SigningRequest(signingCall[v])'
  <2>1. v # w
    BY <1>10, <1>12
  <2>2. SigningRequest(signingCall[v]) /\ signingCall[v] \in Signing!Calls \ {Signing!Idle}
    BY <2>1, <1>5, <1>10, <1>12 DEF SigningInv, Signing!TypeOK
  <2>3. CASE signingCall'[v] = signingCall[v] /\ signingCall[v].doc # r.doc
    BY <2>2, <2>3, <1>3 DEF SigningRequest
  <2>4. CASE signingCall'[v] = [signingCall[v] EXCEPT !.fresh = FALSE]
    BY <2>2, <2>4, <1>3 DEF SigningRequest, Signing!Calls
  <2>5. QED
    BY <2>1, <2>3, <2>4, <1>10, <1>12
<1>13. ASSUME NEW d \in clean', docs'[d].status = "signed"
       PROVE  /\ docs'[d].open = {}
              /\ \E g \in docs'[d].files : g.type = "signed" /\ disk'[d][g.name] = g.content
  <2>1. d \in clean /\ d \in Docs
    BY <1>3, <1>5, <1>13 DEF Signing!TypeOK
  <2>2. CASE d # r.doc
    BY <2>1, <2>2, <1>3, <1>13 DEF SigningInv, SignedIsBacked, Signing!SignedIsBacked
  <2>3. CASE d = r.doc
    <3>1. r.guarded /\ r.fresh /\ r.seen = docs[d]
      BY <2>3, <1>3, <1>4, <1>13 DEF SigningRequest
    <3>2. docs'[d] = row
      BY <2>3, <1>2, <1>3, <1>5 DEF Signing!TypeOK
    <3>3. r.status = "signed"
      BY <3>1, <3>2, <2>3, <1>8, <1>13
    <3>4. /\ r.opens = {} /\ r.closes = docs[d].open /\ docs[d] # Signing!Absent
          /\ \E f \in r.file : f.type = "signed"
      BY <3>1, <3>3, <1>4 DEF SigningRequest
    <3>5. docs'[d].open = {}
      BY <3>2, <3>4, <2>3, <1>8
    <3>6. \A f \in r.file : disk[d][f.name] = f.content
      BY <3>1, <3>4, <2>3, <1>3, <1>4 DEF SigningRequest
    <3>7. QED
      BY <3>2, <3>4, <3>5, <3>6, <1>3, <1>8
  <2>4. QED
    BY <2>2, <2>3
<1>14. QED
  BY <1>3, <1>5, <1>11, <1>12, <1>13 DEF SigningInv, SignedIsBacked, Signing!SignedIsBacked

LEMMA SigningStep ==
  ASSUME SigningInv, [Signing!Next]_signingVars
  PROVE  SigningInv'
<1>1. CASE Signing!UpdateTemplate
  <2>1. /\ template' \in [active : BOOLEAN, placeholders : SUBSET Keys]
        /\ signingCalls' \in 0..MaxSigningCalls
    BY <1>1, CallsAssumption DEF Signing!UpdateTemplate, SigningInv, Signing!TypeOK
  <2>2. UNCHANGED <<docs, disk, signingCall, clean>>
    BY <1>1 DEF Signing!UpdateTemplate
  <2>3. QED
    BY <2>1, <2>2 DEF SigningInv, Signing!TypeOK, SigningRequest, SignedIsBacked,
                  Signing!SignedIsBacked
<1>2. ASSUME NEW w \in Workers, Signing!Rollback(w)
      PROVE  SigningInv'
  <2>1. /\ signingCall' = [signingCall EXCEPT ![w] = Signing!Idle]
        /\ UNCHANGED <<template, docs, disk, clean, signingCalls>>
    BY <1>2 DEF Signing!Rollback
  <2>2. Signing!TypeOK'
    BY <2>1 DEF SigningInv, Signing!TypeOK, Signing!Calls
  <2>3. ASSUME NEW v \in Workers, signingCall'[v] # Signing!Idle
        PROVE  signingCall'[v] = signingCall[v]
    BY <2>1, <2>3 DEF SigningInv, Signing!TypeOK
  <2>4. QED
    BY <2>1, <2>2, <2>3 DEF SigningInv, SigningRequest, SignedIsBacked, Signing!SignedIsBacked
<1>3. CASE UNCHANGED signingVars
  BY <1>3 DEF signingVars, SigningInv, Signing!TypeOK, SigningRequest, SignedIsBacked,
              Signing!SignedIsBacked
<1>4. QED
  BY <1>1, <1>2, <1>3, SigningAsks, SigningWrites, SigningCommits DEF Signing!Next

\* A signed document has its signed file on the disk and nobody is still asked to sign it,
\* unless somebody declared it signed or two requests overtook each other on it.
THEOREM SignedDocumentsAreBacked == OfficeSpec => []SignedIsBacked
<1>1. ASSUME OfficeInit
      PROVE  SigningInv
  <2>1. /\ template = [active |-> TRUE, placeholders |-> Keys]
        /\ docs = [d \in Docs |-> Signing!Absent] /\ disk = [d \in Docs |-> Signing!NoFiles]
        /\ signingCall = [w \in Workers |-> Signing!Idle] /\ clean = Docs /\ signingCalls = 0
    BY <1>1 DEF OfficeInit, Signing!Init
  <2>2. Signing!TypeOK
    BY <2>1, CallsAssumption DEF Signing!TypeOK, Signing!NoFiles, Signing!Calls
  <2>3. SignedIsBacked
    BY <2>1 DEF SignedIsBacked, Signing!SignedIsBacked, Signing!Absent
  <2>4. QED
    BY <2>1, <2>2, <2>3 DEF SigningInv
<1>2. SigningInv /\ [OfficeNext]_<<focus, vars, modulesVars, signingVars, agentsVars,
                                   directoryVars, setupVars>> => SigningInv'
  BY SigningStep DEF OfficeNext
<1>3. SigningInv => SignedIsBacked
  BY DEF SigningInv
<1>4. QED
  BY <1>1, <1>2, <1>3, PTL DEF OfficeSpec

-----------------------------------------------------------------------------
(* AI proposals.  Decisions are only ever added, so an approval that an    *)
(* execution has seen still stands when it commits; a request that nobody  *)
(* has overtaken decides on the status that the row has.                   *)

Decided(p, verdict) == \E d \in approvals[p] : d.decision = verdict

ProposalRow(p) ==
  /\ proposals[p].status = "approved" => Decided(p, "approved")
  /\ proposals[p].executed /\ proposals[p].is_critical /\ proposals[p].strict =>
       Decided(p, "approved")
  /\ p \notin proposalsOvertaken =>
       /\ approvals[p] = {} \/ \E d \in approvals[p] : approvals[p] = {d}
       /\ proposals[p].status = "pending" => approvals[p] = {}
       /\ Decided(p, "rejected") <=> proposals[p].status = "rejected"

ProposalRequest(r) ==
  /\ proposals[r.on] = Agents!Absent => /\ r.row.status = "pending" /\ r.row.executed = FALSE
                                        /\ r.decision = {}
  /\ proposals[r.on] # Agents!Absent => /\ r.row.status # "pending"
                                        /\ r.row.is_critical = proposals[r.on].is_critical
  /\ r.row.status = "executed" /\ r.row.is_critical /\ r.row.strict => Decided(r.on, "approved")
  /\ r.row.status = "executed" => r.decision = {} /\ r.seen # "rejected"
  /\ r.row.status \in {"approved", "rejected"} =>
       r.decision = {[nr |-> r.nr, decision |-> r.row.status]} /\ r.seen = "pending"
  /\ r.fresh => r.seen = proposals[r.on].status

AgentsInv ==
  /\ Agents!TypeOK
  /\ \A p \in Proposals : IF proposals[p] = Agents!Absent THEN approvals[p] = {} ELSE ProposalRow(p)
  /\ \A w \in Workers : proposalsCall[w] # Agents!Idle =>
       /\ ProposalRequest(proposalsCall[w])
       /\ proposals[proposalsCall[w].on] = Agents!Absent =>
            \A v \in Workers \ {w} :
              proposalsCall[v] # Agents!Idle => proposalsCall[v].on # proposalsCall[w].on

\* What a request may have decided on a proposal it has just read.
AgentsChoice(p, row, decision, task) ==
  /\ p \in Proposals /\ row \in Agents!Rows /\ task \in BOOLEAN
  /\ decision \in SUBSET Agents!Decisions
  /\ proposals[p] = Agents!Absent => /\ row.status = "pending" /\ row.executed = FALSE
                                     /\ decision = {} /\ Agents!Unused(p)
  /\ proposals[p] # Agents!Absent => /\ row.status # "pending"
                                     /\ row.is_critical = proposals[p].is_critical
  /\ row.status = "executed" /\ row.is_critical /\ row.strict => Decided(p, "approved")
  /\ row.status = "executed" => decision = {} /\ proposals[p].status # "rejected"
  /\ row.status \in {"approved", "rejected"} =>
       /\ decision = {[nr |-> proposalsCalls + 1, decision |-> row.status]}
       /\ proposals[p].status = "pending"

LEMMA AgentsChoices ==
  ASSUME AgentsInv, NEW w \in Workers, Agents!Ask(w)
  PROVE  \E p, row, decision, task :
            AgentsChoice(p, row, decision, task) /\ Agents!Decide(w, p, row, decision, task)
<1>0. Agents!TypeOK
  BY DEF AgentsInv
<1>1. ASSUME NEW p \in Proposals, NEW critical \in BOOLEAN, NEW task \in BOOLEAN,
             Agents!Unused(p), Agents!Decide(w, p, Agents!NewRow(critical), {}, task)
      PROVE  AgentsChoice(p, Agents!NewRow(critical), {}, task)
  <2>1. Agents!NewRow(critical) \in Agents!Rows
    BY DEF Agents!NewRow, Agents!Rows, Agents!Statuses
  <2>2. Agents!NewRow(critical).status = "pending" /\ Agents!NewRow(critical).executed = FALSE
    BY DEF Agents!NewRow
  <2>3. QED
    BY <1>1, <2>1, <2>2 DEF AgentsChoice, Agents!Unused, Agents!Exists
<1>2. CASE Agents!CreateProposal(w)
  BY <1>1, <1>2 DEF Agents!CreateProposal
<1>3. CASE Agents!CreateTask(w)
  BY <1>1, <1>3 DEF Agents!CreateTask
<1>4. ASSUME NEW p \in Proposals, NEW status \in {"approved", "rejected"}, Agents!Pending(p),
             Agents!Decide(w, p, [proposals[p] EXCEPT !.status = status],
                           {[nr |-> proposalsCalls + 1, decision |-> status]}, FALSE)
      PROVE  AgentsChoice(p, [proposals[p] EXCEPT !.status = status],
                          {[nr |-> proposalsCalls + 1, decision |-> status]}, FALSE)
  <2>1. proposals[p] \in Agents!Rows /\ proposals[p] # Agents!Absent
        /\ proposals[p].status = "pending"
    BY <1>0, <1>4 DEF Agents!Pending, Agents!Exists, Agents!TypeOK
  <2> DEFINE row == [proposals[p] EXCEPT !.status = status]
  <2>2. /\ row \in Agents!Rows /\ row.status = status
        /\ row.is_critical = proposals[p].is_critical
    BY <2>1 DEF Agents!Rows, Agents!Statuses
  <2>3. proposalsCalls + 1 \in 1..MaxAgentCalls
    BY <1>0, <1>4, CallsAssumption DEF Agents!TypeOK, Agents!Decide
  <2>4. {[nr |-> proposalsCalls + 1, decision |-> status]} \in SUBSET Agents!Decisions
    BY <2>3 DEF Agents!Decisions
  <2> HIDE DEF row
  <2>5. AgentsChoice(p, row, {[nr |-> proposalsCalls + 1, decision |-> status]}, FALSE)
    BY <2>1, <2>2, <2>4 DEF AgentsChoice
  <2>6. QED
    BY <2>5 DEF row
<1>5. CASE Agents!ApproveProposal(w)
  BY <1>4, <1>5 DEF Agents!ApproveProposal
<1>6. CASE Agents!RejectProposal(w)
  BY <1>4, <1>6 DEF Agents!RejectProposal
<1>7. CASE Agents!ExecuteProposal(w)
  <2>1. PICK p \in Proposals :
          /\ Agents!Exists(p) /\ proposals[p].status \notin {"executed", "rejected"}
          /\ proposals[p].is_critical /\ agent.strict => proposals[p].status = "approved"
          /\ Agents!Executes(w, p)
    BY <1>7 DEF Agents!ExecuteProposal
  <2>2. proposals[p] \in Agents!Rows /\ proposals[p] # Agents!Absent /\ agent.strict \in BOOLEAN
    BY <1>0, <2>1 DEF Agents!Exists, Agents!TypeOK
  <2> DEFINE row == [proposals[p] EXCEPT !.status = "executed", !.executed = TRUE,
                                         !.strict = agent.strict]
  <2>3. row \in Agents!Rows /\ row.status = "executed"
    BY <2>2 DEF Agents!Rows, Agents!Statuses
  <2>4. row.is_critical = proposals[p].is_critical /\ row.strict = agent.strict
    BY <2>2 DEF Agents!Rows
  <2>5. Agents!Decide(w, p, row, {}, FALSE)
    BY <2>1 DEF Agents!Executes
  <2>6. proposals[p].status = "approved" => Decided(p, "approved")
    BY <2>2 DEF AgentsInv, ProposalRow
  <2> HIDE DEF row
  <2>7. AgentsChoice(p, row, {}, FALSE)
    BY <2>1, <2>2, <2>3, <2>4, <2>6 DEF AgentsChoice
  <2>8. QED
    BY <2>5, <2>7
<1>8. QED
  BY <1>2, <1>3, <1>5, <1>6, <1>7 DEF Agents!Ask

LEMMA AgentsAsks ==
  ASSUME AgentsInv, NEW w \in Workers, Agents!Ask(w)
  PROVE  AgentsInv'
<1>1. PICK p, row, decision, task :
        AgentsChoice(p, row, decision, task) /\ Agents!Decide(w, p, row, decision, task)
  BY AgentsChoices
<1> DEFINE r == [pc |-> "decided", nr |-> proposalsCalls + 1, on |-> p,
                 seen |-> proposals[p].status, row |-> row, decision |-> decision,
                 task |-> task, fresh |-> TRUE]
<1>2. /\ proposalsCall[w] = Agents!Idle
      /\ proposalsCall' = [proposalsCall EXCEPT ![w] = r]
      /\ proposalsCalls < MaxAgentCalls /\ proposalsCalls' = proposalsCalls + 1
      /\ UNCHANGED <<agent, proposals, approvals, tasks, proposalsOvertaken>>
  BY <1>1 DEF Agents!Decide
<1>3. Agents!TypeOK
  BY DEF AgentsInv
<1>4. r \in Agents!Calls /\ r # Agents!Idle
  <2>1. proposalsCalls + 1 \in 1..MaxAgentCalls
    BY <1>2, <1>3, CallsAssumption DEF Agents!TypeOK
  <2>2. proposals[p].status \in Agents!Statuses \cup {"absent"}
    BY <1>1, <1>3 DEF AgentsChoice, Agents!TypeOK, Agents!Rows, Agents!Absent
  <2>3. QED
    BY <1>1, <2>1, <2>2 DEF AgentsChoice, Agents!Calls, Agents!Idle
<1>5. Agents!TypeOK'
  BY <1>2, <1>3, <1>4, CallsAssumption DEF Agents!TypeOK
<1>6. ASSUME NEW q \in Proposals
      PROVE  (IF proposals[q] = Agents!Absent THEN approvals[q] = {} ELSE ProposalRow(q))'
  BY <1>2 DEF AgentsInv, ProposalRow, Decided, Agents!Absent
<1>7. ProposalRequest(proposalsCall[w])'
  <2>1. proposalsCall'[w] = r
    BY <1>2, <1>3 DEF Agents!TypeOK
  <2>2. QED
    BY <1>1, <1>2, <2>1 DEF AgentsChoice, ProposalRequest, Decided, Agents!Absent
<1>8. ASSUME NEW v \in Workers, proposalsCall'[v] # Agents!Idle
      PROVE  /\ ProposalRequest(proposalsCall[v])'
             /\ proposals'[proposalsCall'[v].on] = Agents!Absent =>
                  \A x \in Workers \ {v} :
                    proposalsCall'[x] # Agents!Idle => proposalsCall'[x].on # proposalsCall'[v].on
  <2>1. CASE v = w
    <3>1. proposals[p] = Agents!Absent =>
            \A x \in Workers : proposalsCall[x] # Agents!Idle => proposalsCall[x].on # p
      BY <1>1 DEF AgentsChoice, Agents!Unused
    <3>2. QED
      BY <1>2, <1>3, <1>7, <2>1, <3>1 DEF Agents!TypeOK
  <2>2. CASE v # w
    <3>1. proposalsCall'[v] = proposalsCall[v] /\ proposalsCall[v] # Agents!Idle
      BY <1>2, <1>3, <1>8, <2>2 DEF Agents!TypeOK
    <3>2. ProposalRequest(proposalsCall[v])'
      BY <1>2, <3>1 DEF AgentsInv, ProposalRequest, Decided, Agents!Absent
    <3>3. proposals[proposalsCall[v].on] = Agents!Absent => proposalsCall[v].on # p
      BY <1>1, <3>1 DEF AgentsChoice, Agents!Unused
    <3>4. QED
      BY <1>2, <1>3, <2>2, <3>1, <3>2, <3>3 DEF AgentsInv, Agents!TypeOK
  <2>3. QED
    BY <2>1, <2>2
<1>9. QED
  BY <1>5, <1>6, <1>8 DEF AgentsInv, Agents!Absent, Agents!Idle

LEMMA AgentsCommits ==
  ASSUME AgentsInv, NEW w \in Workers, Agents!Commit(w)
  PROVE  AgentsInv'
<1>a. PICK r : r = proposalsCall[w]
  OBVIOUS
<1>b. PICK p : p = r.on
  OBVIOUS
<1> DEFINE now == IF proposals[p] # Agents!Absent THEN proposals[p] ELSE r.row
           new == proposals'[p]
<1>1. Agents!TypeOK
  BY DEF AgentsInv
<1>2. /\ r # Agents!Idle /\ r \in Agents!Calls
      /\ p \in Proposals /\ r.row \in Agents!Rows /\ r.decision \in SUBSET Agents!Decisions
      /\ r.row.status \in Agents!Statuses /\ r.row.strict \in BOOLEAN
  BY <1>a, <1>b, <1>1 DEF Agents!Commit, Agents!TypeOK, Agents!Calls, Agents!Rows
<1>3. /\ proposals' = [proposals EXCEPT ![p] =
             IF r.row.status = "executed"
               THEN [now EXCEPT !.status = r.row.status, !.executed = TRUE, !.strict = r.row.strict]
               ELSE [now EXCEPT !.status = r.row.status]]
      /\ approvals' = [approvals EXCEPT ![p] = @ \cup r.decision]
      /\ tasks' = IF r.task THEN tasks \cup {p} ELSE tasks
      /\ proposalsOvertaken' = IF r.fresh THEN proposalsOvertaken ELSE proposalsOvertaken \cup {p}
      /\ proposalsCall' = [v \in Workers |->
             IF v = w THEN Agents!Idle
             ELSE IF proposalsCall[v] # Agents!Idle /\ proposalsCall[v].on = p
                    THEN [proposalsCall[v] EXCEPT !.fresh = FALSE] ELSE proposalsCall[v]]
      /\ UNCHANGED <<agent, proposalsCalls>>
  BY <1>a, <1>b DEF Agents!Commit, Agents!Exists
<1>4. now \in Agents!Rows /\ Agents!Absent \notin Agents!Rows
  BY <1>1, <1>2 DEF Agents!TypeOK, Agents!Rows, Agents!Absent
<1>5. /\ new \in Agents!Rows
      /\ new.status = r.row.status /\ new.is_critical = now.is_critical
      /\ r.row.status = "executed" => new.executed = TRUE /\ new.strict = r.row.strict
      /\ r.row.status # "executed" => new.executed = now.executed /\ new.strict = now.strict
  <2>1. CASE r.row.status = "executed"
    <3>1. new = [now EXCEPT !.status = r.row.status, !.executed = TRUE, !.strict = r.row.strict]
      BY <1>1, <1>2, <1>3, <2>1 DEF Agents!TypeOK
    <3>2. QED
      BY <1>2, <1>4, <2>1, <3>1 DEF Agents!Rows
  <2>2. CASE r.row.status # "executed"
    <3>1. new = [now EXCEPT !.status = r.row.status]
      BY <1>1, <1>2, <1>3, <2>2 DEF Agents!TypeOK
    <3>2. QED
      BY <1>2, <1>4, <2>2, <3>1 DEF Agents!Rows
  <2>3. QED
    BY <2>1, <2>2
<1>6. ProposalRequest(r)
  BY <1>a, <1>2 DEF AgentsInv
<1>7. /\ \A q \in Proposals \ {p} : proposals'[q] = proposals[q] /\ approvals'[q] = approvals[q]
      /\ approvals'[p] = approvals[p] \cup r.decision
      /\ \A q \in Proposals : \A verdict : Decided(q, verdict) => Decided(q, verdict)'
  BY <1>1, <1>2, <1>3 DEF Agents!TypeOK, Decided
<1>8. Agents!TypeOK'
  <2>1. proposals' \in [Proposals -> Agents!Rows \cup {Agents!Absent}]
    BY <1>1, <1>2, <1>3, <1>5 DEF Agents!TypeOK
  <2>2. approvals' \in [Proposals -> SUBSET Agents!Decisions]
    BY <1>1, <1>2, <1>3 DEF Agents!TypeOK
  <2>3. ASSUME NEW v \in Workers, proposalsCall[v] # Agents!Idle
        PROVE  [proposalsCall[v] EXCEPT !.fresh = FALSE] \in Agents!Calls
    <3>1. proposalsCall[v] \in Agents!Calls \ {Agents!Idle}
      BY <1>1, <2>3 DEF Agents!TypeOK
    <3>2. QED
      BY <3>1 DEF Agents!Calls
  <2>4. proposalsCall' \in [Workers -> Agents!Calls]
    BY <1>1, <1>3, <2>3 DEF Agents!TypeOK, Agents!Calls
  <2>5. tasks' \subseteq Proposals /\ proposalsOvertaken' \subseteq Proposals
    BY <1>1, <1>2, <1>3 DEF Agents!TypeOK
  <2>6. QED
    BY <1>1, <1>3, <2>1, <2>2, <2>4, <2>5 DEF Agents!TypeOK
<1>9. ProposalRow(p)'
  <2>1. proposals[p] # Agents!Absent => ProposalRow(p)
    BY <1>2 DEF AgentsInv
  <2>2. proposals[p] = Agents!Absent => approvals[p] = {}
    BY <1>2 DEF AgentsInv
  <2>3. ASSUME r.row.status \in {"approved", "rejected"}
        PROVE  Decided(p, r.row.status)'
    <3> DEFINE d == [nr |-> r.nr, decision |-> r.row.status]
    <3>1. d \in approvals'[p]
      BY <1>b, <1>6, <1>7, <2>3 DEF ProposalRequest
    <3>2. d.decision = r.row.status
      OBVIOUS
    <3> HIDE DEF d
    <3>3. QED
      BY <3>1, <3>2 DEF Decided
  <2>4. new.executed /\ new.is_critical /\ new.strict => Decided(p, "approved")'
    <3>1. CASE r.row.status = "executed"
      BY <1>2, <1>5, <1>b, <1>6, <1>7, <3>1 DEF ProposalRequest
    <3>2. CASE r.row.status # "executed" /\ proposals[p] # Agents!Absent
      BY <1>2, <1>5, <1>7, <2>1, <3>2 DEF ProposalRow
    <3>3. CASE proposals[p] = Agents!Absent
      BY <1>5, <1>b, <1>6, <3>3 DEF ProposalRequest
    <3>4. QED
      BY <3>1, <3>2, <3>3
  <2>5. ASSUME p \notin proposalsOvertaken'
        PROVE  /\ approvals'[p] = {} \/ \E d \in approvals'[p] : approvals'[p] = {d}
               /\ new.status = "pending" => approvals'[p] = {}
               /\ Decided(p, "rejected")' <=> new.status = "rejected"
    <3>1. p \notin proposalsOvertaken /\ r.seen = proposals[p].status
      BY <1>3, <1>b, <1>6, <2>5 DEF ProposalRequest
    <3>2. CASE r.row.status \in {"approved", "rejected"}
      <4>1. r.decision = {[nr |-> r.nr, decision |-> r.row.status]} /\ approvals[p] = {}
        BY <1>b, <1>6, <2>1, <3>1, <3>2 DEF ProposalRequest, ProposalRow, Agents!Absent
      <4>2. QED
        BY <1>5, <1>7, <4>1, <3>2 DEF Decided
    <3>3. CASE r.row.status = "executed"
      <4>1. r.decision = {} /\ proposals[p] # Agents!Absent /\ proposals[p].status # "rejected"
        BY <1>b, <1>6, <3>1, <3>3 DEF ProposalRequest
      <4>2. QED
        BY <1>5, <1>7, <2>1, <3>1, <3>3, <4>1 DEF Decided, ProposalRow
    <3>4. CASE r.row.status = "pending"
      BY <1>5, <1>b, <1>6, <1>7, <2>2, <3>4 DEF Decided, ProposalRequest
    <3>5. QED
      BY <1>2, <3>2, <3>3, <3>4 DEF Agents!Statuses
  <2>6. (Decided(p, "approved"))' \/ new.status # "approved"
    BY <1>5, <2>3
  <2>7. QED
    BY <2>4, <2>5, <2>6 DEF ProposalRow
<1>10. ASSUME NEW q \in Proposals
       PROVE  (IF proposals[q] = Agents!Absent THEN approvals[q] = {} ELSE ProposalRow(q))'
  <2>1. CASE q = p
    BY <1>4, <1>5, <1>9, <2>1 DEF Agents!Absent
  <2>2. CASE q # p
    BY <1>3, <1>7, <2>2 DEF AgentsInv, ProposalRow, Decided, Agents!Absent
  <2>3. QED
    BY <2>1, <2>2
<1>11. ASSUME NEW v \in Workers, proposalsCall'[v] # Agents!Idle
       PROVE  /\ ProposalRequest(proposalsCall[v])'
              /\ proposals'[proposalsCall'[v].on] = Agents!Absent =>
                   \A x \in Workers \ {v} :
                     proposalsCall'[x] # Agents!Idle => proposalsCall'[x].on # proposalsCall'[v].on
  <2>1. v # w /\ proposalsCall[v] # Agents!Idle /\ proposalsCall[v] \in Agents!Calls
    BY <1>1, <1>3, <1>11 DEF Agents!TypeOK
  <2>2. \A x \in Workers : proposalsCall'[x] # Agents!Idle =>
          proposalsCall[x] # Agents!Idle /\ proposalsCall'[x].on = proposalsCall[x].on
    BY <1>1, <1>3 DEF Agents!TypeOK, Agents!Calls
  <2>3. ProposalRequest(proposalsCall[v])
    BY <2>1 DEF AgentsInv
  <2>4. CASE proposalsCall[v].on # p
    <3>1. proposalsCall'[v] = proposalsCall[v] /\ proposalsCall[v].on \in Proposals
      BY <1>3, <2>1, <2>4 DEF Agents!Calls
    <3>2. ProposalRequest(proposalsCall[v])'
      BY <1>7, <2>3, <2>4, <3>1 DEF ProposalRequest, Agents!Absent
    <3>3. QED
      BY <1>7, <2>1, <2>2, <2>4, <3>1, <3>2 DEF AgentsInv, Agents!Absent
  <2>5. CASE proposalsCall[v].on = p
    <3>1. proposals[p] # Agents!Absent
      BY <1>a, <1>b, <1>2, <2>1, <2>5 DEF AgentsInv
    <3>2. proposalsCall'[v] = [proposalsCall[v] EXCEPT !.fresh = FALSE]
      BY <1>3, <2>1, <2>5
    <3> DEFINE x == proposalsCall'[v]
    <3>3. /\ x.fresh = FALSE /\ x.on = p /\ x.row = proposalsCall[v].row
          /\ x.decision = proposalsCall[v].decision /\ x.seen = proposalsCall[v].seen
          /\ x.nr = proposalsCall[v].nr
      BY <2>1, <2>5, <3>2 DEF Agents!Calls
    <3> HIDE DEF x
    <3>4. new # Agents!Absent /\ new.is_critical = proposals[p].is_critical
      BY <1>4, <1>5, <3>1
    <3>5. ProposalRequest(proposalsCall[v])'
      BY <1>2, <1>7, <2>3, <2>5, <3>1, <3>3, <3>4 DEF ProposalRequest, x, Agents!Absent
    <3>6. QED
      BY <3>3, <3>4, <3>5 DEF x, Agents!Absent
  <2>6. QED
    BY <2>4, <2>5
<1>12. QED
  BY <1>8, <1>10, <1>11 DEF AgentsInv, Agents!Absent, Agents!Idle

LEMMA AgentsStep ==
  ASSUME AgentsInv, [Agents!Next]_agentsVars
  PROVE  AgentsInv'
<1>1. Agents!TypeOK
  BY DEF AgentsInv
<1>2. CASE Agents!UpdateAgent
  <2>1. /\ agent' \in [active : BOOLEAN, strict : BOOLEAN]
        /\ proposalsCalls' \in 0..MaxAgentCalls
        /\ UNCHANGED <<proposals, approvals, tasks, proposalsCall, proposalsOvertaken>>
    BY <1>1, <1>2, CallsAssumption DEF Agents!UpdateAgent, Agents!TypeOK
  <2>2. Agents!TypeOK'
    BY <1>1, <2>1 DEF Agents!TypeOK
  <2>3. QED
    BY <2>1, <2>2 DEF AgentsInv, ProposalRow, ProposalRequest, Decided, Agents!Absent
<1>3. CASE Agents!PassDeadline
  <2>1. PICK p \in Proposals :
          /\ proposals[p] # Agents!Absent
          /\ proposals' = [proposals EXCEPT ![p].late = TRUE]
          /\ UNCHANGED <<agent, approvals, tasks, proposalsCall, proposalsOvertaken, proposalsCalls>>
    BY <1>3 DEF Agents!PassDeadline, Agents!Exists
  <2>2. proposals[p] \in Agents!Rows
    BY <1>1, <2>1 DEF Agents!TypeOK
  <2>3. /\ proposals'[p] \in Agents!Rows /\ proposals'[p] # Agents!Absent
        /\ proposals'[p].status = proposals[p].status
        /\ proposals'[p].executed = proposals[p].executed
        /\ proposals'[p].is_critical = proposals[p].is_critical
        /\ proposals'[p].strict = proposals[p].strict
    BY <1>1, <2>1, <2>2 DEF Agents!Rows, Agents!Absent, Agents!TypeOK
  <2>4. \A q \in Proposals \ {p} : proposals'[q] = proposals[q]
    BY <1>1, <2>1 DEF Agents!TypeOK
  <2>5. Agents!TypeOK'
    BY <1>1, <2>1, <2>3 DEF Agents!TypeOK
  <2>6. ASSUME NEW q \in Proposals
        PROVE  (IF proposals[q] = Agents!Absent THEN approvals[q] = {} ELSE ProposalRow(q))'
    BY <2>1, <2>3, <2>4 DEF AgentsInv, ProposalRow, Decided, Agents!Absent
  <2>7. ASSUME NEW w \in Workers, proposalsCall'[w] # Agents!Idle
        PROVE  /\ ProposalRequest(proposalsCall[w])'
               /\ proposals'[proposalsCall'[w].on] = Agents!Absent =>
                    \A v \in Workers \ {w} :
                      proposalsCall'[v] # Agents!Idle => proposalsCall'[v].on # proposalsCall'[w].on
    <3>1. proposalsCall'[w] = proposalsCall[w] /\ proposalsCall[w].on \in Proposals
      BY <1>1, <2>1, <2>7 DEF Agents!TypeOK, Agents!Calls
    <3>2. ProposalRequest(proposalsCall[w])
      BY <2>1, <2>7 DEF AgentsInv
    <3>3. ProposalRequest(proposalsCall[w])'
      BY <2>1, <2>3, <2>4, <3>1, <3>2 DEF ProposalRequest, Decided, Agents!Absent
    <3>4. QED
      BY <2>1, <2>3, <2>4, <2>7, <3>1, <3>3 DEF AgentsInv, Agents!Absent
  <2>8. QED
    BY <2>5, <2>6, <2>7 DEF AgentsInv, Agents!Absent, Agents!Idle
<1>4. ASSUME NEW w \in Workers, Agents!Rollback(w)
      PROVE  AgentsInv'
  <2>1. /\ proposalsCall' = [proposalsCall EXCEPT ![w] = Agents!Idle]
        /\ UNCHANGED <<agent, proposals, approvals, tasks, proposalsOvertaken, proposalsCalls>>
    BY <1>4 DEF Agents!Rollback
  <2>2. Agents!TypeOK'
    BY <1>1, <2>1 DEF Agents!TypeOK, Agents!Calls
  <2>3. \A v \in Workers : proposalsCall'[v] # Agents!Idle => proposalsCall'[v] = proposalsCall[v]
    BY <1>1, <2>1 DEF Agents!TypeOK
  <2>4. QED
    BY <2>1, <2>2, <2>3 DEF AgentsInv, ProposalRow, ProposalRequest, Decided, Agents!Absent,
       Agents!Idle
<1>5. CASE UNCHANGED agentsVars
  BY <1>1, <1>5 DEF agentsVars, AgentsInv, Agents!TypeOK, ProposalRow, ProposalRequest, Decided,
     Agents!Absent, Agents!Idle
<1>6. QED
  BY <1>2, <1>3, <1>4, <1>5, AgentsAsks, AgentsCommits DEF Agents!Next

\* No critical action runs without an approval while the agent asks for one, whatever
\* overtakes what; where nothing does, a proposal is decided at most once and shows it.
THEOREM DecisionsAreHonoured == OfficeSpec => []DecisionsHonoured
<1>1. ASSUME OfficeInit
      PROVE  AgentsInv
  <2>1. /\ agent = [active |-> TRUE, strict |-> TRUE]
        /\ proposals = [p \in Proposals |-> Agents!Absent] /\ approvals = [p \in Proposals |-> {}]
        /\ tasks = {} /\ proposalsCall = [w \in Workers |-> Agents!Idle]
        /\ proposalsOvertaken = {} /\ proposalsCalls = 0
    BY <1>1 DEF OfficeInit, Agents!Init
  <2>2. Agents!TypeOK
    BY <2>1, CallsAssumption DEF Agents!TypeOK, Agents!Calls
  <2>3. QED
    BY <2>1, <2>2 DEF AgentsInv
<1>2. AgentsInv /\ [OfficeNext]_<<focus, vars, modulesVars, signingVars, agentsVars,
                                   directoryVars, setupVars>> => AgentsInv'
  BY AgentsStep DEF OfficeNext
<1>3. ASSUME AgentsInv
      PROVE  DecisionsHonoured
  <2>1. ASSUME NEW p \in Proposals, proposals[p] # Agents!Absent
        PROVE  /\ proposals[p].executed /\ proposals[p].is_critical /\ proposals[p].strict =>
                    "approved" \in Agents!Verdicts(p)
               /\ p \notin proposalsOvertaken =>
                    /\ \A d, e \in approvals[p] : d = e
                    /\ proposals[p].status = "pending" => approvals[p] = {}
                    /\ "rejected" \in Agents!Verdicts(p) <=> proposals[p].status = "rejected"
                    /\ proposals[p].status = "approved" => "approved" \in Agents!Verdicts(p)
    <3>1. \A verdict : Decided(p, verdict) <=> verdict \in Agents!Verdicts(p)
      BY DEF Decided, Agents!Verdicts
    <3>2. ProposalRow(p)
      BY <1>3, <2>1 DEF AgentsInv
    <3>3. QED
      BY <3>1, <3>2 DEF ProposalRow
  <2>2. QED
    BY <2>1 DEF DecisionsHonoured, Agents!DecisionsHonoured, Agents!Exists
<1>4. QED
  BY <1>1, <1>2, <1>3, PTL DEF OfficeSpec

-----------------------------------------------------------------------------
(* The party directory.  While nobody has overtaken anybody on a party, an *)
(* update has read the contacts that are there, so what it leaves are the  *)
(* ones it was given; the fields it checked are the ones it writes.        *)

PartyRow(p) ==
  /\ \A m \in parties[p].contacts : m.contact \in given[p].contacts
  /\ \A c \in given[p].contacts : \E m \in parties[p].contacts : m.contact = c
  /\ parties[p].meta.telegram = given[p].telegram

DirectoryRequest(r) ==
  /\ r.pc = "create" => r.contacts # Unset /\ r.telegram # Unset /\ r.role \in Roles \cup {None}
  /\ r.pc \in {"create", "update"} /\ r.fields # Unset => r.needs \subseteq r.fields
  /\ r.pc = "update" /\ parties[r.on] # Directory!Absent /\ r.on \notin partiesOvertaken =>
       r.seen = parties[r.on].contacts /\ r.was = parties[r.on].meta

DirectoryInv ==
  /\ Directory!TypeOK
  /\ partiesCall = [w \in Workers |-> partiesCall[w]]
  /\ \A p \in Parties : /\ vetted[p] \subseteq values[p]
                        /\ parties[p] # Directory!Absent /\ p \notin partiesOvertaken => PartyRow(p)
  /\ \A w \in Workers : partiesCall[w] # Directory!Idle => DirectoryRequest(partiesCall[w])

LEMMA DirectoryBegins ==
  ASSUME DirectoryInv, NEW w \in Workers, NEW r \in Directory!Calls, r # Directory!Idle,
         DirectoryRequest(r), Directory!Free(w), Directory!Begin(w, r)
  PROVE  DirectoryInv'
<1>1. /\ partiesCall' = [partiesCall EXCEPT ![w] = r]
      /\ partiesCalls < MaxDirectoryCalls /\ partiesCalls' = partiesCalls + 1
      /\ UNCHANGED <<parties, values, defs, given, vetted, partiesOvertaken>>
  BY DEF Directory!Begin, Directory!Free
<1>2. Directory!TypeOK'
  BY <1>1, CallsAssumption DEF DirectoryInv, Directory!TypeOK
<1>3. partiesCall' = [v \in Workers |-> partiesCall'[v]]
  BY <1>1 DEF DirectoryInv
<1>4. ASSUME NEW v \in Workers, partiesCall'[v] # Directory!Idle
      PROVE  DirectoryRequest(partiesCall[v])'
  BY <1>1, <1>4 DEF DirectoryInv, DirectoryRequest, Directory!Absent
<1>5. QED
  BY <1>1, <1>2, <1>3, <1>4 DEF DirectoryInv, PartyRow, Directory!Absent, Directory!Idle

LEMMA DirectoryCreates ==
  ASSUME DirectoryInv, NEW w \in Workers, Directory!CreateParty(w)
  PROVE  DirectoryInv'
<1>1. PICK p \in Parties, role \in Roles \cup {None}, telegram \in TelegramIds \cup {None},
           contacts \in SUBSET Contacts, fields \in SUBSET Fields :
        /\ Directory!Accepted(role, fields)
        /\ Directory!Begin(w, [pc |-> "create", on |-> p, role |-> role,
                               telegram |-> telegram, was |-> Directory!NoMetadata,
                               contacts |-> contacts, seen |-> {}, fields |-> fields, had |-> {},
                               needs |-> Directory!RequiredFor(role), nr |-> partiesCalls + 1])
  BY DEF Directory!CreateParty
<1> DEFINE r == [pc |-> "create", on |-> p, role |-> role, telegram |-> telegram,
                 was |-> Directory!NoMetadata, contacts |-> contacts, seen |-> {}, fields |-> fields, had |-> {},
                 needs |-> Directory!RequiredFor(role), nr |-> partiesCalls + 1]
<1>2. Directory!Free(w) /\ partiesCalls + 1 \in 1..MaxDirectoryCalls
  BY CallsAssumption DEF DirectoryInv, Directory!TypeOK, Directory!CreateParty, Directory!Free
<1>3. Directory!RequiredFor(role) \subseteq Fields
  BY DEF DirectoryInv, Directory!TypeOK, Directory!RequiredFor, Directory!Definitions
<1>4. r \in Directory!Calls /\ r # Directory!Idle
  BY <1>2, <1>3 DEF Directory!Calls, Directory!Writes, Directory!Idle, Directory!Metadata,
     Directory!NoMetadata
<1>5. DirectoryRequest(r)
  BY <1>1, UnsetAssumption DEF DirectoryRequest, Directory!Accepted
<1>6. QED
  BY <1>1, <1>2, <1>4, <1>5, DirectoryBegins

LEMMA DirectoryUpdates ==
  ASSUME DirectoryInv, NEW w \in Workers, Directory!UpdateParty(w)
  PROVE  DirectoryInv'
<1>1. PICK p \in Parties, role \in Roles \cup {Unset},
           telegram \in TelegramIds \cup {None, Unset},
           contacts \in {Unset} \cup SUBSET Contacts, fields \in {Unset} \cup SUBSET Fields :
        /\ parties[p] # Directory!Absent
        /\ Directory!Accepted(Directory!RoleAfter(parties[p].meta, role), fields)
        /\ Directory!Update(w, p, role, telegram, contacts, fields)
  BY DEF Directory!UpdateParty, Directory!Exists
<1> DEFINE needs == Directory!RequiredFor(Directory!RoleAfter(parties[p].meta, role))
           r == [pc |-> "update", on |-> p, role |-> role, telegram |-> telegram,
                 was |-> parties[p].meta, contacts |-> contacts,
                 seen |-> parties[p].contacts, fields |-> fields, had |-> values[p],
                 needs |-> needs, nr |-> partiesCalls + 1]
<1>2. Directory!Begin(w, r)
  BY <1>1 DEF Directory!Update
<1>3. Directory!Free(w) /\ partiesCalls + 1 \in 1..MaxDirectoryCalls
  BY CallsAssumption DEF DirectoryInv, Directory!TypeOK, Directory!UpdateParty, Directory!Free
<1>4. needs \subseteq Fields
  BY DEF DirectoryInv, Directory!TypeOK, Directory!RequiredFor, Directory!Definitions
<1>5. /\ parties[p].contacts \subseteq Directory!Methods /\ values[p] \subseteq Fields
      /\ parties[p].meta \in Directory!Metadata
  BY <1>1 DEF DirectoryInv, Directory!TypeOK, Directory!Rows
<1>6. fields # Unset => needs \subseteq fields
  BY <1>1 DEF Directory!Accepted
<1> HIDE DEF needs
<1>7. r \in Directory!Writes
  BY <1>3, <1>4, <1>5 DEF Directory!Writes
<1>8. r \in Directory!Calls /\ r # Directory!Idle
  BY <1>7 DEF Directory!Calls, Directory!Idle
<1>9. DirectoryRequest(r)
  BY <1>6 DEF DirectoryRequest
<1>10. QED
  BY <1>2, <1>3, <1>8, <1>9, DirectoryBegins

LEMMA DirectoryDeletes ==
  ASSUME DirectoryInv, NEW w \in Workers, Directory!DeleteParty(w)
  PROVE  DirectoryInv'
<1>1. Directory!Free(w) /\ \E p \in Parties : Directory!Begin(w, [pc |-> "delete", on |-> p])
  BY DEF Directory!DeleteParty
<1>a. PICK p \in Parties : Directory!Begin(w, [pc |-> "delete", on |-> p])
  BY <1>1
<1>2. DirectoryRequest([pc |-> "delete", on |-> p])
  BY DEF DirectoryRequest
<1>3. [pc |-> "delete", on |-> p] \in Directory!Calls /\ [pc |-> "delete", on |-> p] # Directory!Idle
  BY DEF Directory!Calls, Directory!Idle
<1>4. QED
  BY <1>1, <1>a, <1>2, <1>3, DirectoryBegins

\* Whatever ends a request on a party overtakes the others that have read it.
LEMMA DirectoryEnds ==
  ASSUME DirectoryInv, NEW w \in Workers, partiesCall[w] # Directory!Idle, Directory!Done(w),
         NEW p, p = partiesCall[w].on,
         \A q \in Parties \ {p} : parties'[q] = parties[q],
         parties' \in [Parties -> Directory!Rows \cup {Directory!Absent}],
         values' \in [Parties -> SUBSET Fields], given' \in [Parties -> Directory!Gifts],
         vetted' \in [Parties -> SUBSET Fields]
  PROVE  /\ Directory!TypeOK'
         /\ partiesCall' = [v \in Workers |-> partiesCall'[v]]
         /\ \A v \in Workers : partiesCall'[v] # Directory!Idle => DirectoryRequest(partiesCall[v])'
         /\ partiesOvertaken \subseteq partiesOvertaken'
<1>1. /\ partiesCall' = [partiesCall EXCEPT ![w] = Directory!Idle]
      /\ partiesOvertaken' = IF Directory!Overtakes(w) THEN partiesOvertaken \cup {p}
                             ELSE partiesOvertaken
      /\ UNCHANGED <<defs, partiesCalls>>
  BY DEF Directory!Done
<1>2. partiesCall[w] \in Directory!Calls \ {Directory!Idle}
  BY DEF DirectoryInv, Directory!TypeOK
<1>3. p \in Parties
  BY <1>2 DEF Directory!Calls, Directory!Writes
<1>4. Directory!TypeOK'
  BY <1>1, <1>3 DEF DirectoryInv, Directory!TypeOK, Directory!Calls
<1>5. partiesCall' = [v \in Workers |-> partiesCall'[v]]
  BY <1>1 DEF DirectoryInv
<1>6. ASSUME NEW v \in Workers, partiesCall'[v] # Directory!Idle
      PROVE  DirectoryRequest(partiesCall[v])'
  <2>1. v # w /\ partiesCall'[v] = partiesCall[v]
    BY <1>1, <1>6 DEF DirectoryInv
  <2>2. partiesCall[v] \in Directory!Calls /\ DirectoryRequest(partiesCall[v])
    BY <1>6, <2>1 DEF DirectoryInv, Directory!TypeOK
  <2>3. CASE partiesCall[v].on = p
    BY <1>1, <1>6, <2>1, <2>2, <2>3 DEF DirectoryRequest, Directory!Overtakes
  <2>4. CASE partiesCall[v].on # p
    <3>1. partiesCall[v].pc = "update" => partiesCall[v].on \in Parties
      BY <2>2 DEF Directory!Calls, Directory!Writes, Directory!Idle
    <3>2. QED
      BY <1>1, <2>1, <2>2, <2>4, <3>1 DEF DirectoryRequest, Directory!Absent
  <2>5. QED
    BY <2>3, <2>4
<1>7. QED
  BY <1>1, <1>4, <1>5, <1>6

\* What a commit notes of the request.
LEMMA DirectoryNotes ==
  ASSUME DirectoryInv, NEW r \in Directory!Writes, DirectoryRequest(r), Directory!Noted(r),
         r.pc \in {"create", "update"}
  PROVE  /\ values' \in [Parties -> SUBSET Fields] /\ given' \in [Parties -> Directory!Gifts]
         /\ vetted' \in [Parties -> SUBSET Fields]
         /\ \A q \in Parties : vetted'[q] \subseteq values'[q]
         /\ \A q \in Parties \ {r.on} : given'[q] = given[q]
         /\ given'[r.on].contacts = IF r.contacts = Unset THEN given[r.on].contacts ELSE r.contacts
         /\ given'[r.on].telegram = IF r.telegram = Unset THEN given[r.on].telegram ELSE r.telegram
<1>1. /\ r.on \in Parties /\ r.contacts \in {Unset} \cup SUBSET Contacts
      /\ r.telegram \in TelegramIds \cup {None, Unset}
      /\ r.fields \in {Unset} \cup SUBSET Fields /\ r.needs \subseteq Fields
  BY DEF Directory!Writes
<1>2. Directory!TypeOK /\ \A q \in Parties : vetted[q] \subseteq values[q]
  BY DEF DirectoryInv
<1>3. r.fields # Unset => r.needs \subseteq r.fields
  BY DEF DirectoryRequest
<1>4. values' \in [Parties -> SUBSET Fields] /\ vetted' \in [Parties -> SUBSET Fields]
  BY <1>1, <1>2 DEF Directory!Noted, Directory!TypeOK
<1>5. given' \in [Parties -> Directory!Gifts]
  BY <1>1, <1>2 DEF Directory!Noted, Directory!TypeOK, Directory!Gifts
<1>6. ASSUME NEW q \in Parties
      PROVE  vetted'[q] \subseteq values'[q]
  BY <1>1, <1>2, <1>3 DEF Directory!Noted, Directory!TypeOK
<1>7. QED
  BY <1>1, <1>2, <1>4, <1>5, <1>6 DEF Directory!Noted, Directory!TypeOK

\* What a commit leaves of the contact methods.
LEMMA DirectoryContents ==
  ASSUME NEW r \in Directory!Writes, NEW before \in SUBSET Directory!Methods
  PROVE  /\ Directory!Contents(r, before) \in SUBSET Directory!Methods
         /\ r.contacts = Unset => Directory!Contents(r, before) = before
         /\ r.contacts # Unset /\ before \subseteq r.seen =>
              /\ \A m \in Directory!Contents(r, before) : m.contact \in r.contacts
              /\ \A c \in r.contacts : \E m \in Directory!Contents(r, before) : m.contact = c
<1> DEFINE made == {[contact |-> c, by |-> r.nr] : c \in r.contacts}
<1>1. CASE r.contacts = Unset
  BY <1>1 DEF Directory!Contents
<1>2. CASE r.contacts # Unset
  <2>1. Directory!Contents(r, before) = (before \ r.seen) \cup made
    BY <1>2 DEF Directory!Contents
  <2>2. r.contacts \in SUBSET Contacts /\ r.nr \in 1..MaxDirectoryCalls
    BY <1>2 DEF Directory!Writes
  <2>3. made \subseteq Directory!Methods
    BY <2>2 DEF Directory!Methods
  <2>4. \A m \in made : m.contact \in r.contacts
    OBVIOUS
  <2>5. ASSUME NEW c \in r.contacts
        PROVE  \E m \in made : m.contact = c
    <3>1. [contact |-> c, by |-> r.nr] \in made /\ [contact |-> c, by |-> r.nr].contact = c
      OBVIOUS
    <3>2. QED
      BY <3>1
  <2> HIDE DEF made
  <2>6. QED
    BY <1>2, <2>1, <2>3, <2>4, <2>5
<1>3. QED
  BY <1>1, <1>2

LEMMA DirectoryCommits ==
  ASSUME DirectoryInv, NEW w \in Workers, Directory!CommitCreate(w) \/ Directory!CommitUpdate(w)
  PROVE  DirectoryInv'
<1>a. PICK r : r = partiesCall[w]
  OBVIOUS
<1>b. PICK p : p = r.on
  OBVIOUS
<1>1. /\ r.pc \in {"create", "update"} /\ r # Directory!Idle
      /\ Directory!Noted(r) /\ Directory!Done(w)
  BY <1>a DEF Directory!CommitCreate, Directory!CommitUpdate, Directory!Idle
<1>2. Directory!TypeOK
  BY DEF DirectoryInv
<1>3. r \in Directory!Writes /\ DirectoryRequest(r)
  BY <1>a, <1>1, <1>2 DEF Directory!TypeOK, Directory!Calls, DirectoryInv
<1>4. /\ p \in Parties /\ r.role \in Roles \cup {None, Unset}
      /\ r.telegram \in TelegramIds \cup {None, Unset} /\ r.was \in Directory!Metadata
      /\ r.pc = "create" => r.telegram # Unset
  BY <1>b, <1>3 DEF Directory!Writes, DirectoryRequest
<1>. DEFINE after == Directory!MetadataAfter(r.was, r.role, r.telegram)
<1>5a. /\ after \in Directory!Metadata
       /\ after.telegram = IF r.telegram = Unset THEN r.was.telegram ELSE r.telegram
  BY <1>4 DEF Directory!MetadataAfter, Directory!RoleAfter, Directory!Metadata
<1>. HIDE DEF after
<1>5. PICK before \in SUBSET Directory!Methods, meta \in Directory!Metadata :
        /\ parties' = [parties EXCEPT ![p] = [meta |-> meta,
                                              contacts |-> Directory!Contents(r, before)]]
        /\ r.pc = "create" => before = {} /\ meta = after
        /\ r.pc = "update" => /\ parties[p] # Directory!Absent /\ before = parties[p].contacts
                              /\ meta = IF after = r.was THEN parties[p].meta ELSE after
  <2>1. CASE Directory!CommitCreate(w)
    <3>1. r.pc = "create"
          /\ parties' = [parties EXCEPT ![p] = [meta |-> after,
                                                contacts |-> Directory!Contents(r, {})]]
      BY <1>a, <1>b, <2>1 DEF Directory!CommitCreate, after
    <3>2. QED
      BY <1>5a, <3>1
  <2>2. CASE Directory!CommitUpdate(w)
    <3>1. /\ r.pc = "update" /\ parties[p] # Directory!Absent
          /\ parties' = [parties EXCEPT ![p] =
                           [meta |-> IF after = r.was THEN parties[p].meta ELSE after,
                            contacts |-> Directory!Contents(r, parties[p].contacts)]]
      BY <1>a, <1>b, <2>2 DEF Directory!CommitUpdate, Directory!Exists, Directory!MetadataWritten,
         after
    <3>2. parties[p] \in Directory!Rows
      BY <1>2, <1>4, <3>1 DEF Directory!TypeOK
    <3>3. parties[p].contacts \in SUBSET Directory!Methods /\ parties[p].meta \in Directory!Metadata
      BY <3>2 DEF Directory!Rows
    <3>4. (IF after = r.was THEN parties[p].meta ELSE after) \in Directory!Metadata
      BY <1>5a, <3>3
    <3>5. QED
      BY <3>1, <3>3, <3>4
  <2>3. QED
    BY <2>1, <2>2
<1>6. /\ \A q \in Parties \ {p} : parties'[q] = parties[q]
      /\ parties'[p] = [meta |-> meta, contacts |-> Directory!Contents(r, before)]
  BY <1>2, <1>4, <1>5 DEF Directory!TypeOK
<1>7. parties' \in [Parties -> Directory!Rows \cup {Directory!Absent}]
  BY <1>2, <1>3, <1>4, <1>5, DirectoryContents DEF Directory!TypeOK, Directory!Rows
<1>8. /\ values' \in [Parties -> SUBSET Fields] /\ given' \in [Parties -> Directory!Gifts]
      /\ vetted' \in [Parties -> SUBSET Fields]
      /\ \A q \in Parties : vetted'[q] \subseteq values'[q]
      /\ \A q \in Parties \ {p} : given'[q] = given[q]
      /\ given'[p].contacts = IF r.contacts = Unset THEN given[p].contacts ELSE r.contacts
      /\ given'[p].telegram = IF r.telegram = Unset THEN given[p].telegram ELSE r.telegram
  BY <1>b, <1>1, <1>3, DirectoryNotes
<1>9. /\ Directory!TypeOK'
      /\ partiesCall' = [v \in Workers |-> partiesCall'[v]]
      /\ \A v \in Workers : partiesCall'[v] # Directory!Idle => DirectoryRequest(partiesCall[v])'
      /\ partiesOvertaken \subseteq partiesOvertaken'
  BY <1>a, <1>b, <1>1, <1>6, <1>7, <1>8, DirectoryEnds
<1>10. ASSUME p \notin partiesOvertaken'
       PROVE  PartyRow(p)'
  <2>1. p \notin partiesOvertaken
    BY <1>9, <1>10
  <2>2. r.pc = "update" => PartyRow(p) /\ r.seen = parties[p].contacts /\ r.was = parties[p].meta
    BY <1>b, <1>3, <1>4, <1>5, <2>1 DEF DirectoryInv, DirectoryRequest
  <2>3. parties'[p].meta.telegram = given'[p].telegram
    BY <1>1, <1>4, <1>5a, <1>5, <1>6, <1>8, <2>2 DEF PartyRow
  <2>4. parties'[p].contacts = Directory!Contents(r, before)
    BY <1>6
  <2>5. CASE r.contacts = Unset
    <3>1. r.pc = "update"
      BY <1>1, <1>3, <2>5 DEF DirectoryRequest
    <3>2. parties'[p].contacts = parties[p].contacts /\ given'[p].contacts = given[p].contacts
      BY <1>3, <1>5, <1>8, <2>4, <2>5, <3>1, DirectoryContents
    <3>3. QED
      BY <2>2, <2>3, <3>1, <3>2 DEF PartyRow
  <2>6. CASE r.contacts # Unset
    <3>1. before \subseteq r.seen
      BY <1>1, <1>5, <2>2
    <3>2. given'[p].contacts = r.contacts
      BY <1>8, <2>6
    <3>3. QED
      BY <1>3, <2>3, <2>4, <2>6, <3>1, <3>2, DirectoryContents DEF PartyRow
  <2>7. QED
    BY <2>5, <2>6
<1>11. ASSUME NEW q \in Parties, parties'[q] # Directory!Absent, q \notin partiesOvertaken'
       PROVE  PartyRow(q)'
  <2>1. CASE q = p
    BY <1>10, <1>11, <2>1
  <2>2. CASE q # p
    <3>1. PartyRow(q) /\ parties'[q] = parties[q] /\ given'[q] = given[q]
      BY <1>6, <1>8, <1>9, <1>11, <2>2 DEF DirectoryInv
    <3>2. QED
      BY <3>1 DEF PartyRow
  <2>3. QED
    BY <2>1, <2>2
<1>12. QED
  BY <1>8, <1>9, <1>11 DEF DirectoryInv, Directory!Absent, Directory!Idle

LEMMA DirectoryStep ==
  ASSUME DirectoryInv, [Directory!Next]_directoryVars
  PROVE  DirectoryInv'
<1>1. Directory!TypeOK
  BY DEF DirectoryInv
<1>2. ASSUME NEW w \in Workers, Directory!CommitDelete(w)
      PROVE  DirectoryInv'
  <2>a. PICK p : p = partiesCall[w].on
    OBVIOUS
  <2>1. /\ partiesCall[w] # Directory!Idle /\ Directory!Done(w)
        /\ parties' = [parties EXCEPT ![p] = Directory!Absent]
        /\ UNCHANGED <<values, given, vetted>>
    BY <1>2, <2>a DEF Directory!CommitDelete, Directory!Idle
  <2>2. p \in Parties
    <3>1. partiesCall[w] \in Directory!Calls \ {Directory!Idle}
      BY <1>1, <2>1 DEF Directory!TypeOK
    <3>2. QED
      BY <2>a, <3>1 DEF Directory!Calls, Directory!Writes
  <2>3. /\ parties' \in [Parties -> Directory!Rows \cup {Directory!Absent}]
        /\ parties'[p] = Directory!Absent
        /\ \A q \in Parties \ {p} : parties'[q] = parties[q]
    BY <1>1, <2>1, <2>2 DEF Directory!TypeOK
  <2>4. /\ values' \in [Parties -> SUBSET Fields] /\ given' \in [Parties -> Directory!Gifts]
        /\ vetted' \in [Parties -> SUBSET Fields]
    BY <1>1, <2>1 DEF Directory!TypeOK
  <2>5. /\ Directory!TypeOK'
        /\ partiesCall' = [v \in Workers |-> partiesCall'[v]]
        /\ \A v \in Workers : partiesCall'[v] # Directory!Idle => DirectoryRequest(partiesCall[v])'
        /\ partiesOvertaken \subseteq partiesOvertaken'
    BY <2>a, <2>1, <2>3, <2>4, DirectoryEnds
  <2>6. ASSUME NEW q \in Parties, parties'[q] # Directory!Absent, q \notin partiesOvertaken'
        PROVE  PartyRow(q)'
    <3>1. q # p /\ PartyRow(q)
      BY <2>3, <2>5, <2>6 DEF DirectoryInv
    <3>2. QED
      BY <2>1, <2>3, <3>1 DEF PartyRow
  <2>7. QED
    BY <2>1, <2>5, <2>6 DEF DirectoryInv, Directory!Absent, Directory!Idle
<1>3. ASSUME NEW w \in Workers, Directory!Fail(w)
      PROVE  DirectoryInv'
  <2>1. /\ partiesCall' = [partiesCall EXCEPT ![w] = Directory!Idle]
        /\ UNCHANGED <<parties, values, defs, given, vetted, partiesOvertaken, partiesCalls>>
    BY <1>3 DEF Directory!Fail
  <2>2. Directory!TypeOK'
    BY <1>1, <2>1 DEF DirectoryInv, Directory!TypeOK, Directory!Calls
  <2>3. /\ partiesCall' = [v \in Workers |-> partiesCall'[v]]
        /\ \A v \in Workers : partiesCall'[v] # Directory!Idle => partiesCall'[v] = partiesCall[v]
    BY <2>1 DEF DirectoryInv
  <2>4. QED
    BY <2>1, <2>2, <2>3 DEF DirectoryInv, PartyRow, DirectoryRequest, Directory!Absent,
       Directory!Idle
<1>4. CASE Directory!DefineFields
  <2>1. /\ defs' \subseteq Fields
        /\ UNCHANGED <<parties, values, partiesCall, given, vetted, partiesOvertaken, partiesCalls>>
    BY <1>1, <1>4 DEF Directory!DefineFields, Directory!TypeOK
  <2>2. Directory!TypeOK'
    BY <1>1, <2>1 DEF Directory!TypeOK
  <2>3. QED
    BY <2>1, <2>2 DEF DirectoryInv, PartyRow, DirectoryRequest, Directory!Absent, Directory!Idle
<1>5. CASE UNCHANGED directoryVars
  BY <1>1, <1>5 DEF directoryVars, DirectoryInv, Directory!TypeOK, PartyRow, DirectoryRequest,
     Directory!Absent, Directory!Idle
<1>6. QED
  BY <1>2, <1>3, <1>4, <1>5, DirectoryCreates, DirectoryUpdates, DirectoryDeletes, DirectoryCommits
     DEF Directory!Next

\* Unless requests overlapped on a party, a search answers it for the contacts and the
\* Telegram id it was given last and for no other, up to its limit; and the party always
\* has the fields its role was checked for.
THEOREM DirectoryIsConsistent == OfficeSpec => []DirectoryConsistent
<1>1. ASSUME OfficeInit
      PROVE  DirectoryInv
  <2>1. /\ parties = [p \in Parties |-> Directory!Absent] /\ values = [p \in Parties |-> {}]
        /\ defs = {} /\ partiesCall = [w \in Workers |-> Directory!Idle]
        /\ given = [p \in Parties |-> Directory!NothingGiven] /\ vetted = [p \in Parties |-> {}]
        /\ partiesOvertaken = {} /\ partiesCalls = 0
    BY <1>1 DEF OfficeInit, Directory!Init
  <2>2. Directory!TypeOK
    BY <2>1, CallsAssumption DEF Directory!TypeOK, Directory!Calls, Directory!Gifts,
       Directory!NothingGiven
  <2>3. QED
    BY <2>1, <2>2 DEF DirectoryInv
<1>2. DirectoryInv /\ [OfficeNext]_<<focus, vars, modulesVars, signingVars, agentsVars,
                                     directoryVars, setupVars>> => DirectoryInv'
  BY DirectoryStep DEF OfficeNext
<1>3. ASSUME DirectoryInv
      PROVE  DirectoryConsistent
  <2>1. ASSUME NEW p \in Parties, parties[p] # Directory!Absent, p \notin partiesOvertaken,
               NEW queries \in SUBSET Queries, NEW hits \in Directory!MatchParties(queries)
        PROVE  /\ p \in hits => Directory!Gave(p, queries)
               /\ Directory!Gave(p, queries) => p \in hits \/ Directory!Full(hits)
    <3>1. PartyRow(p)
      BY <1>3, <2>1 DEF DirectoryInv
    <3>2. Directory!Matches(p, queries) <=> Directory!Gave(p, queries)
      BY <3>1 DEF Directory!Matches, Directory!Gave, PartyRow
    <3>3. p \in Directory!ExactMatches(queries) <=> Directory!Gave(p, queries)
      BY <2>1, <3>2 DEF Directory!ExactMatches, Directory!Exists
    <3>4. /\ hits \subseteq Directory!ExactMatches(queries)
          /\ hits = Directory!ExactMatches(queries) \/ Directory!Full(hits)
      BY <2>1 DEF Directory!MatchParties
    <3>5. QED
      BY <3>3, <3>4
  <2>2. QED
    BY <1>3, <2>1 DEF DirectoryInv, DirectoryConsistent, Directory!DirectoryConsistent,
       Directory!Exists
<1>4. QED
  BY <1>1, <1>2, <1>3, PTL DEF OfficeSpec

-----------------------------------------------------------------------------
(* The setup of tenants.  Tenants and owners are never removed, entries    *)
(* and members only ever come, and requests about a tenant start when it   *)
(* exists; so a tenant is created over nothing, and what a template apply  *)
(* skips is still there when it commits.                                   *)

SetupRequest(r) ==
  /\ r.pc \in {"apply", "add user", "add member", "flushed"} => tenants[r.slug] # Setup!Absent
  /\ r.pc = "apply" => r.had \subseteq tenants[r.slug].entries

SetupTenant(s) ==
  IF tenants[s] = Setup!Absent THEN members[s] = {}
  ELSE tenants[s].modules = TRUE /\ applied[s] \subseteq tenants[s].entries

SetupAccount(email) ==
  \/ \E k \in Companies : owners[k] = email
  \/ \E s \in Slugs : email \in members[s]

SetupInv ==
  /\ Setup!TypeOK
  /\ setupCall = [w \in Workers |-> setupCall[w]]
  /\ \A s \in Slugs : SetupTenant(s)
  /\ \A email \in users : SetupAccount(email)
  /\ \A w \in Workers : setupCall[w] # Setup!Idle => SetupRequest(setupCall[w])

SetupRequests == Setup!Registrations \cup Setup!TenantCalls \cup Setup!MemberCalls

LEMMA SetupBegins ==
  ASSUME SetupInv, NEW w \in Workers, NEW r \in SetupRequests,
         SetupRequest(r), Setup!Begin(w, r)
  PROVE  SetupInv'
<1>1. /\ setupCall' = [setupCall EXCEPT ![w] = r]
      /\ setupCalls < MaxSetupCalls /\ setupCalls' = setupCalls + 1
      /\ UNCHANGED <<owners, users, templates, tenants, members, told, applied>>
  BY DEF Setup!Begin
<1>2. Setup!TypeOK'
  BY <1>1, CallsAssumption DEF SetupInv, SetupRequests, Setup!TypeOK
<1>3. /\ setupCall' = [v \in Workers |-> setupCall'[v]]
      /\ \A v \in Workers : setupCall'[v] # Setup!Idle =>
           setupCall'[v] = r \/ (setupCall'[v] = setupCall[v] /\ setupCall[v] # Setup!Idle)
  BY <1>1 DEF SetupInv
<1>4. ASSUME NEW v \in Workers, setupCall'[v] # Setup!Idle
      PROVE  SetupRequest(setupCall[v])'
  BY <1>1, <1>3, <1>4 DEF SetupInv, SetupRequest, Setup!Absent
<1>5. QED
  BY <1>1, <1>2, <1>3, <1>4 DEF SetupInv, SetupTenant, SetupAccount, Setup!Absent, Setup!Idle

LEMMA SetupAsks ==
  ASSUME SetupInv, NEW w \in Workers, Setup!Ask(w)
  PROVE  SetupInv'
<1>0. Setup!TypeOK
  BY DEF SetupInv
<1>1. CASE Setup!RegisterProviderOwner(w)
  <2>1. PICK email \in Emails, company \in Companies :
          Setup!Begin(w, [pc |-> "register", email |-> email, company |-> company])
    BY <1>1 DEF Setup!RegisterProviderOwner
  <2>2. [pc |-> "register", email |-> email, company |-> company] \in SetupRequests
    BY DEF SetupRequests, Setup!Registrations
  <2>3. SetupRequest([pc |-> "register", email |-> email, company |-> company])
    BY DEF SetupRequest
  <2>4. QED
    BY <2>1, <2>2, <2>3, SetupBegins
<1>2. CASE Setup!CreateTenant(w)
  <2>1. PICK s \in Slugs, email \in Emails \cup {None}, t \in Templates \cup {None} :
          Setup!Begin(w, [pc |-> "create tenant", slug |-> s, template |-> t, had |-> {},
                          owner |-> IF email \in users THEN email ELSE None,
                          entries |-> Setup!Entries(t)])
    BY <1>2 DEF Setup!CreateTenant, Setup!BeginAsOwner
  <2> DEFINE r == [pc |-> "create tenant", slug |-> s, template |-> t, had |-> {},
                   owner |-> IF email \in users THEN email ELSE None,
                   entries |-> Setup!Entries(t)]
  <2>2. Setup!Entries(t) \subseteq EntryCodes
    BY <1>0 DEF Setup!Entries, Setup!TypeOK, Setup!TemplateRows
  <2>3. r \in SetupRequests
    BY <2>2 DEF SetupRequests, Setup!TenantCalls
  <2>4. SetupRequest(r)
    BY DEF SetupRequest
  <2>5. QED
    BY <2>1, <2>3, <2>4, SetupBegins
<1>3. CASE Setup!ApplyToTenant(w)
  <2>1. PICK s \in Slugs, t \in Templates :
          /\ tenants[s] # Setup!Absent
          /\ Setup!Begin(w, [pc |-> "apply", slug |-> s, template |-> t, owner |-> None,
                             had |-> tenants[s].entries, entries |-> Setup!Entries(t)])
    BY <1>3 DEF Setup!ApplyToTenant, Setup!BeginAsOwner, Setup!Exists
  <2> DEFINE r == [pc |-> "apply", slug |-> s, template |-> t, owner |-> None,
                   had |-> tenants[s].entries, entries |-> Setup!Entries(t)]
  <2>2. Setup!Entries(t) \subseteq EntryCodes /\ tenants[s].entries \subseteq EntryCodes
    BY <1>0, <2>1 DEF Setup!Entries, Setup!TypeOK, Setup!TemplateRows, Setup!Rows
  <2>3. r \in SetupRequests
    BY <2>2 DEF SetupRequests, Setup!TenantCalls
  <2>4. SetupRequest(r)
    BY <2>1 DEF SetupRequest
  <2>5. QED
    BY <2>1, <2>3, <2>4, SetupBegins
<1>4. CASE Setup!UpdateTemplate(w)
  <2>1. /\ templates' \in [Templates -> Setup!TemplateRows]
        /\ setupCalls' \in 0..MaxSetupCalls
        /\ UNCHANGED <<owners, users, tenants, members, setupCall, told, applied>>
    BY <1>0, <1>4, CallsAssumption DEF Setup!UpdateTemplate, Setup!TypeOK
  <2>2. Setup!TypeOK'
    BY <1>0, <2>1 DEF Setup!TypeOK
  <2>3. QED
    BY <2>1, <2>2 DEF SetupInv, SetupRequest, SetupTenant, SetupAccount, Setup!Absent, Setup!Idle
<1>5. CASE Setup!CreateTenantUser(w) \/ Setup!AddMembership(w)
  <2>1. PICK s \in Slugs, email \in Emails, pc \in {"add user", "add member"} :
          /\ tenants[s] # Setup!Absent
          /\ Setup!Begin(w, [pc |-> pc, slug |-> s, email |-> email])
    BY <1>5 DEF Setup!CreateTenantUser, Setup!AddMembership, Setup!BeginAsOwner, Setup!Exists
  <2>2. [pc |-> pc, slug |-> s, email |-> email] \in SetupRequests
    BY DEF SetupRequests, Setup!MemberCalls
  <2>3. SetupRequest([pc |-> pc, slug |-> s, email |-> email])
    BY <2>1 DEF SetupRequest
  <2>4. QED
    BY <2>1, <2>2, <2>3, SetupBegins
<1>6. QED
  BY <1>1, <1>2, <1>3, <1>4, <1>5 DEF Setup!Ask

\* What a request that goes on or ends leaves of the others.
LEMMA SetupEnds ==
  ASSUME SetupInv, NEW w \in Workers, NEW next \in SetupRequests \cup {Setup!Idle},
         next # Setup!Idle => SetupRequest(next)',
         setupCall' = [setupCall EXCEPT ![w] = next],
         \A s \in Slugs : tenants[s] # Setup!Absent =>
           tenants'[s] # Setup!Absent /\ tenants[s].entries \subseteq tenants'[s].entries
  PROVE  /\ \A v \in Workers : setupCall'[v] \in SetupRequests \cup {Setup!Idle}
         /\ setupCall' = [v \in Workers |-> setupCall'[v]]
         /\ \A v \in Workers : setupCall'[v] # Setup!Idle => SetupRequest(setupCall[v])'
<1>1. /\ setupCall' = [v \in Workers |-> setupCall'[v]]
      /\ setupCall'[w] = next
      /\ \A v \in Workers \ {w} : setupCall'[v] = setupCall[v]
  BY DEF SetupInv
<1>2. \A v \in Workers : setupCall[v] \in SetupRequests \cup {Setup!Idle}
  BY DEF SetupInv, SetupRequests, Setup!TypeOK
<1>3. ASSUME NEW v \in Workers, setupCall'[v] # Setup!Idle
      PROVE  SetupRequest(setupCall[v])'
  <2>1. CASE v = w
    BY <1>1, <1>3, <2>1 DEF SetupRequest, Setup!Absent
  <2>2. CASE v # w
    <3>1. setupCall[v] \in SetupRequests /\ SetupRequest(setupCall[v])
      BY <1>1, <1>2, <1>3, <2>2 DEF SetupInv
    <3>2. setupCall[v].pc \in {"apply", "add user", "add member", "flushed"} =>
            setupCall[v].slug \in Slugs
      BY <3>1 DEF SetupRequests, Setup!Registrations, Setup!TenantCalls, Setup!MemberCalls
    <3>3. QED
      BY <1>1, <2>2, <3>1, <3>2 DEF SetupRequest, Setup!Absent
  <2>3. QED
    BY <2>1, <2>2
<1>4. QED
  BY <1>1, <1>2, <1>3

LEMMA SetupContinues ==
  ASSUME SetupInv, NEW w \in Workers, Setup!Continue(w)
  PROVE  SetupInv'
<1>0. Setup!TypeOK
  BY DEF SetupInv
<1>a. PICK r : r = setupCall[w]
  OBVIOUS
<1>b. /\ r \in SetupRequests \cup {Setup!Idle}
      /\ r # Setup!Idle => SetupRequest(r)
  BY <1>a, <1>0 DEF SetupInv, SetupRequests, Setup!TypeOK
<1>c. Setup!Idle \in SetupRequests \cup {Setup!Idle} /\ Setup!Idle.pc = "idle"
  BY DEF Setup!Idle
<1>1. CASE Setup!CommitRegistration(w)
  <2>1. /\ r.pc = "register" /\ owners[r.company] = None
        /\ users' = users \cup {r.email} /\ owners' = [owners EXCEPT ![r.company] = r.email]
        /\ setupCall' = [setupCall EXCEPT ![w] = Setup!Idle]
        /\ UNCHANGED <<tenants, members, applied, templates, told, setupCalls>>
    BY <1>a, <1>1 DEF Setup!CommitRegistration, Setup!Finish
  <2>2. r.email \in Emails /\ r.company \in Companies
    BY <1>b, <1>c, <2>1 DEF SetupRequests, Setup!Registrations, Setup!TenantCalls, Setup!MemberCalls
  <2>3. owners' \in [Companies -> Emails \cup {None}] /\ owners'[r.company] = r.email
    BY <1>0, <2>1, <2>2 DEF Setup!TypeOK
  <2>4. SetupAccount(r.email)'
    BY <2>2, <2>3 DEF SetupAccount
  <2>5. \A k \in Companies : owners[k] = None \/ owners'[k] = owners[k]
    BY <1>0, <2>1 DEF Setup!TypeOK
  <2>6. /\ \A s \in Slugs : SetupTenant(s)'
        /\ \A email \in users' : SetupAccount(email)'
    <3>1. \A s \in Slugs : SetupTenant(s)'
      BY <2>1 DEF SetupInv, SetupTenant, Setup!Absent
    <3>2. ASSUME NEW email \in users
          PROVE  SetupAccount(email)'
      <4>1. SetupAccount(email) /\ email # None
        BY <1>0, NoneAssumption DEF SetupInv, Setup!TypeOK
      <4>2. QED
        BY <2>1, <2>5, <4>1 DEF SetupAccount
    <3>3. QED
      BY <2>1, <2>4, <3>1, <3>2
  <2>7. /\ \A v \in Workers : setupCall'[v] \in SetupRequests \cup {Setup!Idle}
        /\ setupCall' = [v \in Workers |-> setupCall'[v]]
        /\ \A v \in Workers : setupCall'[v] # Setup!Idle => SetupRequest(setupCall[v])'
    BY <1>c, <2>1, SetupEnds
  <2>8. Setup!TypeOK'
    BY <1>0, <2>1, <2>2, <2>3, <2>7 DEF Setup!TypeOK, SetupRequests
  <2>9. QED
    BY <2>6, <2>7, <2>8 DEF SetupInv, Setup!Idle
<1>2. CASE Setup!CommitTenant(w)
  <2>1. /\ r.pc = "create tenant" /\ tenants[r.slug] = Setup!Absent
        /\ tenants' = [tenants EXCEPT ![r.slug] = Setup!Provisioned(r)]
        /\ members' = [members EXCEPT ![r.slug] = {r.owner} \ {None}]
        /\ applied' = [applied EXCEPT ![r.slug] = r.entries]
        /\ setupCall' = [setupCall EXCEPT ![w] = Setup!Idle]
        /\ UNCHANGED <<owners, users, templates, told, setupCalls>>
    BY <1>a, <1>2 DEF Setup!CommitTenant, Setup!Finish, Setup!Exists
  <2>2. /\ r.slug \in Slugs /\ r.owner \in Emails \cup {None} /\ r.entries \subseteq EntryCodes
        /\ r.template \in Templates \cup {None}
    BY <1>b, <1>c, <2>1 DEF SetupRequests, Setup!Registrations, Setup!TenantCalls, Setup!MemberCalls
  <2>3. /\ Setup!Provisioned(r) \in Setup!Rows /\ Setup!Provisioned(r) # Setup!Absent
        /\ Setup!Provisioned(r).modules = TRUE /\ Setup!Provisioned(r).entries = r.entries
    BY <2>2 DEF Setup!Provisioned, Setup!Rows, Setup!Absent
  <2>4. /\ tenants'[r.slug] = Setup!Provisioned(r) /\ applied'[r.slug] = r.entries
        /\ \A s \in Slugs \ {r.slug} : /\ tenants'[s] = tenants[s] /\ applied'[s] = applied[s]
                                       /\ members'[s] = members[s]
    BY <1>0, <2>1, <2>2 DEF Setup!TypeOK
  <2>5. ASSUME NEW s \in Slugs
        PROVE  SetupTenant(s)'
    <3>1. CASE s = r.slug
      BY <2>3, <2>4, <3>1 DEF SetupTenant, Setup!Absent
    <3>2. CASE s # r.slug
      BY <2>4, <3>2 DEF SetupInv, SetupTenant, Setup!Absent
    <3>3. QED
      BY <3>1, <3>2
  <2>6. members[r.slug] = {}
    BY <2>1, <2>2 DEF SetupInv, SetupTenant
  <2>7. \A email \in users' : SetupAccount(email)'
    BY <2>1, <2>4, <2>6 DEF SetupInv, SetupAccount
  <2>8. /\ \A v \in Workers : setupCall'[v] \in SetupRequests \cup {Setup!Idle}
        /\ setupCall' = [v \in Workers |-> setupCall'[v]]
        /\ \A v \in Workers : setupCall'[v] # Setup!Idle => SetupRequest(setupCall[v])'
    BY <1>c, <2>1, <2>4, SetupEnds
  <2>9. Setup!TypeOK'
    BY <1>0, <2>1, <2>2, <2>3, <2>8 DEF Setup!TypeOK, SetupRequests
  <2>10. QED
    BY <2>5, <2>7, <2>8, <2>9 DEF SetupInv, Setup!Idle
<1>3. CASE Setup!CommitTemplate(w)
  <2>1. /\ r.pc = "apply"
        /\ tenants' = [tenants EXCEPT ![r.slug].template = r.template,
                                      ![r.slug].entries = @ \cup (r.entries \ r.had)]
        /\ applied' = [applied EXCEPT ![r.slug] = @ \cup r.entries]
        /\ setupCall' = [setupCall EXCEPT ![w] = Setup!Idle]
        /\ UNCHANGED <<owners, users, members, templates, told, setupCalls>>
    BY <1>a, <1>3 DEF Setup!CommitTemplate, Setup!Finish, Setup!Missing
  <2>2. /\ r.slug \in Slugs /\ r.entries \subseteq EntryCodes
        /\ r.template \in Templates \cup {None}
        /\ tenants[r.slug] # Setup!Absent /\ r.had \subseteq tenants[r.slug].entries
    BY <1>b, <1>c, <2>1 DEF SetupRequests, Setup!Registrations, Setup!TenantCalls,
       Setup!MemberCalls, SetupRequest
  <2>3. tenants[r.slug] \in Setup!Rows /\ tenants[r.slug].modules = TRUE
    BY <1>0, <2>2 DEF SetupInv, SetupTenant, Setup!TypeOK
  <2> DEFINE new == [tenants[r.slug] EXCEPT !.template = r.template,
                                            !.entries = @ \cup (r.entries \ r.had)]
  <2>4. /\ new \in Setup!Rows /\ new # Setup!Absent /\ new.modules = TRUE
        /\ new.entries = tenants[r.slug].entries \cup (r.entries \ r.had)
    BY <2>2, <2>3 DEF Setup!Rows, Setup!Absent
  <2>5. /\ tenants' = [tenants EXCEPT ![r.slug] = new]
        /\ tenants'[r.slug] = new
        /\ applied'[r.slug] = applied[r.slug] \cup r.entries
        /\ \A s \in Slugs \ {r.slug} : tenants'[s] = tenants[s] /\ applied'[s] = applied[s]
    BY <1>0, <2>1, <2>2 DEF Setup!TypeOK
  <2> HIDE DEF new
  <2>6. ASSUME NEW s \in Slugs
        PROVE  SetupTenant(s)'
    <3>1. CASE s = r.slug
      BY <2>2, <2>4, <2>5, <3>1 DEF SetupInv, SetupTenant, Setup!Absent
    <3>2. CASE s # r.slug
      BY <2>1, <2>5, <3>2 DEF SetupInv, SetupTenant, Setup!Absent
    <3>3. QED
      BY <3>1, <3>2
  <2>7. \A email \in users' : SetupAccount(email)'
    BY <2>1 DEF SetupInv, SetupAccount
  <2>8. /\ \A v \in Workers : setupCall'[v] \in SetupRequests \cup {Setup!Idle}
        /\ setupCall' = [v \in Workers |-> setupCall'[v]]
        /\ \A v \in Workers : setupCall'[v] # Setup!Idle => SetupRequest(setupCall[v])'
    BY <1>c, <2>1, <2>4, <2>5, SetupEnds
  <2>9. Setup!TypeOK'
    <3>1. tenants' \in [Slugs -> Setup!Rows \cup {Setup!Absent}]
      BY <1>0, <2>4, <2>5 DEF Setup!TypeOK
    <3>2. applied' \in [Slugs -> SUBSET EntryCodes]
      BY <1>0, <2>1, <2>2 DEF Setup!TypeOK
    <3>3. QED
      BY <1>0, <2>1, <2>8, <3>1, <3>2 DEF Setup!TypeOK, SetupRequests
  <2>10. QED
    BY <2>6, <2>7, <2>8, <2>9 DEF SetupInv, Setup!Idle
<1>4. CASE Setup!CommitTenantUser(w) \/ Setup!AuditMutation(w)
  <2>1. /\ r.pc \in {"add user", "flushed"}
        /\ users' = users \/ users' = users \cup {r.email}
        /\ members' = [members EXCEPT ![r.slug] = @ \cup {r.email}]
        /\ told' = told \cup {<<r.slug, r.email>>}
        /\ setupCall' = [setupCall EXCEPT ![w] = Setup!Idle]
        /\ UNCHANGED <<owners, templates, tenants, applied, setupCalls>>
    BY <1>a, <1>4 DEF Setup!CommitTenantUser, Setup!AuditMutation, Setup!Joined, Setup!Told
  <2>2. r.slug \in Slugs /\ r.email \in Emails /\ tenants[r.slug] # Setup!Absent
    BY <1>b, <1>c, <2>1 DEF SetupRequests, Setup!Registrations, Setup!TenantCalls,
       Setup!MemberCalls, SetupRequest
  <2>3. /\ members' \in [Slugs -> SUBSET Emails]
        /\ r.email \in members'[r.slug]
        /\ \A s \in Slugs : members[s] \subseteq members'[s]
        /\ \A s \in Slugs \ {r.slug} : members'[s] = members[s]
    BY <1>0, <2>1, <2>2 DEF Setup!TypeOK
  <2>4. \A s \in Slugs : SetupTenant(s)'
    BY <2>1, <2>2, <2>3 DEF SetupInv, SetupTenant, Setup!Absent
  <2>5. \A email \in users' : SetupAccount(email)'
    BY <2>1, <2>2, <2>3 DEF SetupInv, SetupAccount
  <2>6. /\ \A v \in Workers : setupCall'[v] \in SetupRequests \cup {Setup!Idle}
        /\ setupCall' = [v \in Workers |-> setupCall'[v]]
        /\ \A v \in Workers : setupCall'[v] # Setup!Idle => SetupRequest(setupCall[v])'
    BY <1>c, <2>1, SetupEnds
  <2>7. Setup!TypeOK'
    <3>1. users' \subseteq Emails
      BY <1>0, <2>1, <2>2 DEF Setup!TypeOK
    <3>2. <<r.slug, r.email>> \in Slugs \X Emails
      BY <2>2
    <3>3. told' \subseteq Slugs \X Emails
      BY <1>0, <2>1, <3>2 DEF Setup!TypeOK
    <3>4. QED
      BY <1>0, <2>1, <2>3, <2>6, <3>1, <3>3 DEF Setup!TypeOK, SetupRequests
  <2>8. QED
    BY <2>4, <2>5, <2>6, <2>7 DEF SetupInv, Setup!Idle
<1>5. CASE Setup!FlushMembership(w)
  <2>1. /\ r.pc = "add member"
        /\ setupCall' = [setupCall EXCEPT ![w] = [r EXCEPT !.pc = "flushed"]]
        /\ UNCHANGED <<owners, users, templates, tenants, members, told, applied, setupCalls>>
    BY <1>a, <1>5 DEF Setup!FlushMembership
  <2>2. /\ r \in Setup!MemberCalls
        /\ tenants[r.slug] # Setup!Absent
    BY <1>b, <1>c, <2>1 DEF SetupRequests, Setup!Registrations, Setup!TenantCalls,
       Setup!MemberCalls, SetupRequest
  <2> DEFINE next == [r EXCEPT !.pc = "flushed"]
  <2>3. next \in Setup!MemberCalls /\ next.pc = "flushed" /\ next.slug = r.slug
    BY <2>2 DEF Setup!MemberCalls
  <2> HIDE DEF next
  <2>4. next \in SetupRequests \cup {Setup!Idle} /\ SetupRequest(next)'
    BY <2>1, <2>2, <2>3 DEF SetupRequests, SetupRequest, Setup!Absent
  <2>5. /\ \A v \in Workers : setupCall'[v] \in SetupRequests \cup {Setup!Idle}
        /\ setupCall' = [v \in Workers |-> setupCall'[v]]
        /\ \A v \in Workers : setupCall'[v] # Setup!Idle => SetupRequest(setupCall[v])'
    BY <2>1, <2>4, SetupEnds DEF next
  <2>6. Setup!TypeOK'
    BY <1>0, <2>1, <2>5 DEF Setup!TypeOK, SetupRequests
  <2>7. QED
    BY <2>1, <2>5, <2>6 DEF SetupInv, SetupTenant, SetupAccount, Setup!Absent, Setup!Idle
<1>6. CASE Setup!AuditTooLate(w) \/ Setup!Refuse(w)
  <2>1. /\ told' = told \/ (r.pc = "flushed" /\ told' = told \cup {<<r.slug, r.email>>})
        /\ setupCall' = [setupCall EXCEPT ![w] = Setup!Idle]
        /\ UNCHANGED <<owners, users, templates, tenants, members, applied, setupCalls>>
    BY <1>a, <1>6 DEF Setup!AuditTooLate, Setup!Refuse, Setup!Finish, Setup!Told
  <2>2. r.pc = "flushed" => r.slug \in Slugs /\ r.email \in Emails
    BY <1>b, <1>c DEF SetupRequests, Setup!Registrations, Setup!TenantCalls, Setup!MemberCalls
  <2>3. told' \subseteq Slugs \X Emails
    BY <1>0, <2>1, <2>2 DEF Setup!TypeOK
  <2>4. /\ \A v \in Workers : setupCall'[v] \in SetupRequests \cup {Setup!Idle}
        /\ setupCall' = [v \in Workers |-> setupCall'[v]]
        /\ \A v \in Workers : setupCall'[v] # Setup!Idle => SetupRequest(setupCall[v])'
    BY <1>c, <2>1, SetupEnds
  <2>5. Setup!TypeOK'
    BY <1>0, <2>1, <2>3, <2>4 DEF Setup!TypeOK, SetupRequests
  <2>6. QED
    BY <2>1, <2>4, <2>5 DEF SetupInv, SetupTenant, SetupAccount, Setup!Absent, Setup!Idle
<1>7. QED
  BY <1>1, <1>2, <1>3, <1>4, <1>5, <1>6 DEF Setup!Continue

LEMMA SetupStep ==
  ASSUME SetupInv, [Setup!Next]_setupVars
  PROVE  SetupInv'
<1>1. CASE UNCHANGED setupVars
  BY <1>1 DEF setupVars, SetupInv, Setup!TypeOK, SetupRequest, SetupTenant, SetupAccount,
     Setup!Absent, Setup!Idle
<1>2. QED
  BY <1>1, SetupAsks, SetupContinues DEF Setup!Next

\* Nothing half made is ever seen: a tenant has its module rows and every entry of the
\* templates applied to it, an account an owner's company or a tenant.
THEOREM TenantsAreWhole == OfficeSpec => []TenantsWhole
<1>1. ASSUME OfficeInit
      PROVE  SetupInv
  <2>1. /\ owners = [k \in Companies |-> None] /\ users = {}
        /\ templates \in [Templates -> [active : {TRUE}, entries : SUBSET EntryCodes]]
        /\ tenants = [s \in Slugs |-> Setup!Absent] /\ members = [s \in Slugs |-> {}]
        /\ setupCall = [w \in Workers |-> Setup!Idle] /\ told = {}
        /\ applied = [s \in Slugs |-> {}] /\ setupCalls = 0
    BY <1>1 DEF OfficeInit, Setup!Init
  <2>2. Setup!TypeOK
    <3>1. templates \in [Templates -> Setup!TemplateRows]
      BY <2>1 DEF Setup!TemplateRows
    <3>2. QED
      BY <2>1, <3>1, CallsAssumption DEF Setup!TypeOK
  <2>3. QED
    BY <2>1, <2>2 DEF SetupInv, SetupTenant
<1>2. SetupInv /\ [OfficeNext]_<<focus, vars, modulesVars, signingVars, agentsVars,
                                 directoryVars, setupVars>> => SetupInv'
  BY SetupStep DEF OfficeNext
<1>3. ASSUME SetupInv
      PROVE  TenantsWhole
  <2>1. \A s \in Slugs : tenants[s] # Setup!Absent =>
          tenants[s].modules /\ applied[s] \subseteq tenants[s].entries
    BY <1>3 DEF SetupInv, SetupTenant
  <2>2. ASSUME NEW email \in users
        PROVE  email \in Setup!ProviderOwners \/ \E s \in Slugs : email \in members[s]
    BY <1>3, NoneAssumption DEF SetupInv, SetupAccount, Setup!ProviderOwners, Setup!TypeOK
  <2>3. QED
    BY <2>1, <2>2 DEF TenantsWhole, Setup!TenantsWhole, Setup!Exists
<1>4. QED
  BY <1>1, <1>2, <1>3, PTL DEF OfficeSpec

-----------------------------------------------------------------------------
(* The module registry.  A request that nobody has overtaken changes rows  *)
(* it has read and nobody has changed since, and a guarded one has read    *)
(* every row on which its guard depends.                                   *)

\* What a guarded request activates finds what it requires active, what it deactivates
\* nobody needs, and what it makes external has a tested connection.
Guarded(seen, want, reads, connSeen, connReads) ==
  /\ \A c \in ModuleCodes : Modules!Active(want, c) /\ ~Modules!Active(seen, c) =>
       \A d \in ModuleRequires[c] \cap ModuleCodes : d \in reads /\ Modules!Active(want, d)
  /\ \A d \in ModuleCodes : Modules!Active(seen, d) /\ ~Modules!Active(want, d) =>
       \A c \in ModuleCodes : d \in ModuleRequires[c] => c \in reads /\ ~Modules!Active(want, c)
  /\ \A c \in ModuleCodes : want[c].mode = "external" =>
       \/ seen[c].mode = "external" /\ seen[c].provider = want[c].provider
       \/ /\ <<want[c].provider, c>> \in Modules!Pairs \cap connReads
          /\ connSeen[<<want[c].provider, c>>] = "active"

ModulesRequest(r) ==
  /\ {"pc", "seen", "want", "connSeen", "connWant", "reads", "connReads", "guarded", "fresh"}
       \subseteq DOMAIN r
  /\ r.seen \in [ModuleCodes -> Modules!Rows] /\ r.want \in [ModuleCodes -> Modules!Rows]
  /\ r.connWant \in [Modules!Pairs -> Modules!ConnStatuses]
  /\ \A c \in ModuleCodes : r.want[c] # r.seen[c] => c \in r.reads
  /\ r.guarded => Guarded(r.seen, r.want, r.reads, r.connSeen, r.connReads)
  /\ r.fresh => /\ \A c \in r.reads : mods[c] = r.seen[c]
                /\ \A x \in r.connReads : conns[x] = r.connSeen[x]

ModulesInv ==
  /\ mods \in [ModuleCodes -> Modules!Rows]
  /\ conns \in [Modules!Pairs -> Modules!ConnStatuses]
  /\ modulesCall = [w \in Workers |-> modulesCall[w]]
  /\ \A w \in Workers : modulesCall[w].pc = "decided" => ModulesRequest(modulesCall[w])

\* A request decides on the rows it has just read.
LEMMA ModulesDecide ==
  ASSUME ModulesInv, NEW w \in Workers, UNCHANGED <<mods, conns>>,
         NEW r, modulesCall' = [modulesCall EXCEPT ![w] = r],
         {"pc", "seen", "want", "connSeen", "connWant", "reads", "connReads", "guarded", "fresh"}
           \subseteq DOMAIN r,
         r.seen = mods, r.connSeen = conns,
         r.want \in [ModuleCodes -> Modules!Rows],
         r.connWant \in [Modules!Pairs -> Modules!ConnStatuses],
         \A c \in ModuleCodes : r.want[c] # mods[c] => c \in r.reads,
         r.guarded => Guarded(mods, r.want, r.reads, conns, r.connReads)
  PROVE  ModulesInv'
<1>2. ModulesRequest(r)'
  BY DEF ModulesRequest, ModulesInv, Modules!Rows, Modules!Pairs, Modules!ConnStatuses,
     Modules!Statuses, Modules!Modes, Guarded, Modules!Active
<1>3. /\ modulesCall' = [v \in Workers |-> modulesCall'[v]]
      /\ modulesCall'[w] = r
      /\ \A v \in Workers \ {w} : modulesCall'[v] = modulesCall[v]
  BY DEF ModulesInv
<1>4. ASSUME NEW v \in Workers \ {w}, modulesCall[v].pc = "decided"
      PROVE  ModulesRequest(modulesCall[v])'
  <2>1. ModulesRequest(modulesCall[v]) /\ modulesCall'[v] = modulesCall[v]
    BY <1>3, <1>4 DEF ModulesInv
  <2>2. QED
    BY <2>1 DEF ModulesRequest, Modules!Rows, Modules!Pairs, Modules!ConnStatuses,
       Modules!Statuses, Modules!Modes, Guarded, Modules!Active
<1>5. ASSUME NEW v \in Workers, modulesCall'[v].pc = "decided"
      PROVE  ModulesRequest(modulesCall[v])'
  <2>1. CASE v = w
    <3>1. modulesCall'[v] = r
      BY <1>3, <2>1
    <3>2. QED
      BY <1>2, <3>1 DEF ModulesRequest
  <2>2. CASE v # w
    BY <1>3, <1>4, <1>5, <2>2
  <2>3. QED
    BY <2>1, <2>2
<1>6. QED
  BY <1>3, <1>5 DEF ModulesInv, Modules!Rows, Modules!Pairs, Modules!ConnStatuses,
     Modules!Statuses, Modules!Modes

\* The guarded change of one module.
LEMMA ModulesChange ==
  ASSUME ModulesInv, NEW w \in Workers, NEW c \in ModuleCodes, NEW row \in Modules!Rows,
         NEW reads, NEW connReads, Modules!ChangeModule(w, c, row, reads, connReads),
         row.status \in {"enabled", "trial"} /\ mods[c].status \notin {"enabled", "trial"} =>
           \A d \in ModuleRequires[c] \cap ModuleCodes : d \in reads /\ Modules!Active(mods, d),
         row.status \notin {"enabled", "trial"} /\ mods[c].status \in {"enabled", "trial"} =>
           \A d \in ModuleCodes : c \in ModuleRequires[d] => d \in reads /\ ~Modules!Active(mods, d),
         row.mode = "external" =>
           \/ mods[c].mode = "external" /\ mods[c].provider = row.provider
           \/ /\ <<row.provider, c>> \in Modules!Pairs \cap connReads
              /\ conns[<<row.provider, c>>] = "active"
  PROVE  ModulesInv'
<1> DEFINE want == [mods EXCEPT ![c] = row]
           all == {c} \cup reads
           r == [Modules!Decision EXCEPT !.want = want, !.reads = all, !.connReads = connReads]
<1>1. modulesCall' = [modulesCall EXCEPT ![w] = r] /\ UNCHANGED <<mods, conns>>
  BY DEF Modules!ChangeModule, Modules!Decide
<1>a. /\ {"pc", "seen", "want", "connSeen", "connWant", "reads", "connReads", "guarded", "fresh"}
            \subseteq DOMAIN r
      /\ r.seen = mods /\ r.connSeen = conns /\ r.connWant = conns
      /\ r.want = want /\ r.reads = all /\ r.connReads = connReads
  BY DEF Modules!Decision
<1> HIDE DEF r
<1>2. mods \in [ModuleCodes -> Modules!Rows] /\ conns \in [Modules!Pairs -> Modules!ConnStatuses]
  BY DEF ModulesInv
<1>3. /\ want \in [ModuleCodes -> Modules!Rows] /\ want[c] = row
      /\ \A d \in ModuleCodes \ {c} : want[d] = mods[d]
  BY <1>2
<1> HIDE DEF want
<1>4. Guarded(mods, want, all, conns, connReads)
  <2>1. ASSUME NEW x \in ModuleCodes, Modules!Active(want, x), ~Modules!Active(mods, x),
               NEW d \in ModuleRequires[x] \cap ModuleCodes
        PROVE  d \in all /\ Modules!Active(want, d)
    <3>1. x = c
      BY <1>3, <2>1 DEF Modules!Active
    <3>2. d \in reads /\ Modules!Active(mods, d)
      BY <1>3, <2>1, <3>1 DEF Modules!Active
    <3>3. QED
      BY <1>3, <2>1, <3>1, <3>2 DEF Modules!Active
  <2>2. ASSUME NEW d \in ModuleCodes, Modules!Active(mods, d), ~Modules!Active(want, d),
               NEW x \in ModuleCodes, d \in ModuleRequires[x]
        PROVE  x \in all /\ ~Modules!Active(want, x)
    <3>1. d = c
      BY <1>3, <2>2 DEF Modules!Active
    <3>2. x \in reads /\ ~Modules!Active(mods, x)
      BY <1>3, <2>2, <3>1 DEF Modules!Active
    <3>3. QED
      BY <1>3, <2>2, <3>1, <3>2 DEF Modules!Active
  <2>3. ASSUME NEW x \in ModuleCodes, want[x].mode = "external"
        PROVE  \/ mods[x].mode = "external" /\ mods[x].provider = want[x].provider
               \/ /\ <<want[x].provider, x>> \in Modules!Pairs \cap connReads
                  /\ conns[<<want[x].provider, x>>] = "active"
    BY <1>3, <2>3
  <2>4. QED
    BY <2>1, <2>2, <2>3 DEF Guarded
<1>5. \A d \in ModuleCodes : want[d] # mods[d] => d \in all
  BY <1>3
<1> HIDE DEF all
<1>6. QED
  BY <1>1, <1>a, <1>2, <1>3, <1>4, <1>5, ModulesDecide

\* A request that has nothing to write asks nothing of the rows.
LEMMA ModulesUndecided ==
  ASSUME ModulesInv, NEW w \in Workers, UNCHANGED <<mods, conns>>,
         NEW r, modulesCall' = [modulesCall EXCEPT ![w] = r], r.pc # "decided"
  PROVE  ModulesInv'
<1>1. /\ modulesCall' = [v \in Workers |-> modulesCall'[v]]
      /\ modulesCall'[w] = r
      /\ \A v \in Workers \ {w} : modulesCall'[v] = modulesCall[v]
  BY DEF ModulesInv
<1>2. ASSUME NEW v \in Workers, modulesCall'[v].pc = "decided"
      PROVE  ModulesRequest(modulesCall[v])'
  <2>1. v # w
    BY <1>1, <1>2
  <2>2. ModulesRequest(modulesCall[v]) /\ modulesCall'[v] = modulesCall[v]
    BY <1>1, <1>2, <2>1 DEF ModulesInv
  <2>3. QED
    BY <2>2 DEF ModulesRequest, Modules!Rows, Modules!Pairs, Modules!ConnStatuses,
       Modules!Statuses, Modules!Modes, Guarded, Modules!Active
<1>3. QED
  BY <1>1, <1>2 DEF ModulesInv, Modules!Rows, Modules!Pairs, Modules!ConnStatuses,
     Modules!Statuses, Modules!Modes

\* Enabling a module: everything it requires has been read and found active.
LEMMA ModulesEnable ==
  ASSUME ModulesInv, NEW w \in Workers, Modules!EnableModule(w)
  PROVE  ModulesInv'
<1>1. PICK c \in ModuleCodes :
        /\ Modules!DependenciesMet(mods, c)
        /\ Modules!ChangeModule(w, c, [mods[c] EXCEPT !.status = "enabled",
             !.mode = IF @ = "disabled" THEN "internal" ELSE @], ModuleRequires[c], {})
  BY DEF Modules!EnableModule
<1>2. PICK row : row = [mods[c] EXCEPT !.status = "enabled",
                          !.mode = IF @ = "disabled" THEN "internal" ELSE @]
  OBVIOUS
<1>3. mods[c] \in Modules!Rows
  BY DEF ModulesInv
<1>4. /\ row \in Modules!Rows /\ row.status = "enabled" /\ row.provider = mods[c].provider
      /\ row.mode = "external" => mods[c].mode = "external"
  BY <1>2, <1>3 DEF Modules!Rows, Modules!Statuses, Modules!Modes
<1>5. \A d \in ModuleRequires[c] \cap ModuleCodes :
        d \in ModuleRequires[c] /\ Modules!Active(mods, d)
  BY <1>1 DEF Modules!DependenciesMet
<1>6. Modules!ChangeModule(w, c, row, ModuleRequires[c], {})
  BY <1>1, <1>2
<1>7. QED
  BY <1>4, <1>5, <1>6, ModulesChange

\* Disabling a module: everything that requires it has been read and found inactive.
LEMMA ModulesDisable ==
  ASSUME ModulesInv, NEW w \in Workers, Modules!DisableModule(w)
  PROVE  ModulesInv'
<1>1. PICK c \in ModuleCodes :
        /\ \A d \in Modules!Dependents(c) : ~Modules!Active(mods, d)
        /\ Modules!ChangeModule(w, c, [status |-> "disabled", mode |-> "disabled", provider |-> None],
                                Modules!Dependents(c), {})
  BY DEF Modules!DisableModule
<1>2. PICK row : row = [status |-> "disabled", mode |-> "disabled", provider |-> None]
  OBVIOUS
<1>3. row \in Modules!Rows /\ row.status = "disabled" /\ row.mode = "disabled"
  BY <1>2 DEF Modules!Rows, Modules!Statuses, Modules!Modes
<1>4. \A d \in ModuleCodes : c \in ModuleRequires[d] =>
        d \in Modules!Dependents(c) /\ ~Modules!Active(mods, d)
  BY <1>1 DEF Modules!Dependents
<1>5. Modules!ChangeModule(w, c, row, Modules!Dependents(c), {})
  BY <1>1, <1>2
<1>6. QED
  BY <1>3, <1>4, <1>5, ModulesChange

\* Setting the mode: an external one has been checked against its connection.
LEMMA ModulesMode ==
  ASSUME ModulesInv, NEW w \in Workers, Modules!SetModuleMode(w)
  PROVE  ModulesInv'
<1>1. PICK c \in ModuleCodes, mode \in Modules!Modes, given_ \in Providers \cup {None} :
        LET provider == IF given_ = None THEN mods[c].provider ELSE given_ IN
          /\ mode = "external" => Modules!ExternalAllowed(c, provider)
          /\ Modules!ChangeModule(w, c, [mods[c] EXCEPT !.mode = mode, !.provider = provider], {},
                                  IF mode = "external" THEN {<<provider, c>>} ELSE {})
  BY DEF Modules!SetModuleMode
<1>2. PICK provider : provider = IF given_ = None THEN mods[c].provider ELSE given_
  OBVIOUS
<1>3. mods[c] \in Modules!Rows
  BY DEF ModulesInv
<1>4. provider \in Providers \cup {None}
  BY <1>2, <1>3 DEF Modules!Rows
<1>5. PICK row : row = [mods[c] EXCEPT !.mode = mode, !.provider = provider]
  OBVIOUS
<1>6. PICK connReads : connReads = IF mode = "external" THEN {<<provider, c>>} ELSE {}
  OBVIOUS
<1>7. /\ row \in Modules!Rows /\ row.status = mods[c].status
      /\ row.mode = mode /\ row.provider = provider
  BY <1>3, <1>4, <1>5 DEF Modules!Rows
<1>8. mode = "external" =>
        /\ <<provider, c>> \in Modules!Pairs \cap connReads
        /\ conns[<<provider, c>>] = "active"
  BY <1>1, <1>2, <1>4, <1>6 DEF Modules!ExternalAllowed, Modules!Pairs
<1>9. Modules!ChangeModule(w, c, row, {}, connReads)
  BY <1>1, <1>2, <1>5, <1>6
<1>10. QED
  BY <1>7, <1>8, <1>9, ModulesChange

\* The PATCH writes whatever it is given, and is not guarded.
LEMMA ModulesPatch ==
  ASSUME ModulesInv, NEW w \in Workers, Modules!UpdateTenantModule(w)
  PROVE  ModulesInv'
<1>1. PICK c \in ModuleCodes :
        \E row \in {[mods[c] EXCEPT !.status = status] : status \in Modules!Statuses}
                   \cup {[mods[c] EXCEPT !.mode = mode] : mode \in Modules!Modes}
                   \cup {[mods[c] EXCEPT !.provider = provider] : provider \in Providers} :
          Modules!Decide(w, [Modules!Decision EXCEPT !.want = [mods EXCEPT ![c] = row], !.reads = {c},
                                                     !.guarded = FALSE])
  BY DEF Modules!UpdateTenantModule
<1>2. PICK row \in {[mods[c] EXCEPT !.status = status] : status \in Modules!Statuses}
                   \cup {[mods[c] EXCEPT !.mode = mode] : mode \in Modules!Modes}
                   \cup {[mods[c] EXCEPT !.provider = provider] : provider \in Providers} :
        Modules!Decide(w, [Modules!Decision EXCEPT !.want = [mods EXCEPT ![c] = row], !.reads = {c},
                                                   !.guarded = FALSE])
  BY <1>1
<1>3. mods \in [ModuleCodes -> Modules!Rows] /\ conns \in [Modules!Pairs -> Modules!ConnStatuses]
  BY DEF ModulesInv
<1>4. row \in Modules!Rows
  BY <1>2, <1>3 DEF Modules!Rows
<1> DEFINE want == [mods EXCEPT ![c] = row]
           all == {c}
           r == [Modules!Decision EXCEPT !.want = want, !.reads = all, !.guarded = FALSE]
<1>5. modulesCall' = [modulesCall EXCEPT ![w] = r] /\ UNCHANGED <<mods, conns>>
  BY <1>2 DEF Modules!Decide
<1>6. /\ {"pc", "seen", "want", "connSeen", "connWant", "reads", "connReads", "guarded", "fresh"}
            \subseteq DOMAIN r
      /\ r.seen = mods /\ r.connSeen = conns /\ r.connWant = conns
      /\ r.want = want /\ r.reads = all /\ ~r.guarded
  BY DEF Modules!Decision
<1> HIDE DEF r
<1>7. want \in [ModuleCodes -> Modules!Rows] /\ \A d \in ModuleCodes : want[d] # mods[d] => d \in all
  BY <1>3, <1>4
<1> HIDE DEF want, all
<1>8. QED
  BY <1>3, <1>5, <1>6, <1>7, ModulesDecide

\* A request about a connection writes no row of a module.
LEMMA ModulesConnection ==
  ASSUME ModulesInv, NEW w \in Workers, NEW x \in Modules!Pairs, NEW status \in Modules!ConnStatuses,
         NEW refers, Modules!ChangeConnection(w, x, status, refers)
  PROVE  ModulesInv'
<1> DEFINE connWant == [conns EXCEPT ![x] = status]
           r == [Modules!Decision EXCEPT !.connWant = connWant, !.connReads = {x}, !.refers = refers]
<1>1. modulesCall' = [modulesCall EXCEPT ![w] = r] /\ UNCHANGED <<mods, conns>>
  BY DEF Modules!ChangeConnection, Modules!Decide
<1>2. /\ {"pc", "seen", "want", "connSeen", "connWant", "reads", "connReads", "guarded", "fresh"}
            \subseteq DOMAIN r
      /\ r.seen = mods /\ r.connSeen = conns /\ r.connWant = connWant /\ r.want = mods
  BY DEF Modules!Decision
<1> HIDE DEF r
<1>3. mods \in [ModuleCodes -> Modules!Rows] /\ conns \in [Modules!Pairs -> Modules!ConnStatuses]
  BY DEF ModulesInv
<1>4. connWant \in [Modules!Pairs -> Modules!ConnStatuses]
  BY <1>3
<1> HIDE DEF connWant
<1>5. Guarded(mods, r.want, r.reads, conns, r.connReads)
  BY <1>2 DEF Guarded
<1>6. QED
  BY <1>1, <1>2, <1>3, <1>4, <1>5, ModulesDecide

LEMMA ModulesConnections ==
  ASSUME ModulesInv, NEW w \in Workers,
         \/ Modules!CreateConnection(w) \/ Modules!UpdateConnection(w)
         \/ Modules!TestConnection(w) \/ Modules!RunSync(w)
  PROVE  ModulesInv'
<1>1. CASE Modules!CreateConnection(w)
  <2>1. PICK x \in Modules!Pairs : Modules!ChangeConnection(w, x, "pending", {})
    BY <1>1 DEF Modules!CreateConnection
  <2>2. "pending" \in Modules!ConnStatuses
    BY DEF Modules!ConnStatuses
  <2>3. QED
    BY <2>1, <2>2, ModulesConnection
<1>2. CASE Modules!UpdateConnection(w)
  <2>1. PICK x \in Modules!Pairs, status \in Modules!ConnStatuses \ {"no_row"} :
          Modules!ChangeConnection(w, x, status, {})
    BY <1>2 DEF Modules!UpdateConnection
  <2>2. QED
    BY <2>1, ModulesConnection
<1>3. CASE Modules!TestConnection(w)
  <2>1. PICK x \in Modules!Pairs, status \in {"active", "error"} :
          Modules!ChangeConnection(w, x, status, {})
    BY <1>3 DEF Modules!TestConnection
  <2>2. status \in Modules!ConnStatuses
    BY DEF Modules!ConnStatuses
  <2>3. QED
    BY <2>1, <2>2, ModulesConnection
<1>4. CASE Modules!RunSync(w)
  <2>1. PICK x \in Modules!Pairs :
          \/ Modules!ChangeConnection(w, x, "active", {x[1]})
          \/ Modules!ChangeConnection(w, x, "error", {})
    BY <1>4 DEF Modules!RunSync
  <2>2. "active" \in Modules!ConnStatuses /\ "error" \in Modules!ConnStatuses
    BY DEF Modules!ConnStatuses
  <2>3. QED
    BY <2>1, <2>2, ModulesConnection
<1>5. QED
  BY <1>1, <1>2, <1>3, <1>4

\* A plan activates modules whose requirements the rows or the plan itself meet.
LEMMA ModulesPlan ==
  ASSUME ModulesInv, NEW w \in Workers, Modules!ApplyPlanModules(w)
  PROVE  ModulesInv'
<1>1. PICK order : order = Modules!Sorted(modulesCall[w].plan)
  OBVIOUS
<1>2. mods \in [ModuleCodes -> Modules!Rows] /\ conns \in [Modules!Pairs -> Modules!ConnStatuses]
  BY DEF ModulesInv
<1> DEFINE want == [c \in ModuleCodes |->
                      IF c \in Modules!ToSet(order) THEN Modules!TrialRow(mods[c]) ELSE mods[c]]
           all == Modules!ToSet(order) \cup UNION {ModuleRequires[c] : c \in Modules!ToSet(order)}
<1>3. CASE Modules!OrderHolds(order) /\ modulesCall' = [modulesCall EXCEPT ![w] =
             [Modules!Decision EXCEPT !.want = want, !.reads = all,
                !.held = modulesCall[w].held, !.plan = modulesCall[w].plan]]
  <2> DEFINE r == [Modules!Decision EXCEPT !.want = want, !.reads = all,
                     !.held = modulesCall[w].held, !.plan = modulesCall[w].plan]
  <2>1. modulesCall' = [modulesCall EXCEPT ![w] = r] /\ UNCHANGED <<mods, conns>>
    BY <1>3 DEF Modules!ApplyPlanModules
  <2>2. /\ {"pc", "seen", "want", "connSeen", "connWant", "reads", "connReads", "guarded", "fresh"}
              \subseteq DOMAIN r
        /\ r.seen = mods /\ r.connSeen = conns /\ r.connWant = conns
        /\ r.want = want /\ r.reads = all
    BY DEF Modules!Decision
  <2> HIDE DEF r
  <2>3. \A c \in ModuleCodes :
          /\ c \in Modules!ToSet(order) =>
               /\ want[c] \in Modules!Rows /\ want[c].status = "trial" /\ want[c].mode = "internal"
               /\ c \in all
          /\ c \notin Modules!ToSet(order) => want[c] = mods[c]
    BY <1>2 DEF Modules!TrialRow, Modules!Rows, Modules!Statuses, Modules!Modes
  <2>4. want \in [ModuleCodes -> Modules!Rows] /\ \A d \in ModuleCodes : want[d] # mods[d] => d \in all
    BY <1>2, <2>3
  <2>5. ASSUME NEW c \in Modules!ToSet(order), NEW d \in ModuleRequires[c] \cap ModuleCodes
        PROVE  d \in all /\ (Modules!Active(mods, d) \/ d \in Modules!ToSet(order))
    BY <1>3 DEF Modules!OrderHolds, Modules!ToSet
  <2> HIDE DEF want, all
  <2>6. Guarded(mods, r.want, r.reads, conns, r.connReads)
    BY <2>2, <2>3, <2>5 DEF Guarded, Modules!Active
  <2>7. QED
    BY <1>2, <2>1, <2>2, <2>4, <2>6, ModulesDecide
<1>4. CASE modulesCall' = [modulesCall EXCEPT ![w] = Modules!Idle]
  <2>1. Modules!Idle.pc # "decided"
    BY DEF Modules!Idle
  <2>2. UNCHANGED <<mods, conns>>
    BY DEF Modules!ApplyPlanModules
  <2>3. QED
    BY <1>4, <2>1, <2>2, ModulesUndecided
<1>5. QED
  BY <1>1, <1>3, <1>4 DEF Modules!ApplyPlanModules

\* What a commit leaves in the rows.
LEMMA ModulesCommitted ==
  ASSUME ModulesInv, NEW w \in Workers, Modules!Commit(w), NEW r, r = modulesCall[w]
  PROVE  /\ ModulesRequest(r)
         /\ mods' \in [ModuleCodes -> Modules!Rows]
         /\ conns' \in [Modules!Pairs -> Modules!ConnStatuses]
         /\ \A c \in ModuleCodes :
              /\ r.want[c] = r.seen[c] => mods'[c] = mods[c]
              /\ mods[c] = r.seen[c] => /\ mods'[c].status = r.want[c].status
                                        /\ mods'[c].mode = r.want[c].mode
                                        /\ mods'[c].provider = r.want[c].provider
<1>1. ModulesRequest(r)
  BY DEF ModulesInv, Modules!Commit
<1>2. mods \in [ModuleCodes -> Modules!Rows] /\ conns \in [Modules!Pairs -> Modules!ConnStatuses]
  BY DEF ModulesInv
<1>3. /\ mods' = [c \in ModuleCodes |-> Modules!MergedRow(r.seen[c], r.want[c], mods[c])]
      /\ conns' = Modules!MergedRow(r.connSeen, r.connWant, conns)
  BY DEF Modules!Commit, Modules!MergedRows, Modules!MergedConns
<1>4. /\ r.seen \in [ModuleCodes -> Modules!Rows] /\ r.want \in [ModuleCodes -> Modules!Rows]
      /\ r.connWant \in [Modules!Pairs -> Modules!ConnStatuses]
  BY <1>1 DEF ModulesRequest
<1>5. conns' \in [Modules!Pairs -> Modules!ConnStatuses]
  BY <1>2, <1>3, <1>4 DEF Modules!MergedRow
<1>6. ASSUME NEW c \in ModuleCodes
      PROVE  /\ mods'[c] \in Modules!Rows
             /\ r.want[c] = r.seen[c] => mods'[c] = mods[c]
             /\ mods[c] = r.seen[c] => /\ mods'[c].status = r.want[c].status
                                       /\ mods'[c].mode = r.want[c].mode
                                       /\ mods'[c].provider = r.want[c].provider
  <2>1. PICK seen, want, now : seen = r.seen[c] /\ want = r.want[c] /\ now = mods[c]
    OBVIOUS
  <2>2. seen \in Modules!Rows /\ want \in Modules!Rows /\ now \in Modules!Rows
    BY <1>2, <1>4, <2>1
  <2>3. mods'[c] = [f \in {"status", "mode", "provider"} |->
                      IF want[f] # seen[f] THEN want[f] ELSE now[f]]
    BY <1>3, <2>1, <2>2 DEF Modules!MergedRow, Modules!Rows
  <2>4. mods'[c] = [status |-> IF want.status # seen.status THEN want.status ELSE now.status,
                    mode |-> IF want.mode # seen.mode THEN want.mode ELSE now.mode,
                    provider |-> IF want.provider # seen.provider THEN want.provider ELSE now.provider]
    BY <2>3
  <2>5. QED
    BY <2>1, <2>2, <2>4 DEF Modules!Rows
<1>7. mods' \in [ModuleCodes -> Modules!Rows]
  BY <1>3, <1>6
<1>8. QED
  BY <1>1, <1>5, <1>6, <1>7

\* A commit marks the requests whose rows it changes.
LEMMA ModulesCommit ==
  ASSUME ModulesInv, NEW w \in Workers, Modules!Commit(w)
  PROVE  ModulesInv'
<1>1. /\ mods' \in [ModuleCodes -> Modules!Rows]
      /\ conns' \in [Modules!Pairs -> Modules!ConnStatuses]
  BY ModulesCommitted
<1>2. modulesCall' = [v \in Workers |->
        IF v = w THEN Modules!Idle
        ELSE IF modulesCall[v].pc = "decided" /\ Modules!Overtakes(modulesCall[v])
             THEN [modulesCall[v] EXCEPT !.fresh = FALSE] ELSE modulesCall[v]]
  BY DEF Modules!Commit
<1>3. modulesCall' = [v \in Workers |-> modulesCall'[v]]
  BY <1>2
<1>4. ASSUME NEW v \in Workers, modulesCall'[v].pc = "decided"
      PROVE  ModulesRequest(modulesCall[v])'
  <2>1. PICK r : r = modulesCall[v]
    OBVIOUS
  <2>2. PICK s : s = modulesCall'[v]
    OBVIOUS
  <2>3. v # w
    BY <1>2, <1>4 DEF Modules!Idle
  <2>4. s = IF r.pc = "decided" /\ Modules!Overtakes(r) THEN [r EXCEPT !.fresh = FALSE] ELSE r
    BY <1>2, <2>1, <2>2, <2>3
  <2>5. r.pc = "decided"
    BY <1>4, <2>2, <2>4
  <2>6. ModulesRequest(r)
    BY <2>1, <2>5 DEF ModulesInv
  <2>7. /\ DOMAIN s = DOMAIN r /\ s.seen = r.seen /\ s.want = r.want /\ s.connSeen = r.connSeen
        /\ s.connWant = r.connWant /\ s.reads = r.reads /\ s.connReads = r.connReads
        /\ s.guarded = r.guarded
    BY <2>4, <2>6 DEF ModulesRequest
  <2>8. s.fresh => r.fresh /\ ~Modules!Overtakes(r)
    BY <2>4, <2>5, <2>6 DEF ModulesRequest
  <2>9. s.fresh => /\ \A c \in s.reads : mods'[c] = s.seen[c]
                   /\ \A x \in s.connReads : conns'[x] = s.connSeen[x]
    BY <2>6, <2>7, <2>8 DEF ModulesRequest, Modules!Overtakes
  <2>10. ModulesRequest(s)'
    BY <2>6, <2>7, <2>9 DEF ModulesRequest, Modules!Rows, Modules!Pairs, Modules!ConnStatuses,
       Modules!Statuses, Modules!Modes, Guarded, Modules!Active
  <2>11. QED
    BY <2>2, <2>10 DEF ModulesRequest
<1>5. QED
  BY <1>1, <1>3, <1>4 DEF ModulesInv, Modules!Rows, Modules!Pairs, Modules!ConnStatuses,
     Modules!Statuses, Modules!Modes

LEMMA ModulesStep ==
  ASSUME ModulesInv, [OfficeNext]_<<focus, vars, modulesVars, signingVars, agentsVars,
                                    directoryVars, setupVars>>
  PROVE  ModulesInv'
<1>1. CASE Modules!Next
  <2>1. PICK w \in Workers :
          \/ Modules!Ask(w) \/ Modules!ApplyPlanModules(w) \/ Modules!Commit(w) \/ Modules!Rollback(w)
    BY <1>1 DEF Modules!Next
  <2>2. CASE Modules!Ask(w)
    <3>1. CASE Modules!UpsertSubscription(w)
      <4>1. PICK plan \in Plans : /\ UNCHANGED <<mods, conns>>
                                  /\ modulesCall' = [modulesCall EXCEPT ![w] =
                                       [pc |-> "sorting", plan |-> plan, held |-> plan # sub]]
        BY <3>1 DEF Modules!UpsertSubscription
      <4>2. PICK r : r = [pc |-> "sorting", plan |-> plan, held |-> plan # sub]
        OBVIOUS
      <4>3. r.pc # "decided"
        BY <4>2
      <4>4. QED
        BY <4>1, <4>2, <4>3, ModulesUndecided
    <3>2. QED
      BY <2>2, <3>1, ModulesEnable, ModulesDisable, ModulesMode, ModulesPatch, ModulesConnections
         DEF Modules!Ask
  <2>3. CASE Modules!Rollback(w)
    <3>1. Modules!Idle.pc # "decided"
      BY DEF Modules!Idle
    <3>2. UNCHANGED <<mods, conns>> /\ modulesCall' = [modulesCall EXCEPT ![w] = Modules!Idle]
      BY <2>3 DEF Modules!Rollback
    <3>3. QED
      BY <3>1, <3>2, ModulesUndecided
  <2>4. QED
    BY <2>1, <2>2, <2>3, ModulesPlan, ModulesCommit
<1>2. CASE UNCHANGED modulesVars
  <2>1. UNCHANGED <<mods, conns, modulesCall>>
    BY <1>2 DEF modulesVars
  <2>2. ASSUME NEW w \in Workers, modulesCall'[w].pc = "decided"
        PROVE  ModulesRequest(modulesCall[w])'
    <3>1. ModulesRequest(modulesCall[w]) /\ modulesCall'[w] = modulesCall[w]
      BY <2>1, <2>2 DEF ModulesInv
    <3>2. QED
      BY <2>1, <3>1 DEF ModulesRequest, Modules!Rows, Modules!Pairs, Modules!ConnStatuses,
         Modules!Statuses, Modules!Modes, Guarded, Modules!Active
  <2>3. QED
    BY <2>1, <2>2 DEF ModulesInv, Modules!Rows, Modules!Pairs, Modules!ConnStatuses,
       Modules!Statuses, Modules!Modes
<1>3. QED
  BY <1>1, <1>2 DEF OfficeNext

LEMMA ModulesInvariant == OfficeSpec => []ModulesInv
<1>1. OfficeInit => ModulesInv
  <2> SUFFICES ASSUME OfficeInit
               PROVE  ModulesInv
    OBVIOUS
  <2>1. /\ mods = [c \in ModuleCodes |-> [status |-> "disabled", mode |-> "disabled", provider |-> None]]
        /\ conns = [x \in Modules!Pairs |-> "no_row"]
        /\ modulesCall = [w \in Workers |-> Modules!Idle]
    BY DEF OfficeInit, Modules!Init
  <2>2. [status |-> "disabled", mode |-> "disabled", provider |-> None] \in Modules!Rows
    BY DEF Modules!Rows, Modules!Statuses, Modules!Modes
  <2>3. "no_row" \in Modules!ConnStatuses /\ Modules!Idle.pc # "decided"
    BY DEF Modules!ConnStatuses, Modules!Idle
  <2>4. QED
    BY <2>1, <2>2, <2>3 DEF ModulesInv
<1>2. ModulesInv /\ [OfficeNext]_<<focus, vars, modulesVars, signingVars, agentsVars,
                                   directoryVars, setupVars>> => ModulesInv'
  BY ModulesStep
<1>3. QED
  BY <1>1, <1>2, PTL DEF OfficeSpec

\* Only a commit changes the rows, and the commits of a blameless step are guarded and fresh.
LEMMA ModulesWritten ==
  ASSUME ModulesInv, [OfficeNext]_<<focus, vars, modulesVars, signingVars, agentsVars,
                                    directoryVars, setupVars>>,
         Modules!Blameless
  PROVE  \/ mods' = mods
         \/ \E w \in Workers : /\ Modules!Commit(w)
                               /\ modulesCall[w].guarded /\ modulesCall[w].fresh
<1>1. CASE Modules!Next
  <2>1. PICK w \in Workers :
          \/ Modules!Ask(w) \/ Modules!ApplyPlanModules(w) \/ Modules!Commit(w) \/ Modules!Rollback(w)
    BY <1>1 DEF Modules!Next
  <2>2. CASE Modules!Commit(w)
    <3>1. modulesCall[w].pc = "decided" /\ modulesCall'[w] = Modules!Idle
      BY <2>2 DEF Modules!Commit
    <3>2. QED
      BY <2>2, <3>1 DEF Modules!Blameless
  <2>3. CASE Modules!Ask(w)
    BY <2>3 DEF Modules!Ask, Modules!EnableModule, Modules!DisableModule, Modules!SetModuleMode,
       Modules!UpdateTenantModule, Modules!UpsertSubscription, Modules!CreateConnection,
       Modules!UpdateConnection, Modules!TestConnection, Modules!RunSync, Modules!ChangeModule,
       Modules!ChangeConnection, Modules!Decide
  <2>4. CASE Modules!ApplyPlanModules(w) \/ Modules!Rollback(w)
    BY <2>4 DEF Modules!ApplyPlanModules, Modules!Rollback
  <2>5. QED
    BY <2>1, <2>2, <2>3, <2>4
<1>2. CASE UNCHANGED modulesVars
  BY <1>2 DEF modulesVars
<1>3. QED
  BY <1>1, <1>2 DEF OfficeNext

\* A blameless step breaks no dependency.
LEMMA NothingBroken ==
  ASSUME ModulesInv, [OfficeNext]_<<focus, vars, modulesVars, signingVars, agentsVars,
                                    directoryVars, setupVars>>,
         Modules!Blameless
  PROVE  Modules!Broken(mods') \subseteq Modules!Broken(mods)
<1>1. CASE mods' = mods
  BY <1>1 DEF Modules!Broken, Modules!Active
<1>2. CASE \E w \in Workers : /\ Modules!Commit(w)
                              /\ modulesCall[w].guarded /\ modulesCall[w].fresh
  <2>1. PICK w \in Workers : /\ Modules!Commit(w)
                             /\ modulesCall[w].guarded /\ modulesCall[w].fresh
    BY <1>2
  <2>2. PICK r : r = modulesCall[w]
    OBVIOUS
  <2>3. /\ ModulesRequest(r) /\ r.guarded /\ r.fresh
        /\ \A c \in ModuleCodes :
             /\ r.want[c] = r.seen[c] => mods'[c] = mods[c]
             /\ mods[c] = r.seen[c] => mods'[c].status = r.want[c].status
    BY <2>1, <2>2, ModulesCommitted
  <2>4. Guarded(r.seen, r.want, r.reads, r.connSeen, r.connReads)
    BY <2>3 DEF ModulesRequest
  <2>5. \A c \in ModuleCodes :
          \/ mods'[c] = mods[c] /\ c \notin r.reads
          \/ /\ c \in r.reads /\ mods[c] = r.seen[c]
             /\ mods'[c].status = r.want[c].status
    BY <2>3 DEF ModulesRequest
  <2>6. ASSUME NEW c \in ModuleCodes, NEW d \in ModuleCodes, d \in ModuleRequires[c],
               Modules!Active(mods', c), ~Modules!Active(mods', d)
        PROVE  Modules!Active(mods, c) /\ ~Modules!Active(mods, d)
    <3>1. ASSUME ~Modules!Active(mods, c)
          PROVE  FALSE
      <4>1. c \in r.reads /\ Modules!Active(r.want, c) /\ ~Modules!Active(r.seen, c)
        BY <2>5, <2>6, <3>1 DEF Modules!Active
      <4>2. d \in r.reads /\ Modules!Active(r.want, d)
        BY <2>4, <2>6, <4>1 DEF Guarded
      <4>3. QED
        BY <2>5, <2>6, <4>2 DEF Modules!Active
    <3>2. ASSUME Modules!Active(mods, d)
          PROVE  FALSE
      <4>1. d \in r.reads /\ Modules!Active(r.seen, d) /\ ~Modules!Active(r.want, d)
        BY <2>5, <2>6, <3>2 DEF Modules!Active
      <4>2. c \in r.reads /\ ~Modules!Active(r.want, c)
        BY <2>4, <2>6, <4>1 DEF Guarded
      <4>3. QED
        BY <2>5, <2>6, <4>2 DEF Modules!Active
    <3>3. QED
      BY <3>1, <3>2
  <2>7. QED
    BY <2>6 DEF Modules!Broken
<1>3. QED
  BY <1>1, <1>2, ModulesWritten

\* A blameless step makes nothing rely on a connection that does not work.
LEMMA NothingUnbacked ==
  ASSUME ModulesInv, [OfficeNext]_<<focus, vars, modulesVars, signingVars, agentsVars,
                                    directoryVars, setupVars>>,
         Modules!Blameless, NEW x \in Modules!Relies(mods') \ Modules!Relies(mods)
  PROVE  x \in Modules!Pairs /\ conns[x] = "active"
<1>1. PICK c \in ModuleCodes : mods'[c].mode = "external" /\ x = <<mods'[c].provider, c>>
  BY DEF Modules!Relies
<1>2. ~(mods[c].mode = "external" /\ mods[c].provider = mods'[c].provider)
  BY <1>1 DEF Modules!Relies
<1>3. mods' # mods
  BY <1>1, <1>2
<1>4. PICK w \in Workers : /\ Modules!Commit(w)
                           /\ modulesCall[w].guarded /\ modulesCall[w].fresh
  BY <1>3, ModulesWritten
<1>5. PICK r : r = modulesCall[w]
  OBVIOUS
<1>6. /\ ModulesRequest(r) /\ r.guarded /\ r.fresh
      /\ r.want[c] = r.seen[c] => mods'[c] = mods[c]
      /\ mods[c] = r.seen[c] => /\ mods'[c].mode = r.want[c].mode
                                /\ mods'[c].provider = r.want[c].provider
  BY <1>4, <1>5, ModulesCommitted
<1>7. c \in r.reads /\ mods[c] = r.seen[c]
  BY <1>1, <1>2, <1>6 DEF ModulesRequest
<1>8. Guarded(r.seen, r.want, r.reads, r.connSeen, r.connReads)
  BY <1>6 DEF ModulesRequest
<1>9. x \in Modules!Pairs \cap r.connReads /\ r.connSeen[x] = "active"
  BY <1>1, <1>2, <1>6, <1>7, <1>8 DEF Guarded
<1>10. conns[x] = r.connSeen[x]
  BY <1>6, <1>9 DEF ModulesRequest
<1>11. QED
  BY <1>9, <1>10

\* enable, disable and assign_plan keep the dependencies of active modules closed: a module
\* is left active without one it requires only by the unguarded PATCH or by a request that
\* decided on rows another has changed since.
THEOREM DependenciesStayClosed == OfficeSpec => DependenciesClosed
<1>1. ModulesInv /\ [OfficeNext]_<<focus, vars, modulesVars, signingVars, agentsVars,
                                   directoryVars, setupVars>>
        => [Modules!Blameless => Modules!Broken(mods') \subseteq Modules!Broken(mods)]_(Modules!vars)
  BY NothingBroken
<1>2. QED
  BY <1>1, ModulesInvariant, PTL DEF OfficeSpec, DependenciesClosed, Modules!DependenciesClosed

\* A module starts to rely on an external provider only over a connection that provider
\* supports and that is active when the mode is written.
THEOREM ExternalModulesAreBacked == OfficeSpec => ExternalBacked
<1>1. ModulesInv /\ [OfficeNext]_<<focus, vars, modulesVars, signingVars, agentsVars,
                                   directoryVars, setupVars>>
        => [Modules!Blameless => \A x \in Modules!Relies(mods') \ Modules!Relies(mods) :
              x \in Modules!Pairs /\ conns[x] = "active"]_(Modules!vars)
  BY NothingUnbacked
<1>2. QED
  BY <1>1, ModulesInvariant, PTL DEF OfficeSpec, ExternalBacked, Modules!ExternalBacked
=============================================================================
