--------------------------- MODULE WorkItemProcess ---------------------------
(***************************************************************************)
(* One CRM work item of a pipeline, the process overlay of the tenant for  *)
(* that pipeline (configuration and published policy versions), and the    *)
(* process runs that bind the item to a pinned policy version.             *)
(*                                                                         *)
(* The four writers of the stage lock the item FOR UPDATE, then the active *)
(* run FOR UPDATE, evaluate the policy the run is pinned to and write both *)
(* rows.  start_run reads everything without a lock; its insert takes the  *)
(* key-share lock of the foreign key to the item, which waits for a writer *)
(* that holds the item.  Publishing and the end of a run lock nothing.     *)
(***************************************************************************)
EXTENDS Integers, Sequences

CONSTANTS Workers, NoWorker,
          Stages,      \* stage codes of the pipeline
          Policies,    \* transition graphs somebody may publish
          MaxRuns,     \* bound: runs ever started for the item
          MaxVersions, \* bound: policy versions ever published
          Ends         \* how callers of the run service end runs

ASSUME WorkersAssumption == NoWorker \notin Workers
ASSUME StagesAssumption == {"new_lead", "rejected"} \subseteq Stages
ASSUME PoliciesAssumption == Policies \subseteq SUBSET (Stages \X Stages)
ASSUME MaximaAssumption == MaxRuns \in Nat /\ MaxVersions \in Nat
ASSUME EndsAssumption == Ends \subseteq {"completed", "cancelled"}

VARIABLES item,     \* the work item
          holder,   \* holder of the FOR UPDATE lock on the item
          runs,     \* process runs of the item, in the order of their insertion
          config,   \* tenant process configuration of the pipeline
          versions, \* published policies; the index is version_number
          req       \* what each worker is doing

vars == <<item, holder, runs, config, versions, req>>

NoRun == 0
NoVersion == 0
RunStates == {"active", "completed", "cancelled"}
Runs == 1..Len(runs)
Versions == 1..Len(versions)

Idle == [pc |-> "idle", stage |-> "new_lead", run |-> NoRun, ver |-> NoVersion,
         policy |-> {}, end |-> "completed"]

Items == [life : {"none", "live", "deleted"}, stage : Stages]
RunRows == [state : RunStates, ver : Versions, stage : Stages]
Requests == [pc : {"idle", "create", "start", "guard", "apply", "end", "publish"},
             stage : Stages, run : {NoRun} \cup Runs, ver : 0..Len(versions) + 1,
             policy : Policies \cup {{}}, end : RunStates \ {"active"}]

TypeOK ==
  /\ item \in Items
  /\ holder \in Workers \cup {NoWorker}
  /\ runs \in Seq(RunRows)
  /\ config \in [activation : {"inactive", "active"}, active : {NoVersion} \cup Versions]
  /\ config.activation = "active" => config.active # NoVersion
  /\ versions \in Seq(Policies)
  /\ req \in [Workers -> Requests]

Init ==
  /\ item = [life |-> "none", stage |-> "new_lead"]
  /\ holder = NoWorker
  /\ runs = <<>>
  /\ config = [activation |-> "inactive", active |-> NoVersion]
  /\ versions = <<>>
  /\ req = [w \in Workers |-> Idle]

-----------------------------------------------------------------------------
Active == {r \in Runs : runs[r].state = "active"}
LockedRuns == {req[w].run : w \in {v \in Workers : req[v].pc = "apply"}}

Become(w, state) == req' = [req EXCEPT ![w] = state]

\* A request ends: its route commits what it has written, and answers.
Finish(w) == Become(w, Idle)

Run(ver, stage) == [state |-> "active", ver |-> ver, stage |-> stage]

overlayVars == <<config, versions>>

-----------------------------------------------------------------------------
(* Creation, with the automatic start of a run, and deletion.              *)

\* create_work_item up to _maybe_auto_start_process_run: the configuration is read.
BeginCreate(w) ==
  /\ req[w].pc = "idle"
  /\ item.life = "none"
  /\ \A v \in Workers : req[v].pc # "create"
  /\ \E stage \in Stages :
       Become(w, [Idle EXCEPT !.pc = "create", !.stage = stage,
                              !.ver = IF config.activation = "active" THEN config.active
                                                                      ELSE NoVersion])
  /\ UNCHANGED <<item, holder, runs, overlayVars>>

\* The item and its run become visible together.
CommitCreate(w) ==
  /\ req[w].pc = "create"
  /\ item' = [life |-> "live", stage |-> req[w].stage]
  /\ runs' = IF req[w].ver = NoVersion THEN runs
                                       ELSE Append(runs, Run(req[w].ver, req[w].stage))
  /\ Finish(w)
  /\ UNCHANGED <<holder, overlayVars>>

\* delete_work_item: the foreign key of the runs is RESTRICT.
DeleteWorkItem ==
  /\ item.life = "live"
  /\ holder = NoWorker
  /\ runs = <<>>
  /\ item' = [item EXCEPT !.life = "deleted"]
  /\ UNCHANGED <<holder, runs, overlayVars, req>>

-----------------------------------------------------------------------------
(* The run service: start_run, complete_run, cancel_run.                   *)

\* Configuration, item, existing run and stage, all read without a lock.
ReadStart(w) ==
  /\ req[w].pc = "idle"
  /\ Len(runs) < MaxRuns
  /\ config.activation = "active"
  /\ item.life = "live"
  /\ Active = {}
  /\ Become(w, [Idle EXCEPT !.pc = "start", !.stage = item.stage, !.ver = config.active])
  /\ UNCHANGED <<item, holder, runs, overlayVars>>

\* Mutant: the table has no unique index on the active run of an item.
InsertRun_NoUniqueIndex(w) ==
  /\ req[w].pc = "start"
  /\ holder = NoWorker
  /\ Len(runs) < MaxRuns
  /\ runs' = IF item.life = "live" THEN Append(runs, Run(req[w].ver, req[w].stage)) ELSE runs
  /\ Finish(w)
  /\ UNCHANGED <<item, holder, overlayVars>>

\* The insert waits for a writer that holds the item.  The foreign key refuses it when
\* the item is gone, the partial unique index when another run is active.
InsertRun(w) ==
  /\ req[w].pc = "start"
  /\ holder = NoWorker
  /\ Len(runs) < MaxRuns
  /\ runs' = IF item.life = "live" /\ Active = {}
               THEN Append(runs, Run(req[w].ver, req[w].stage)) ELSE runs
  /\ Finish(w)
  /\ UNCHANGED <<item, holder, overlayVars>>

\* _get_active_run_or_raise reads the run without a lock.
ReadRunToEnd(w) ==
  /\ req[w].pc = "idle"
  /\ \E r \in Active, end \in Ends :
       Become(w, [Idle EXCEPT !.pc = "end", !.run = r, !.end = end])
  /\ UNCHANGED <<item, holder, runs, overlayVars>>

\* update_run_lifecycle writes by primary key, whatever the run became meanwhile.
EndRun(w) ==
  /\ req[w].pc = "end"
  /\ req[w].run \notin LockedRuns
  /\ runs' = [runs EXCEPT ![req[w].run].state = req[w].end]
  /\ Finish(w)
  /\ UNCHANGED <<item, holder, overlayVars>>

-----------------------------------------------------------------------------
(* The writers of the stage: move_stage, update_work_item, close, reopen.  *)

Move(w, stage) ==
  /\ req[w].pc = "idle"
  /\ item.life = "live"
  /\ holder = NoWorker
  /\ holder' = w
  /\ Become(w, [Idle EXCEPT !.pc = "guard", !.stage = stage])
  /\ UNCHANGED <<item, runs, overlayVars>>

\* move_stage, and update_work_item with a stage: naming the same stage changes nothing.
MoveStage(w) == \E stage \in Stages \ {item.stage} : Move(w, stage)

\* close_work_item, an item that is rejected already included.
CloseWorkItem(w) == Move(w, "rejected")

ReopenWorkItem(w) == item.stage = "rejected" /\ Move(w, "new_lead")

\* Mutant: the guard reads the policy the configuration points to now.
GuardAllows_CurrentPolicy(w) ==
  /\ req[w].pc = "guard"
  /\ \/ /\ item.stage = req[w].stage \/ Active = {}
        /\ Become(w, [req[w] EXCEPT !.pc = "apply"])
     \/ \E r \in Active :
          /\ item.stage # req[w].stage
          /\ r \notin LockedRuns
          /\ <<item.stage, req[w].stage>> \in versions[config.active]
          /\ Become(w, [req[w] EXCEPT !.pc = "apply", !.run = r])
  /\ UNCHANGED <<item, holder, runs, overlayVars>>

\* assert_transition_allowed: no transition, no active run, or an edge of the policy the
\* active run is pinned to; that run is locked from here on.
GuardAllows(w) ==
  /\ req[w].pc = "guard"
  /\ \/ /\ item.stage = req[w].stage \/ Active = {}
        /\ Become(w, [req[w] EXCEPT !.pc = "apply"])
     \/ \E r \in Active :
          /\ item.stage # req[w].stage
          /\ r \notin LockedRuns
          /\ <<item.stage, req[w].stage>> \in versions[runs[r].ver]
          /\ Become(w, [req[w] EXCEPT !.pc = "apply", !.run = r])
  /\ UNCHANGED <<item, holder, runs, overlayVars>>

\* ProcessTransitionDeniedError: the transaction is rolled back.
GuardDenies(w) ==
  /\ req[w].pc = "guard"
  /\ item.stage # req[w].stage
  /\ \E r \in Active : <<item.stage, req[w].stage>> \notin versions[runs[r].ver]
  /\ holder' = NoWorker
  /\ Finish(w)
  /\ UNCHANGED <<item, runs, overlayVars>>

\* Mutant: one of the writers does not report the transition it applied.
ApplyStage_NoSync(w) ==
  /\ req[w].pc = "apply"
  /\ item' = [item EXCEPT !.stage = req[w].stage]
  /\ holder' = NoWorker
  /\ Finish(w)
  /\ UNCHANGED <<runs, overlayVars>>

\* The stage, and record_applied_transition when the policy was enforced; then the commit.
ApplyStage(w) ==
  /\ req[w].pc = "apply"
  /\ item' = [item EXCEPT !.stage = req[w].stage]
  /\ runs' = IF req[w].run = NoRun THEN runs
                                   ELSE [runs EXCEPT ![req[w].run].stage = req[w].stage]
  /\ holder' = NoWorker
  /\ Finish(w)
  /\ UNCHANGED overlayVars

-----------------------------------------------------------------------------
(* The overlay: publication and activation.                                *)

\* publish_definition_version reads the highest number ...
BeginPublish(w) ==
  /\ req[w].pc = "idle"
  /\ Len(versions) < MaxVersions
  /\ \E policy \in Policies :
       Become(w, [Idle EXCEPT !.pc = "publish", !.policy = policy, !.ver = Len(versions) + 1])
  /\ UNCHANGED <<item, holder, runs, overlayVars>>

\* ... and inserts the next one, unless another publication took that number.
InsertVersion(w) ==
  /\ req[w].pc = "publish"
  /\ versions' = IF req[w].ver = Len(versions) + 1 THEN Append(versions, req[w].policy)
                                                   ELSE versions
  /\ Finish(w)
  /\ UNCHANGED <<item, holder, runs, config>>

SetActiveDefinitionVersion ==
  /\ \E v \in Versions : config' = [config EXCEPT !.active = v]
  /\ UNCHANGED <<item, holder, runs, versions, req>>

ActivateConfiguration ==
  /\ config.active # NoVersion
  /\ config' = [config EXCEPT !.activation = "active"]
  /\ UNCHANGED <<item, holder, runs, versions, req>>

DeactivateConfiguration ==
  /\ config' = [config EXCEPT !.activation = "inactive"]
  /\ UNCHANGED <<item, holder, runs, versions, req>>

-----------------------------------------------------------------------------
\* A request dies: its transaction is rolled back and its locks are dropped.
Abort(w) ==
  /\ req[w].pc # "idle"
  /\ holder' = IF holder = w THEN NoWorker ELSE holder
  /\ Finish(w)
  /\ UNCHANGED <<item, runs, overlayVars>>

Arrive(w) ==
  \/ BeginCreate(w) \/ ReadStart(w) \/ ReadRunToEnd(w) \/ BeginPublish(w)
  \/ MoveStage(w) \/ CloseWorkItem(w) \/ ReopenWorkItem(w)

Step(w) ==
  \/ CommitCreate(w) \/ InsertRun(w) \/ EndRun(w) \/ GuardAllows(w) \/ GuardDenies(w)
  \/ ApplyStage(w) \/ InsertVersion(w)

Next ==
  \/ DeleteWorkItem \/ SetActiveDefinitionVersion
  \/ ActivateConfiguration \/ DeactivateConfiguration
  \/ \E w \in Workers : Arrive(w) \/ Step(w) \/ Abort(w)

Spec == Init /\ [][Next]_vars

-----------------------------------------------------------------------------
(* Correctness.                                                            *)

\* "One ACTIVE run per work item", although start_run checks for one long before its
\* insert and a creation starts a run of its own.
OneActiveRun == \A r, s \in Active : r = s

\* A stage change of an item with an active run follows an edge of the policy that run is
\* pinned to, whatever is published, activated, started or ended between the guard of the
\* writer and its write ("never current active config pointer").
PolicyHonoured ==
  [][\A r \in Active : item'.stage # item.stage =>
       <<item.stage, item'.stage>> \in versions[runs[r].ver]]_vars

InSync(r) == runs[r].state = "active" /\ runs[r].stage = item.stage

\* A run that shows the stage of its item goes on showing it for as long as it is active:
\* no writer moves the item past its run.
StageSyncKept ==
  [][\A r \in Runs : InSync(r) /\ runs'[r].state = "active" =>
       runs'[r].stage = item'.stage]_vars
=============================================================================
