-------------------------- MODULE OperatorToolsProofs --------------------------
(***************************************************************************)
(* Proofs about the two tools that operators run by hand: lead automation  *)
(* with the leads that read its settings, and the import of the legacy     *)
(* database, for any operators, users, directories, templates, leads,      *)
(* batches and copies.                                                     *)
(*                                                                         *)
(* The first tool holds the settings row from its backup to its commit,    *)
(* and only the holder touches the directory it has taken; what a          *)
(* directory of a successful apply holds is therefore never touched again. *)
(*                                                                         *)
(* The rate limiter is an argument of its own.  A stamp is never later     *)
(* than the clock, so a hit that the window of a rule still holds is never *)
(* dropped from the bucket of that rule, however long its request or       *)
(* another has waited for the lock; the bucket is what is compared with    *)
(* the maximum.                                                            *)
(*                                                                         *)
(* The import knows of other executions only what the registry says, so    *)
(* the second half proves the registry accurate first.                     *)
(***************************************************************************)
EXTENDS LeadAutomation, StagingImport, FiniteSetTheorems, TLAPS


\* The part of TypeOK that concerns the tool, the settings and the stages of the leads.
SettingsType ==
  /\ config \in Configs
  /\ holder \in Operators \cup {None}
  /\ op \in [Operators -> Commands]
  /\ backups \in [Dirs -> Backups]
  /\ template \in {Idle} \cup [pc : {"applying"}, doc : Docs, was : Configs]
  /\ members \subseteq Users
  /\ lead \in [Leads -> LeadStates]
  /\ applied \subseteq [dir : Dirs, before : Configs, after : Configs]

\* What the directory of a running apply holds.
Kept(c) ==
  IF c.pc = "backed_up"
    THEN [manifest |-> "open", config |-> c.expected]
    ELSE [manifest |-> "final", config |-> c.expected, after |-> Merged(c.expected, c.assignee)]

Applying(o) == op[o].pc \in {"backed_up", "finalized"}

\* A running apply holds the row, so the settings are still those its operator passed the
\* hash of, and its directory is its own.
Locking ==
  \A o \in Operators : Applying(o) =>
    /\ holder = o /\ config = op[o].expected
    /\ backups[op[o].dir] = Kept(op[o])
    /\ \A a \in applied : a.dir # op[o].dir

\* A final manifest names settings that differ from the backup in the block only.
Faithful(b) == b.manifest = "final" => b.after.doc = b.config.doc
Loadable(b) == Faithful(b) /\ b.manifest # "absent"
Filed ==
  /\ \A d \in Dirs : Faithful(backups[d])
  /\ \A o \in Operators : op[o].pc = "loaded" => Loadable(op[o].backup)

IInv == SettingsType /\ Locking /\ Filed /\ AppliedHasBackup

-----------------------------------------------------------------------------
(* Settings and files.                                                     *)

LEMMA MergedTyped ==
  ASSUME NEW c \in Configs, NEW block \in Users \cup {None, Off}
  PROVE  Merged(c, block) \in Configs /\ Merged(c, block).doc = c.doc
BY DEF Merged, Configs

\* Only one operator applies at a time.
LEMMA OneApplies ==
  ASSUME IInv, NEW o \in Operators, holder \in {o, None}
  PROVE  \A x \in Operators : x # o => ~Applying(x)
BY LeadAssumption DEF IInv, Locking

\* A step of operator o that touches neither settings, nor files, nor the row keeps the
\* invariant if it leaves o idle, or with a command that holds nothing.
LEMMA Deciding ==
  ASSUME IInv, NEW o \in Operators, NEW c \in Commands,
         c.pc \notin {"backed_up", "finalized"}, c.pc = "loaded" => Loadable(c.backup),
         op' = [op EXCEPT ![o] = c], ~Applying(o) \/ holder' = None,
         UNCHANGED <<config, overlay, backups, template, members, lead, applied>>,
         holder' = holder \/ (holder = o /\ holder' = None)
  PROVE  IInv'
<1>1. \A x \in Operators : op'[x] = IF x = o THEN c ELSE op[x]
  BY DEF IInv, SettingsType
<1>2. SettingsType'
  BY DEF IInv, SettingsType
<1>3. Locking'
  <2>. SUFFICES ASSUME NEW x \in Operators, Applying(x)'
                PROVE  /\ holder' = x /\ config' = op'[x].expected
                       /\ backups'[op'[x].dir] = Kept(op'[x])
                       /\ \A a \in applied' : a.dir # op'[x].dir
    BY DEF Locking, Applying, Kept
  <2>1. x # o /\ Applying(x)
    BY <1>1 DEF Applying
  <2>2. holder = x
    BY <2>1 DEF IInv, Locking
  <2>. QED BY <1>1, <2>1, <2>2 DEF IInv, Locking
<1>4. Filed'
  BY <1>1 DEF IInv, Filed, Loadable, Faithful
<1>5. AppliedHasBackup'
  BY DEF IInv, AppliedHasBackup
<1>. QED BY <1>2, <1>3, <1>4, <1>5 DEF IInv
LEMMA DecidingSteps ==
  ASSUME IInv, NEW o \in Operators,
         \/ DryRun(o) \/ Mismatch(o)
         \/ \E u \in Users : CheckAssignee(o, u)
         \/ \E d \in Dirs : ApplyRefused(o, d) \/ LoadBackup(o, d)
  PROVE  IInv'
<1>. USE DEF Becomes, settings, intake
<1>1. op[o] \in Commands /\ config \in Configs
  BY DEF IInv, SettingsType
<1>2. CASE DryRun(o)
  <2>. DEFINE c == [pc |-> "noted", expected |-> config]
  <2>1. c \in Commands /\ c.pc = "noted"
    BY <1>1 DEF Commands
  <2>2. op' = [op EXCEPT ![o] = c] /\ ~Applying(o)
    BY <1>2 DEF DryRun, Idle, Applying
  <2>. HIDE DEF c
  <2>. QED BY <1>2, <2>1, <2>2, Deciding DEF DryRun
<1>3. CASE Mismatch(o) \/ \E d \in Dirs : ApplyRefused(o, d)
  <2>1. Idle \in Commands
    BY DEF Commands
  <2>. QED BY <1>3, <2>1, Deciding DEF Mismatch, ApplyRefused, Resolved, Idle, Applying
<1>4. CASE \E u \in Users : CheckAssignee(o, u)
  <2>1. PICK u \in Users : CheckAssignee(o, u)
    BY <1>4
  <2>2. [pc |-> "checked", expected |-> op[o].expected, assignee |-> u] \in Commands
    BY <1>1, <2>1 DEF CheckAssignee, Commands, Idle
  <2>. QED BY <2>1, <2>2, Deciding DEF CheckAssignee, Applying
<1>5. CASE \E d \in Dirs : LoadBackup(o, d)
  <2>1. PICK d \in Dirs : LoadBackup(o, d)
    BY <1>5
  <2>. DEFINE c == [pc |-> "loaded", backup |-> backups[d],
                    expected |-> IF op[o].pc = "noted" THEN op[o].expected ELSE NoHash]
  <2>2. backups[d] \in Backups /\ Faithful(backups[d])
    BY DEF IInv, SettingsType, Filed
  <2>3. c \in Commands
    BY <1>1, <2>1, <2>2 DEF LoadBackup, Commands, Idle
  <2>4. ~Applying(o) /\ Loadable(backups[d])
    BY <2>1, <2>2 DEF LoadBackup, Applying, Loadable
  <2>5. c.pc = "loaded" /\ c.backup = backups[d] /\ op' = [op EXCEPT ![o] = c]
    BY <2>1 DEF LoadBackup
  <2>. HIDE DEF c
  <2>. QED BY <2>1, <2>2, <2>3, <2>4, <2>5, Deciding DEF LoadBackup
<1>. QED BY <1>2, <1>3, <1>4, <1>5

-----------------------------------------------------------------------------
(* The apply.                                                              *)

LEMMA BeginApplyKeeps ==
  ASSUME IInv, NEW o \in Operators, NEW d \in Dirs, BeginApply(o, d)
  PROVE  IInv'
<1>. DEFINE c == [pc |-> "backed_up", expected |-> op[o].expected, dir |-> d,
                  assignee |-> op[o].assignee]
<1>1. /\ op[o].pc = "checked" /\ holder = None /\ config = op[o].expected
      /\ backups[d] = NoBackup
      /\ UNCHANGED <<config, template, members, lead, applied>>
  BY DEF BeginApply, Resolved, settings, intake
<1>2. op[o] \in Commands /\ op[o].expected \in Configs /\ op[o].assignee \in Users
  BY <1>1 DEF IInv, SettingsType, Commands, Idle
<1>3. \A x \in Operators : ~Applying(x)
  BY <1>1, OneApplies DEF Applying
<1>4. \A a \in applied : a.dir # d
  <2>1. ASSUME NEW a \in applied PROVE backups[a.dir].manifest = "final"
    <3>1. backups[a.dir] = [manifest |-> "final", config |-> a.before, after |-> a.after]
      BY DEF IInv, AppliedHasBackup
    <3>. QED BY <3>1
  <2>2. backups[d].manifest = "absent"
    BY <1>1 DEF NoBackup
  <2>. QED BY <2>1, <2>2
<1>5. PICK b \in Backups :
        /\ backups' = [backups EXCEPT ![d] = b]
        /\ b.manifest # "final"
        /\ \/ /\ b = [manifest |-> "open", config |-> config]
              /\ holder' = o /\ op' = [op EXCEPT ![o] = c]
           \/ holder' = holder /\ op' = [op EXCEPT ![o] = Idle]
  <2>1. CASE /\ backups' = [backups EXCEPT ![d] = [manifest |-> "open", config |-> config]]
             /\ holder' = o /\ BackedUp(o, d)
    <3>1. [manifest |-> "open", config |-> config] \in Backups
      BY <1>1, <1>2 DEF Backups
    <3>. QED BY <2>1, <3>1 DEF BackedUp, Becomes
  <2>2. CASE /\ \E b \in BackupTrace(config) : backups' = [backups EXCEPT ![d] = b]
             /\ Becomes(o, Idle) /\ UNCHANGED holder
    <3>1. PICK b \in BackupTrace(config) : backups' = [backups EXCEPT ![d] = b]
      BY <2>2
    <3>2. b \in Backups /\ b.manifest # "final"
      BY <1>1, <1>2 DEF BackupTrace, Backups, NoBackup
    <3>. QED BY <2>2, <3>1, <3>2 DEF Becomes
  <2>. QED BY <2>1, <2>2 DEF BeginApply
<1>6. SettingsType'
  <2>1. c \in Commands /\ Idle \in Commands
    BY <1>2 DEF Commands
  <2>. QED BY <1>1, <1>5, <2>1 DEF IInv, SettingsType
<1>7. \A x \in Operators : x # o => op'[x] = op[x]
  BY <1>5 DEF IInv, SettingsType
<1>8. op'[o] = c \/ op'[o] = Idle
  BY <1>5 DEF IInv, SettingsType
<1>9. Locking'
  <2>. SUFFICES ASSUME NEW x \in Operators, op'[x].pc \in {"backed_up", "finalized"}
                PROVE  /\ holder' = x /\ config' = op'[x].expected
                       /\ backups'[op'[x].dir] = Kept(op'[x])
                       /\ \A a \in applied' : a.dir # op'[x].dir
    BY DEF Locking, Applying, Kept
  <2>1. x = o /\ op'[o] = c
    BY <1>3, <1>7, <1>8 DEF Applying, Idle
  <2>2. op' # [op EXCEPT ![o] = Idle]
    BY <2>1 DEF IInv, SettingsType, Idle
  <2>3. backups'[d] = [manifest |-> "open", config |-> config] /\ holder' = o
    BY <1>5, <2>2 DEF IInv, SettingsType
  <2>. QED BY <1>1, <1>4, <2>1, <2>3 DEF Kept
<1>10. Filed'
  BY <1>5, <1>7, <1>8 DEF IInv, SettingsType, Filed, Loadable, Faithful, Idle
<1>11. AppliedHasBackup'
  BY <1>1, <1>4, <1>5 DEF IInv, SettingsType, AppliedHasBackup
<1>. QED BY <1>6, <1>9, <1>10, <1>11 DEF IInv

LEMMA FinalizeKeeps ==
  ASSUME IInv, NEW o \in Operators, Finalize(o)
  PROVE  IInv'
<1>. DEFINE c == [op[o] EXCEPT !.pc = "finalized"]
            b == [manifest |-> "final", config |-> op[o].expected,
                  after |-> Merged(op[o].expected, op[o].assignee)]
<1>1. /\ op[o].pc = "backed_up" /\ Applying(o)
      /\ backups' = [backups EXCEPT ![op[o].dir] = b] /\ op' = [op EXCEPT ![o] = c]
      /\ UNCHANGED <<config, holder, template, members, lead, applied>>
  BY DEF Finalize, Becomes, settings, intake, Applying
<1>2. /\ op[o] \in [pc : {"backed_up", "finalized"}, expected : Configs, dir : Dirs,
                    assignee : Users]
      /\ c \in Commands /\ c.pc = "finalized" /\ c.expected = op[o].expected
      /\ c.dir = op[o].dir /\ c.assignee = op[o].assignee
  BY <1>1 DEF IInv, SettingsType, Commands, Idle
<1>3. b \in Backups /\ Faithful(b) /\ b = Kept(c)
  BY <1>2, MergedTyped DEF Backups, Faithful, Kept
<1>4. \A x \in Operators : x # o => op'[x] = op[x] /\ ~Applying(x)
  BY <1>1, OneApplies DEF IInv, SettingsType, Locking
<1>5. op'[o] = c
  BY <1>1 DEF IInv, SettingsType
<1>. HIDE DEF c, b
<1>6. SettingsType'
  BY <1>1, <1>2, <1>3 DEF IInv, SettingsType
<1>7. \A a \in applied : a.dir # op[o].dir
  BY <1>1 DEF IInv, Locking
<1>8. Locking'
  <2>. SUFFICES ASSUME NEW x \in Operators, op'[x].pc \in {"backed_up", "finalized"}
                PROVE  /\ holder' = x /\ config' = op'[x].expected
                       /\ backups'[op'[x].dir] = Kept(op'[x])
                       /\ \A a \in applied' : a.dir # op'[x].dir
    BY DEF Locking, Applying, Kept
  <2>1. x = o
    BY <1>4 DEF Applying
  <2>. QED BY <1>1, <1>2, <1>3, <1>5, <1>7, <2>1 DEF IInv, SettingsType, Locking
<1>9. Filed'
  BY <1>1, <1>2, <1>3, <1>4, <1>5 DEF IInv, SettingsType, Filed, Loadable, Faithful
<1>10. AppliedHasBackup'
  BY <1>1, <1>7 DEF IInv, SettingsType, AppliedHasBackup
<1>. QED BY <1>6, <1>8, <1>9, <1>10 DEF IInv

\* The end of an apply: the row is let go, and only its directory may have changed.
LEMMA Ended ==
  ASSUME IInv, NEW o \in Operators, Applying(o), NEW b \in Backups, Faithful(b),
         backups' = [backups EXCEPT ![op[o].dir] = b],
         op' = [op EXCEPT ![o] = Idle], holder' = None, config' \in Configs,
         \/ applied' = applied
         \/ /\ b = [manifest |-> "final", config |-> op[o].expected, after |-> config']
            /\ applied' = applied \cup {[dir |-> op[o].dir, before |-> op[o].expected,
                                         after |-> config']},
         UNCHANGED <<template, members, lead>>
  PROVE  IInv'
<1>1. op[o].dir \in Dirs /\ op[o].expected \in Configs
  BY DEF IInv, SettingsType, Commands, Applying, Idle
<1>2. \A x \in Operators : x # o => op'[x] = op[x] /\ ~Applying(x)
  BY OneApplies DEF IInv, SettingsType, Locking
<1>3. op'[o] = Idle
  BY DEF IInv, SettingsType
<1>4. SettingsType'
  <2>1. Idle \in Commands
    BY DEF Commands
  <2>2. applied' \subseteq [dir : Dirs, before : Configs, after : Configs]
    BY <1>1 DEF IInv, SettingsType
  <2>. QED BY <1>1, <2>1, <2>2 DEF IInv, SettingsType
<1>5. Locking'
  BY <1>2, <1>3 DEF Locking, Applying, Idle
<1>6. Filed'
  BY <1>1, <1>2, <1>3 DEF IInv, SettingsType, Filed, Loadable, Faithful, Idle
<1>7. AppliedHasBackup'
  <2>1. \A a \in applied : a.dir # op[o].dir
    BY DEF IInv, Locking
  <2>2. \A a \in applied : backups'[a.dir] =
          [manifest |-> "final", config |-> a.before, after |-> a.after]
    BY <1>1, <2>1 DEF IInv, SettingsType, AppliedHasBackup
  <2>3. backups'[op[o].dir] = b
    BY <1>1 DEF IInv, SettingsType
  <2>4. ASSUME NEW a \in applied'
        PROVE  backups'[a.dir] = [manifest |-> "final", config |-> a.before, after |-> a.after]
    <3>1. CASE a \in applied
      BY <2>2, <3>1
    <3>2. CASE a \notin applied
      <4>1. /\ a.dir = op[o].dir /\ a.before = op[o].expected /\ a.after = config'
            /\ b = [manifest |-> "final", config |-> op[o].expected, after |-> config']
        BY <3>2
      <4>. QED BY <2>3, <4>1
    <3>. QED BY <3>1, <3>2
  <2>. QED BY <2>4 DEF AppliedHasBackup
<1>. QED BY <1>4, <1>5, <1>6, <1>7 DEF IInv

LEMMA EndingSteps ==
  ASSUME IInv, NEW o \in Operators, CommitApply(o) \/ FailApply(o) \/ Crash(o)
  PROVE  IInv'
<1>. USE DEF Becomes, settings, intake
<1>1. Applying(o) /\ op' = [op EXCEPT ![o] = Idle] /\ UNCHANGED <<template, members, lead>>
  BY DEF CommitApply, FailApply, Crash, Applying
<1>2. holder' = None
  BY <1>1 DEF CommitApply, FailApply, Crash, Release, IInv, Locking
<1>3. /\ op[o].dir \in Dirs /\ op[o].expected \in Configs /\ op[o].assignee \in Users
      /\ config \in Configs
  BY <1>1 DEF IInv, SettingsType, Commands, Applying, Idle
<1>4. NoBackup \in Backups /\ Faithful(NoBackup)
  BY DEF Backups, NoBackup, Faithful
<1>5. /\ backups \in [Dirs -> Backups] /\ Faithful(backups[op[o].dir])
      /\ backups[op[o].dir] = Kept(op[o])
  BY <1>1, <1>3 DEF IInv, SettingsType, Filed, Locking
<1>6. CASE CommitApply(o)
  <2>1. config' = Merged(op[o].expected, op[o].assignee) /\ config' \in Configs
    BY <1>3, <1>6, MergedTyped DEF CommitApply
  <2>2. backups[op[o].dir] =
          [manifest |-> "final", config |-> op[o].expected, after |-> config']
    BY <1>5, <1>6, <2>1 DEF CommitApply, Kept
  <2>3. CASE applied' # applied \/ UNCHANGED backups
    <3>1. backups' = [backups EXCEPT ![op[o].dir] = backups[op[o].dir]]
      BY <1>5, <1>6, <2>3 DEF CommitApply
    <3>2. \/ applied' = applied
          \/ applied' = applied \cup {[dir |-> op[o].dir, before |-> op[o].expected,
                                       after |-> config']}
      BY <1>6 DEF CommitApply
    <3>. QED BY <1>1, <1>2, <1>3, <1>5, <2>1, <2>2, <3>1, <3>2, Ended
  <2>4. CASE applied' = applied /\ backups' = [backups EXCEPT ![op[o].dir] = NoBackup]
    BY <1>1, <1>2, <1>4, <2>1, <2>4, Ended
  <2>. QED BY <1>6, <2>3, <2>4 DEF CommitApply
<1>7. CASE FailApply(o)
  BY <1>1, <1>2, <1>3, <1>4, <1>7, Ended DEF FailApply
<1>8. CASE Crash(o)
  <2>. DEFINE torn == [backups[op[o].dir] EXCEPT !.manifest = "torn"]
  <2>1. CASE UNCHANGED backups
    <3>1. backups' = [backups EXCEPT ![op[o].dir] = backups[op[o].dir]]
      BY <1>5, <2>1
    <3>2. backups[op[o].dir] \in Backups
      BY <1>3, <1>5
    <3>. QED BY <1>1, <1>2, <1>3, <1>5, <1>8, <3>1, <3>2, Ended DEF Crash
  <2>2. CASE op[o].pc = "backed_up" /\ backups' = [backups EXCEPT ![op[o].dir] = torn]
    <3>1. torn = [manifest |-> "torn", config |-> op[o].expected]
      BY <1>5, <2>2 DEF Kept
    <3>2. torn \in Backups /\ Faithful(torn)
      BY <1>3, <3>1 DEF Backups, Faithful
    <3>. QED BY <1>1, <1>2, <1>3, <1>8, <2>2, <3>2, Ended DEF Crash
  <2>3. \/ UNCHANGED backups
        \/ op[o].pc = "backed_up" /\ backups' = [backups EXCEPT ![op[o].dir] = torn]
    BY <1>5, <1>8 DEF Crash
  <2>. QED BY <2>1, <2>2, <2>3
<1>. QED BY <1>6, <1>7, <1>8

-----------------------------------------------------------------------------
(* The rollback, and everybody else.                                       *)

LEMMA RollbackKeeps ==
  ASSUME IInv, NEW o \in Operators, RunRollback(o)
  PROVE  IInv'
<1>1. /\ op[o].pc = "loaded" /\ holder = None /\ op' = [op EXCEPT ![o] = Idle]
      /\ config' = config \/ config' = Restored(op[o])
      /\ UNCHANGED <<holder, backups, template, members, lead, applied>>
  BY DEF RunRollback, Becomes, intake
<1>2. op[o].backup \in Backups /\ config \in Configs
  BY <1>1 DEF IInv, SettingsType, Commands, Idle
<1>3. config' \in Configs
  <2>1. CASE config' = config
    BY <1>2, <2>1
  <2>2. ASSUME config' = Restored(op[o]), op[o].backup.config = Empty PROVE config' \in Configs
    BY <1>2, <2>2, MergedTyped DEF Restored
  <2>3. ASSUME config' = Restored(op[o]), op[o].backup.config # Empty,
               op[o].backup # NoBackup
        PROVE  config' \in Configs
    BY <1>2, <2>3 DEF Restored, Backups
  <2>4. op[o].backup # NoBackup
    BY <1>1 DEF IInv, Filed, Loadable, NoBackup
  <2>. QED BY <1>1, <2>1, <2>2, <2>3, <2>4
<1>4. SettingsType'
  <2>1. Idle \in Commands
    BY DEF Commands
  <2>. QED BY <1>1, <1>3, <2>1 DEF IInv, SettingsType
<1>5. \A x \in Operators : op'[x].pc \notin {"backed_up", "finalized"}
  BY <1>1, OneApplies DEF IInv, SettingsType, Applying, Idle
<1>6. Locking' /\ Filed'
  BY <1>1, <1>5 DEF IInv, SettingsType, Locking, Applying, Filed, Loadable, Faithful, Idle
<1>7. AppliedHasBackup'
  BY <1>1 DEF IInv, AppliedHasBackup
<1>. QED BY <1>4, <1>6, <1>7 DEF IInv

LEMMA OthersKeep ==
  ASSUME IInv,
         \/ \E d \in Docs : ReadTemplate(d)
         \/ WriteTemplate \/ Tick
         \/ \E u \in Users : Deactivate(u)
  PROVE  IInv'
<1>. DEFINE Steps == {Idle} \cup [pc : {"applying"}, doc : Docs, was : Configs]
<1>1. /\ UNCHANGED <<holder, op, backups, applied, lead>>
      /\ members' \subseteq members
      /\ template' \in Steps
      /\ (config' = config \/ holder = None) /\ config' \in Configs
  <2>1. config \in Configs /\ template \in Steps /\ members \subseteq Users
    BY DEF IInv, SettingsType
  <2>2. CASE \E d \in Docs : ReadTemplate(d)
    BY <2>1, <2>2 DEF ReadTemplate, ops, intake
  <2>3. CASE WriteTemplate
    <3>1. template.doc \in Docs
      BY <2>1, <2>3 DEF WriteTemplate, Idle
    <3>2. TemplateConfig(template.doc) \in Configs
      BY <3>1 DEF TemplateConfig, Configs
    <3>. QED BY <2>1, <2>3, <3>2 DEF WriteTemplate, ops, intake
  <2>4. CASE Tick
    BY <2>1, <2>4 DEF Tick, ops, settings
  <2>5. CASE \E u \in Users : Deactivate(u)
    BY <2>1, <2>5 DEF Deactivate, ops, intake
  <2>. QED BY <2>2, <2>3, <2>4, <2>5
<1>2. SettingsType' /\ Filed' /\ AppliedHasBackup'
  BY <1>1 DEF IInv, SettingsType, Filed, Faithful, Loadable, AppliedHasBackup
<1>3. Locking'
  <2>1. CASE config' = config
    BY <1>1, <2>1 DEF IInv, Locking, Applying, Kept
  <2>2. CASE holder = None
    <3>1. \A o \in Operators : ~Applying(o)
      BY <2>2, LeadAssumption DEF IInv, Locking
    <3>. QED BY <1>1, <3>1 DEF Locking, Applying
  <2>. QED BY <1>1, <2>1, <2>2
<1>. QED BY <1>2, <1>3 DEF IInv

\* What a lead has seen and missed when it is committed.
LEMMA CreatedTyped ==
  ASSUME SettingsType, NEW l \in Leads, NEW task \in Users \cup {None},
         lead[l].pc = "started", Created(l, task)
  PROVE  /\ lead' \in [Leads -> LeadStates]
         /\ lead'[l].pc = "created" /\ lead'[l].unseen = lead[l].unseen
         /\ \A m \in Leads : m # l =>
              /\ lead'[m].pc = lead[m].pc
              /\ lead[m].pc \notin {"matched", "started"} => lead'[m] = lead[m]
              /\ lead[m].pc \in {"matched", "started"} =>
                   /\ lead'[m].reused = lead[m].reused
                   /\ lead'[m].unseen = lead[m].unseen \cup NewParty(l)
<1>1. /\ lead[l].reused \in BOOLEAN /\ lead[l].unseen \in SUBSET Leads /\ lead[l].run \in BOOLEAN
  <2>1. lead[l] \in LeadStates
    BY DEF SettingsType
  <2>. QED BY <2>1 DEF LeadStates
<1>. DEFINE s == [pc |-> "created", reused |-> lead[l].reused, unseen |-> lead[l].unseen,
                  run |-> lead[l].run, task |-> task]
            t(m) == [lead[m] EXCEPT !.unseen = @ \cup NewParty(l)]
<1>2. s \in LeadStates /\ s.pc = "created" /\ s.unseen = lead[l].unseen
  BY <1>1 DEF LeadStates
<1>3. ASSUME NEW m \in Leads, Looking(m)
      PROVE  /\ t(m) \in LeadStates /\ t(m).pc = lead[m].pc /\ t(m).reused = lead[m].reused
             /\ t(m).unseen = lead[m].unseen \cup NewParty(l)
  <2>1. lead[m] \in LeadStates /\ NewParty(l) \subseteq Leads
    BY DEF SettingsType, NewParty
  <2>2. CASE lead[m].pc = "matched"
    <3>1. lead[m] \in [pc : {"matched"}, reused : BOOLEAN, unseen : SUBSET Leads]
      BY <2>1, <2>2 DEF LeadStates
    <3>2. t(m) \in [pc : {"matched"}, reused : BOOLEAN, unseen : SUBSET Leads]
      BY <2>1, <3>1
    <3>. QED BY <3>1, <3>2 DEF LeadStates
  <2>3. CASE lead[m].pc = "started"
    <3>1. lead[m] \in [pc : {"started"}, reused : BOOLEAN, unseen : SUBSET Leads, run : BOOLEAN]
      BY <2>1, <2>3 DEF LeadStates
    <3>2. t(m) \in [pc : {"started"}, reused : BOOLEAN, unseen : SUBSET Leads, run : BOOLEAN]
      BY <2>1, <3>1
    <3>. QED BY <3>1, <3>2 DEF LeadStates
  <2>. QED BY <1>3, <2>2, <2>3 DEF Looking
<1>4. lead' = [m \in Leads |-> IF m = l THEN s ELSE IF Looking(m) THEN t(m) ELSE lead[m]]
  BY DEF Created
<1>. HIDE DEF s, t
<1>5. \A m \in Leads :
        lead'[m] = IF m = l THEN s ELSE IF Looking(m) THEN t(m) ELSE lead[m]
  BY <1>4
<1>6. \A m \in Leads : lead'[m] \in LeadStates
  BY <1>2, <1>3, <1>5 DEF SettingsType
<1>7. lead' \in [Leads -> LeadStates]
  BY <1>4, <1>6
<1>. QED BY <1>2, <1>3, <1>5, <1>7 DEF Looking

\* The steps of a lead before its commit, and its refusal.
LEMMA LeadMoves ==
  ASSUME SettingsType, clock \in 0 .. MaxClock, NEW l \in Leads,
         \/ Arrive(l) \/ Count(l) \/ Match(l) \/ StartRun(l)
         \/ FinishLead(l) /\ lead' = [lead EXCEPT ![l] = [pc |-> "refused"]]
  PROVE  \E s \in LeadStates : lead' = [lead EXCEPT ![l] = s]
<1>1. lead[l] \in LeadStates
  BY DEF SettingsType
<1>2. CASE Arrive(l)
  <2>1. [pc |-> "stamped", now |-> clock] \in LeadStates
    BY DEF LeadStates
  <2>. QED BY <1>2, <2>1 DEF Arrive
<1>3. CASE Count(l)
  <2>1. [pc |-> "accepted"] \in LeadStates /\ [pc |-> "limited"] \in LeadStates
    BY DEF LeadStates
  <2>. QED BY <1>3, <2>1 DEF Count
<1>4. CASE Match(l)
  <2>1. [pc |-> "matched", reused |-> parties # {}, unseen |-> {}] \in LeadStates
    BY DEF LeadStates
  <2>. QED BY <1>4, <2>1 DEF Match
<1>5. CASE StartRun(l)
  <2>1. lead[l].reused \in BOOLEAN /\ lead[l].unseen \in SUBSET Leads
    BY <1>1, <1>5 DEF StartRun, LeadStates
  <2>2. [pc |-> "started", reused |-> lead[l].reused, unseen |-> lead[l].unseen,
         run |-> overlay = "active"] \in LeadStates
    BY <2>1 DEF LeadStates
  <2>. QED BY <1>5, <2>2 DEF StartRun
<1>6. CASE lead' = [lead EXCEPT ![l] = [pc |-> "refused"]]
  <2>1. [pc |-> "refused"] \in LeadStates
    BY DEF LeadStates
  <2>. QED BY <1>6, <2>1
<1>. QED BY <1>2, <1>3, <1>4, <1>5, <1>6

LEMMA FinishKinds ==
  ASSUME SettingsType, NEW l \in Leads, FinishLead(l)
  PROVE  \/ /\ lead' = [lead EXCEPT ![l] = [pc |-> "refused"]] /\ parties' = parties
         \/ \E task \in Users \cup {None} : Created(l, task)
BY DEF FinishLead, SettingsType

\* Leads touch nothing but themselves.
LEMMA LeadsKeep ==
  ASSUME IInv, clock \in 0 .. MaxClock, NEW l \in Leads, LeadStep(l)
  PROVE  IInv'
<1>1. UNCHANGED <<config, holder, op, backups, applied, template, members>>
  BY DEF LeadStep, Arrive, Count, Match, StartRun, FinishLead, ops, settings
<1>2. SettingsType /\ lead \in [Leads -> LeadStates]
  BY DEF IInv, SettingsType
<1>3. lead' \in [Leads -> LeadStates]
  <2>1. CASE \E s \in LeadStates : lead' = [lead EXCEPT ![l] = s]
    BY <1>2, <2>1
  <2>2. CASE FinishLead(l) /\ \E task \in Users \cup {None} : Created(l, task)
    BY <1>2, <2>2, CreatedTyped DEF FinishLead
  <2>. QED BY <1>2, <2>1, <2>2, LeadMoves, FinishKinds DEF LeadStep
<1>4. SettingsType' /\ Filed' /\ AppliedHasBackup' /\ Locking'
  BY <1>1, <1>3 DEF IInv, SettingsType, Filed, Faithful, Loadable, AppliedHasBackup, Locking,
                    Applying, Kept
<1>. QED BY <1>4 DEF IInv

-----------------------------------------------------------------------------
(* Parties of leads.                                                       *)

\* A lead that found no party has missed every party there is.
MatchInv ==
  /\ \A l \in parties : l \in Leads /\ lead[l].pc = "created"
  /\ \A l \in Leads : Looking(l) /\ ~lead[l].reused => parties \subseteq lead[l].unseen
  /\ DuplicatesOverlap

LEMMA MatchStep ==
  ASSUME SettingsType, MatchInv, [Next]_vars
  PROVE  MatchInv'
<1>. USE DEF ops, settings, intake, vars
<1>1. CASE UNCHANGED <<lead, parties>>
  BY <1>1 DEF MatchInv, DuplicatesOverlap, Looking
<1>2. ASSUME NEW l \in Leads, Arrive(l) \/ Count(l) \/ Match(l) \/ StartRun(l)
                               \/ (FinishLead(l) /\ parties' = parties
                                   /\ lead' = [lead EXCEPT ![l] = [pc |-> "refused"]])
      PROVE  MatchInv'
  <2>1. /\ parties' = parties /\ lead[l].pc # "created"
        /\ \A m \in Leads : m # l => lead'[m] = lead[m]
    BY <1>2 DEF SettingsType, Arrive, Count, Match, StartRun, FinishLead
  <2>2. Looking(l)' /\ ~lead'[l].reused => parties \subseteq lead'[l].unseen
    <3>1. CASE Arrive(l) \/ Count(l)
      BY <3>1 DEF SettingsType, Looking, Arrive, Count
    <3>2. CASE Match(l)
      BY <3>2 DEF SettingsType, Looking, Match
    <3>3. CASE StartRun(l)
      BY <3>3 DEF SettingsType, MatchInv, Looking, StartRun
    <3>4. CASE lead' = [lead EXCEPT ![l] = [pc |-> "refused"]]
      BY <3>4 DEF SettingsType, Looking
    <3>. QED BY <1>2, <3>1, <3>2, <3>3, <3>4
  <2>3. l \notin parties /\ \A m \in parties : lead'[m] = lead[m]
    BY <2>1 DEF MatchInv
  <2>. QED BY <2>1, <2>2, <2>3 DEF MatchInv, DuplicatesOverlap, Looking
<1>3. ASSUME NEW l \in Leads, NEW task \in Users \cup {None}, lead[l].pc = "started",
             Created(l, task)
      PROVE  MatchInv'
  <2>. DEFINE new == NewParty(l)
  <2>1. /\ parties' = parties \cup new /\ new \subseteq {l} /\ (new # {} => ~lead[l].reused)
        /\ Looking(l) /\ l \notin parties
    BY <1>3 DEF Created, NewParty, Looking, MatchInv
  <2>2. /\ lead'[l].pc = "created" /\ lead'[l].unseen = lead[l].unseen
        /\ \A m \in Leads : m # l =>
             /\ lead'[m].pc = lead[m].pc
             /\ ~Looking(m) => lead'[m] = lead[m]
             /\ Looking(m) => /\ lead'[m].reused = lead[m].reused
                              /\ lead'[m].unseen = lead[m].unseen \cup new
    BY <1>3, CreatedTyped DEF Looking
  <2>. HIDE DEF new
  <2>3. \A m \in parties : m \in Leads /\ m # l /\ lead'[m] = lead[m] /\ lead[m].pc = "created"
    BY <2>1, <2>2 DEF MatchInv, Looking
  <2>4. new # {} => parties \subseteq lead'[l].unseen
    BY <2>1, <2>2 DEF MatchInv
  <2>5. DuplicatesOverlap'
    BY <2>1, <2>3, <2>4 DEF MatchInv, DuplicatesOverlap
  <2>6. ASSUME NEW m \in Leads, Looking(m)', ~lead'[m].reused
        PROVE  parties' \subseteq lead'[m].unseen
    <3>1. m # l /\ Looking(m)
      BY <2>2, <2>6 DEF Looking
    <3>. QED BY <2>1, <2>2, <2>6, <3>1 DEF MatchInv
  <2>7. \A m \in parties' : m \in Leads /\ lead'[m].pc = "created"
    BY <2>1, <2>2, <2>3
  <2>. QED BY <2>5, <2>6, <2>7 DEF MatchInv
<1>4. ASSUME NEW l \in Leads, LeadStep(l) PROVE MatchInv'
  <2>1. CASE FinishLead(l)
    BY <1>2, <1>3, <2>1, FinishKinds DEF FinishLead
  <2>. QED BY <1>2, <1>4, <2>1 DEF LeadStep
<1>5. ASSUME NEW o \in Operators, OperatorStep(o) PROVE UNCHANGED <<lead, parties>>
  BY <1>5 DEF OperatorStep, DryRun, Mismatch, Finalize, CommitApply, FailApply, Crash,
              RunRollback, CheckAssignee, BeginApply, ApplyRefused, LoadBackup
<1>6. WriteTemplate \/ Tick \/ (\E d \in Docs : ReadTemplate(d)) \/ (\E u \in Users : Deactivate(u))
        => UNCHANGED <<lead, parties>>
  BY DEF WriteTemplate, Tick, ReadTemplate, Deactivate
<1>. QED BY <1>1, <1>4, <1>5, <1>6 DEF Next

-----------------------------------------------------------------------------
(* The rate limiter.                                                       *)

Window(r) == {h \in accepted : clock - h[2] < Rules[r][1]}

LimiterInv ==
  /\ clock \in 0 .. MaxClock
  /\ buckets \in [DOMAIN Rules -> SUBSET Hits] /\ accepted \subseteq Hits
  /\ IsFiniteSet(accepted) /\ \A r \in DOMAIN Rules : IsFiniteSet(buckets[r])
  /\ \A l \in Leads : lead[l].pc = "stamped" => lead[l].now \in 0 .. clock
  /\ \A r \in DOMAIN Rules : Window(r) \subseteq buckets[r]
  /\ WindowsRespected

LEMMA RulesTyped ==
  ASSUME NEW r \in DOMAIN Rules
  PROVE  /\ Rules[r][1] \in Nat \ {0} /\ Rules[r][2] \in Nat \ {0}
         /\ Len(Rules) \in Nat /\ r \in 1 .. Len(Rules)
BY LeadAssumption

LEMMA OneMore ==
  ASSUME NEW S, IsFiniteSet(S), NEW x
  PROVE  IsFiniteSet(S \cup {x}) /\ Cardinality(S \cup {x}) <= Cardinality(S) + 1
<1>1. Cardinality(S) \in Nat
  BY FS_CardinalityType
<1>2. /\ IsFiniteSet(S \cup {x})
      /\ \/ Cardinality(S \cup {x}) = Cardinality(S)
         \/ Cardinality(S \cup {x}) = Cardinality(S) + 1
  BY FS_AddElement
<1>. QED BY <1>1, <1>2

LEMMA LimiterStarts ==
  ASSUME Init
  PROVE  LimiterInv
<1>1. \A r \in DOMAIN Rules : Window(r) = {}
  BY DEF Init, Window
<1>2. WindowsRespected
  <2>1. ASSUME NEW r \in DOMAIN Rules PROVE 0 <= Rules[r][2]
    BY <2>1, RulesTyped
  <2>2. \A r \in DOMAIN Rules : Cardinality(Window(r)) = 0
    BY <1>1, FS_EmptySet
  <2>. QED BY <2>1, <2>2 DEF Window, WindowsRespected
<1>. QED BY <1>1, <1>2, FS_EmptySet, LeadAssumption DEF Init, LimiterInv, Idle

\* The window that ends now only loses hits as the clock moves.
LEMMA ClockMoves ==
  ASSUME LimiterInv, clock' \in clock .. MaxClock, UNCHANGED <<buckets, accepted>>,
         \A l \in Leads : lead'[l].pc = "stamped" =>
           lead'[l] = lead[l] \/ lead'[l].now = clock
  PROVE  LimiterInv'
<1>1. clock' \in 0 .. MaxClock /\ clock <= clock' /\ clock \in Nat /\ clock' \in Nat
  BY LeadAssumption DEF LimiterInv
<1>2. \A l \in Leads : lead'[l].pc = "stamped" => lead'[l].now \in 0 .. clock'
  BY <1>1 DEF LimiterInv
<1>3. ASSUME NEW r \in DOMAIN Rules
      PROVE  Window(r)' \subseteq Window(r)
  BY <1>1, <1>3, RulesTyped DEF LimiterInv, Window, Hits
<1>4. WindowsRespected'
  <2>1. SUFFICES ASSUME NEW r \in DOMAIN Rules
                 PROVE  Cardinality(Window(r)') <= Rules[r][2]
    BY DEF WindowsRespected, Window
  <2>2. IsFiniteSet(Window(r)) /\ Cardinality(Window(r)) <= Rules[r][2]
    BY FS_Subset DEF Window, LimiterInv, WindowsRespected
  <2>. QED BY <1>3, <2>2, FS_Subset, FS_CardinalityType, RulesTyped
<1>. QED BY <1>1, <1>2, <1>3, <1>4 DEF LimiterInv

LEMMA CountKeeps ==
  ASSUME LimiterInv, NEW l \in Leads, lead \in [Leads -> LeadStates], Count(l)
  PROVE  LimiterInv'
<1>. DEFINE now == lead[l].now
            hit == <<l, now>>
<1>1. /\ now \in 0 .. clock /\ clock \in 0 .. MaxClock /\ clock' = clock
      /\ hit \in Hits
  BY LeadAssumption DEF Count, LimiterInv, Hits, intake
<1>2. \A x \in Leads : lead'[x].pc = "stamped" => lead'[x] = lead[x]
  BY DEF Count
<1>3. ASSUME NEW r \in DOMAIN Rules
      PROVE  /\ Recent(r, now) \subseteq buckets[r] /\ IsFiniteSet(Recent(r, now))
             /\ Window(r) \subseteq Recent(r, now)
  BY <1>1, <1>3, RulesTyped, FS_Subset DEF LimiterInv, Recent, Window, Hits
<1>4. buckets' = Counted(l, now)
  BY DEF Count
<1>5. ASSUME NEW r \in DOMAIN Rules
      PROVE  /\ buckets'[r] \subseteq Hits /\ IsFiniteSet(buckets'[r])
             /\ Window(r) \subseteq buckets'[r]
             /\ Passed(r, now) => hit \in buckets'[r]
  BY <1>1, <1>3, <1>4, <1>5, FS_AddElement DEF Counted, LimiterInv
<1>6. CASE ~Passed(Len(Rules), now)
  <2>1. accepted' = accepted
    BY <1>6 DEF Count
  <2>2. \A r \in DOMAIN Rules : Window(r)' = Window(r)
    BY <1>1, <2>1 DEF Window
  <2>3. WindowsRespected'
    BY <2>2 DEF WindowsRespected, LimiterInv, Window
  <2>. QED BY <1>1, <1>2, <1>4, <1>5, <2>1, <2>2, <2>3 DEF LimiterInv, Counted
<1>7. CASE Passed(Len(Rules), now)
  <2>1. accepted' = accepted \cup {hit}
    BY <1>7 DEF Count
  <2>2. ASSUME NEW r \in DOMAIN Rules
        PROVE  Passed(r, now) /\ ~Stops(r, now)
    BY <1>7, <2>2, RulesTyped DEF Passed
  <2>3. \A r \in DOMAIN Rules : Window(r)' \subseteq Window(r) \cup {hit}
    BY <1>1, <2>1 DEF Window
  <2>4. ASSUME NEW r \in DOMAIN Rules
        PROVE  Cardinality(Window(r)') <= Rules[r][2]
    <3>1. Cardinality(Recent(r, now)) < Rules[r][2] /\ IsFiniteSet(Recent(r, now))
      BY <1>3, <2>2, RulesTyped, FS_CardinalityType DEF Stops
    <3>2. /\ IsFiniteSet(Recent(r, now) \cup {hit})
          /\ Cardinality(Recent(r, now) \cup {hit}) <= Cardinality(Recent(r, now)) + 1
      BY <3>1, OneMore
    <3>3. Window(r)' \subseteq Recent(r, now) \cup {hit}
      BY <1>3, <2>3
    <3>4. Cardinality(Window(r)') <= Cardinality(Recent(r, now) \cup {hit})
      BY <3>2, <3>3, FS_Subset
    <3>. QED BY <3>1, <3>2, <3>3, <3>4, FS_Subset, FS_CardinalityType, RulesTyped
  <2>5. WindowsRespected'
    BY <2>4 DEF WindowsRespected, Window
  <2>6. accepted' \subseteq Hits /\ IsFiniteSet(accepted')
    BY <1>1, <2>1, FS_AddElement DEF LimiterInv
  <2>7. \A r \in DOMAIN Rules : Window(r)' \subseteq buckets'[r]
    BY <1>5, <2>2, <2>3
  <2>. QED BY <1>1, <1>2, <1>4, <1>5, <2>5, <2>6, <2>7 DEF LimiterInv, Counted
<1>. QED BY <1>6, <1>7

LEMMA LimiterStep ==
  ASSUME IInv, LimiterInv, [Next]_vars
  PROVE  LimiterInv'
<1>. USE DEF intake, settings, ops, vars
<1>1. lead \in [Leads -> LeadStates] /\ clock \in 0 .. MaxClock
  BY DEF IInv, SettingsType, LimiterInv
<1>2. ASSUME UNCHANGED intake PROVE LimiterInv'
  BY <1>1, <1>2, ClockMoves, LeadAssumption
<1>3. CASE Tick
  BY <1>1, <1>3, ClockMoves, LeadAssumption DEF Tick
<1>4. ASSUME NEW o \in Operators, OperatorStep(o) PROVE UNCHANGED intake
  BY <1>4 DEF OperatorStep, DryRun, Mismatch, Finalize, CommitApply, FailApply, Crash,
              RunRollback, CheckAssignee, BeginApply, ApplyRefused, LoadBackup
<1>5. WriteTemplate \/ (\E d \in Docs : ReadTemplate(d)) \/ (\E u \in Users : Deactivate(u))
        => UNCHANGED intake
  BY DEF WriteTemplate, ReadTemplate, Deactivate
<1>6. ASSUME NEW l \in Leads, LeadStep(l) PROVE LimiterInv'
  <2>1. CASE Count(l)
    BY <1>1, <2>1, CountKeeps
  <2>2. CASE Arrive(l) \/ Match(l) \/ StartRun(l) \/ FinishLead(l)
    <3>1. UNCHANGED <<buckets, clock, accepted>>
      BY <2>2 DEF Arrive, Match, StartRun, FinishLead
    <3>2. \A x \in Leads : lead'[x].pc = "stamped" => lead'[x] = lead[x] \/ lead'[x].now = clock
      <4>1. CASE Arrive(l) \/ Match(l) \/ StartRun(l)
        BY <1>1, <4>1 DEF Arrive, Match, StartRun
      <4>2. CASE FinishLead(l) /\ lead' = [lead EXCEPT ![l] = [pc |-> "refused"]]
        BY <1>1, <4>2
      <4>3. ASSUME FinishLead(l), NEW task \in Users \cup {None}, Created(l, task)
            PROVE  \A x \in Leads : lead'[x].pc = "stamped" => lead'[x] = lead[x]
        BY <4>3, CreatedTyped DEF IInv, FinishLead
      <4>. QED BY <2>2, <4>1, <4>2, <4>3, FinishKinds DEF IInv
    <3>. QED BY <1>1, <3>1, <3>2, ClockMoves, LeadAssumption
  <2>. QED BY <1>6, <2>1, <2>2 DEF LeadStep
<1>. QED BY <1>2, <1>3, <1>4, <1>5, <1>6 DEF Next

-----------------------------------------------------------------------------
(* Theorems about lead automation.                                         *)

LEMMA Induction ==
  /\ Init => IInv /\ LimiterInv
  /\ IInv /\ LimiterInv /\ [Next]_vars => IInv' /\ LimiterInv'
<1>1. ASSUME Init PROVE IInv /\ LimiterInv
  <2>1. SettingsType
    BY <1>1 DEF Init, SettingsType, Configs, Empty, Blank, None, Commands, Idle, Backups, NoBackup,
                LeadStates
  <2>2. Locking /\ Filed
    BY <1>1 DEF Init, Locking, Applying, Filed, Faithful, Loadable, Idle, NoBackup
  <2>3. AppliedHasBackup
    BY <1>1 DEF Init, AppliedHasBackup
  <2>. QED BY <1>1, <2>1, <2>2, <2>3, LimiterStarts DEF IInv
<1>2. ASSUME IInv, LimiterInv, [Next]_vars PROVE IInv' /\ LimiterInv'
  <2>1. ASSUME NEW o \in Operators, OperatorStep(o) PROVE IInv'
    BY <1>2, <2>1, DecidingSteps, BeginApplyKeeps, FinalizeKeeps, EndingSteps, RollbackKeeps
    DEF OperatorStep
  <2>2. ASSUME NEW l \in Leads, LeadStep(l) PROVE IInv'
    BY <1>2, <2>2, LeadsKeep DEF LimiterInv
  <2>3. ASSUME IInv, UNCHANGED vars PROVE IInv'
    BY <2>3 DEF vars, IInv, SettingsType, Locking, Applying, Kept, Filed, Faithful, Loadable,
                      AppliedHasBackup
  <2>4. IInv'
    BY <1>2, <2>1, <2>2, <2>3, OthersKeep DEF Next
  <2>. QED BY <1>2, <2>4, LimiterStep
<1>. QED BY <1>1, <1>2

\* At no moment are more requests of the window that ends then let through than the rule
\* allows, whatever the order in which the requests that read the clock get the lock
\* (check_and_increment).
THEOREM WindowsAreRespected == Spec => []WindowsRespected
<1>1. LimiterInv => WindowsRespected
  BY DEF LimiterInv
<1>. QED BY <1>1, Induction, PTL DEF Spec

\* The backup of every apply that reported success stays whole, whatever other operators
\* apply, roll back, fail or are killed with, in the same directory too (write_backup,
\* finalize_backup_manifest, run_apply).
THEOREM BackupsSurvive == Spec => []AppliedHasBackup
<1>1. IInv => AppliedHasBackup
  BY DEF IInv
<1>. QED BY <1>1, Induction, PTL DEF Spec

\* Two parties of one contact come from leads that overlapped: each lead looks before it
\* creates, and nothing is locked in between (create_lead, _resolve_party_match).
THEOREM OnlyOverlapsDuplicate == Spec => []DuplicatesOverlap
<1>1. Init => MatchInv
  BY DEF Init, MatchInv, DuplicatesOverlap, Looking, Idle
<1>2. IInv /\ MatchInv /\ [Next]_vars => MatchInv'
  BY MatchStep DEF IInv
<1>3. MatchInv => DuplicatesOverlap
  BY DEF MatchInv
<1>. QED BY <1>1, <1>2, <1>3, Induction, PTL DEF Spec

\* No apply or rollback drops what a template has written into the settings since their
\* operator looked (resolve_context, assert_rollback_config_hash_gate).
THEOREM ForeignChangesKept == Spec => ForeignChangesSurvive
<1>. DEFINE Kind(o) == op'[o] # op[o] /\ config'.doc # config.doc => op[o].expected = config
<1>1. ASSUME IInv, [Next]_vars, NEW o \in Operators, op'[o] # op[o], config'.doc # config.doc
      PROVE  op[o].expected = config
  <2>1. ASSUME NEW x \in Operators, OperatorStep(x)
        PROVE  \E c : op' = [op EXCEPT ![x] = c]
    BY <2>1 DEF OperatorStep, DryRun, Mismatch, Finalize, CommitApply, FailApply, Crash,
                RunRollback, CheckAssignee, BeginApply, ApplyRefused, LoadBackup, BackedUp, Becomes
  <2>2. ASSUME NEW x \in Operators, OperatorStep(x) PROVE OperatorStep(o)
    BY <1>1, <2>1, <2>2 DEF IInv, SettingsType
  <2>3. \A l \in Leads : LeadStep(l) => op' = op
    BY DEF LeadStep, Arrive, Count, Match, StartRun, FinishLead, ops
  <2>4. WriteTemplate \/ Tick \/ (\E d \in Docs : ReadTemplate(d))
          \/ (\E u \in Users : Deactivate(u)) => op' = op
    BY DEF WriteTemplate, Tick, ReadTemplate, Deactivate, ops
  <2>5. OperatorStep(o)
    BY <1>1, <2>2, <2>3, <2>4 DEF Next, vars
  <2>6. CommitApply(o) \/ RunRollback(o)
    BY <1>1, <2>5 DEF OperatorStep, settings, DryRun, Mismatch, Finalize, FailApply, Crash,
                      CheckAssignee, BeginApply, ApplyRefused, LoadBackup
  <2>7. CASE CommitApply(o)
    BY <1>1, <2>7 DEF CommitApply, IInv, Locking, Applying
  <2>8. CASE RunRollback(o)
    <3>1. op[o].pc = "loaded" /\ GateOpen(op[o]) /\ config' = Restored(op[o])
      BY <1>1, <2>8 DEF RunRollback
    <3>2. op[o].backup.config # Empty
      BY <1>1, <3>1 DEF Restored, Merged
    <3>3. config' = op[o].backup.config
      BY <3>1, <3>2 DEF Restored
    <3>4. CASE op[o].expected # NoHash
      BY <3>1, <3>4 DEF GateOpen
    <3>5. CASE op[o].expected = NoHash
      <4>1. op[o].backup.manifest = "final" /\ config = op[o].backup.after
        BY <3>1, <3>5 DEF GateOpen
      <4>2. config.doc = op[o].backup.config.doc
        BY <1>1, <3>1, <4>1 DEF IInv, Filed, Loadable, Faithful
      <4>. QED BY <1>1, <3>3, <4>2
    <3>. QED BY <3>4, <3>5
  <2>. QED BY <2>6, <2>7, <2>8
<1>2. IInv /\ [Next]_vars => [\A o \in Operators : Kind(o)]_vars
  BY <1>1
<1>. QED BY <1>2, Induction, PTL DEF Spec, ForeignChangesSurvive

-----------------------------------------------------------------------------
(* The import.                                                             *)


\* An execution that has not committed belongs to one operator, and what had been
\* committed when it began still is.
Running ==
  /\ \A o \in Importers : exec[o].stage = 0 => exec[o] = NotRunning
  /\ \A o \in Importers : exec[o].stage # 0 => exec[o].by \notin Committed
  /\ \A o, p \in Importers :
       o # p /\ exec[o].stage # 0 /\ exec[p].stage # 0 => exec[o].by # exec[p].by
  /\ \A n \in Numbers : history[n].after \subseteq Committed

\* What a transaction has added so far: its own rows and their references.
Pending ==
  \A o \in Importers :
    /\ \A row \in exec[o].rows :
         /\ row.by = exec[o].by
         /\ row.table \in Registered => RefTo(row) \in exec[o].refs
    /\ \A ref \in exec[o].refs : [table |-> ref.table, id |-> ref.id, by |-> ref.by] \in exec[o].rows

\* The tables behind an execution are complete, its own table but for what is left.
Imported ==
  \A o \in Importers, i \in 1 .. Len(Tables) :
    i <= exec[o].stage =>
      \A id \in BackupOf(o)[Tables[i]] :
        \/ i = exec[o].stage /\ id \in exec[o].left
        \/ \E row \in rows \cup exec[o].rows : row.table = Tables[i] /\ row.id = id

\* No two executions hold a service with the same sku, committed or not.
UniqueServices ==
  /\ \A row, again \in rows :
       row.table = "services" /\ again.table = "services" /\ row.id = again.id
       => row.by = again.by
  /\ \A o \in Importers : \A row \in exec[o].rows, again \in rows :
       row.table = "services" /\ again.table = "services" => row.id # again.id
  /\ \A o, p \in Importers : o # p =>
       \A row \in exec[o].rows, again \in exec[p].rows :
         row.table = "services" /\ again.table = "services" => row.id # again.id

\* Services are inserted in the order of their ids.
Ascending ==
  \A o \in Importers : exec[o].stage = 1 =>
    \A row \in exec[o].rows, id \in exec[o].left : row.table = "services" => row.id < id

\* What an execution could see of a source row has lost its reference.
Unseen(o, table, id) ==
  \A row \in rows :
    row.table = table /\ row.id = id /\ row.by \in history[exec[o].by].after
    => RefTo(row) \notin refs

LookedUp ==
  \A o \in Importers :
    /\ exec[o].absent =>
         /\ exec[o].stage \in 1 .. Len(Tables) /\ exec[o].left # {}
         /\ \A id \in exec[o].left, table \in TableNames :
              NextRow(o, id) /\ table = Table(o) => Unseen(o, table, id)
    /\ \A row \in exec[o].rows : row.table \in Registered => Unseen(o, row.table, row.id)

-----------------------------------------------------------------------------
(* Facts about the tables, and the kinds of steps.                         *)

LEMMA TableFacts ==
  /\ Len(Tables) = 5 /\ Finished = 6
  /\ \A i \in 1 .. 5 : Tables[i] \in TableNames /\ (Tables[i] = "services" <=> i = 1)
  /\ TableNames = {"services", "clients", "orders", "contracts", "payments"}
  /\ \A table \in TableNames : \E i \in 1 .. 5 : table = Tables[i]
<1>1. Len(Tables) = 5 BY DEF Tables
<1>2. \A i \in 1 .. 5 : i = 1 \/ i = 2 \/ i = 3 \/ i = 4 \/ i = 5 OBVIOUS
<1>3. TableNames = {Tables[1], Tables[2], Tables[3], Tables[4], Tables[5]}
  BY <1>1, <1>2 DEF TableNames
<1> QED BY <1>1, <1>2, <1>3 DEF Tables, Finished

LEMMA BackupTables ==
  ASSUME NEW backup \in Copies, NEW table \in TableNames PROVE backup[table] \subseteq Nat
BY ImportAssumption, TableFacts DEF BackupRows

\* The transaction of an operator ends and leaves nothing.
Stop(o) == Become(o, NotRunning) /\ UNCHANGED <<rows, refs, history, rolledBack>>
Quiet == UNCHANGED <<rows, refs, history, rolledBack, exec>>

LEMMA StepKinds ==
  ASSUME [ImportNext]_importVars
  PROVE  \/ Quiet \/ RollbackBatch
         \/ \E o \in Importers :
              \/ BeginExecution(o) \/ LookUp(o) \/ SkipExisting(o) \/ Stop(o)
              \/ InsertRow(o) \/ NextTable(o) \/ Commit(o)
BY DEF ImportNext, Step, importVars, Quiet, Stop, GateBDryRun, Blocked, InsertRefused, Die

LEMMA OnlyHis ==
  ASSUME ImportTypeOK, NEW o \in Importers, NEW state \in Work, Become(o, state)
  PROVE  /\ exec' \in [Importers -> Work]
         /\ exec'[o] = state
         /\ \A p \in Importers : p # o => exec'[p] = exec[p]
BY DEF ImportTypeOK, Become

LEMMA IdleIsWork == NotRunning \in Work
BY DEF NotRunning, Work, Finished

-----------------------------------------------------------------------------
(* Types.                                                                  *)

LEMMA Histories ==
  ASSUME ImportTypeOK, NEW n \in Numbers
  PROVE  /\ history[n] \in Executions
         /\ history[n].backup \in Copies /\ history[n].batch \in Batches
         /\ n \in Nat /\ n # 0 /\ Len(history) \in Nat
<1>1. history \in Seq(Executions) BY DEF ImportTypeOK
<1>2. Len(history) \in Nat /\ n \in 1 .. Len(history) BY <1>1 DEF Numbers
<1>3. history[n] \in Executions BY <1>1, <1>2
<1> QED BY <1>2, <1>3 DEF Executions

LEMMA BeginType ==
  ASSUME ImportTypeOK, NEW o \in Importers, BeginExecution(o) PROVE ImportTypeOK'
<1>1. PICK batch \in Batches, backup \in Copies :
        /\ history' = Append(history, [batch |-> batch, backup |-> backup, after |-> Committed,
                                       committed |-> FALSE])
        /\ Become(o, [NotRunning EXCEPT !.stage = 1, !.by = Len(history) + 1, !.left = backup.services])
  BY DEF BeginExecution
<1>2. [batch |-> batch, backup |-> backup, after |-> Committed, committed |-> FALSE] \in Executions
  BY DEF Executions, Committed, Numbers
<1>3. history' \in Seq(Executions) /\ Len(history') = Len(history) + 1 /\ Len(history) \in Nat
  BY <1>1, <1>2 DEF ImportTypeOK
<1>4. Numbers \subseteq Numbers' /\ Len(history) + 1 \in Numbers'
  BY <1>3 DEF Numbers
<1>5. backup.services \subseteq Nat BY ImportAssumption DEF BackupRows
<1>6. [NotRunning EXCEPT !.stage = 1, !.by = Len(history) + 1, !.left = backup.services] \in Work
  <2>1. Len(history) + 1 \in Nat /\ 1 \in 0 .. Finished BY <1>3, TableFacts
  <2> QED BY <2>1, <1>5, IdleIsWork DEF Work
<1> DEFINE state == [NotRunning EXCEPT !.stage = 1, !.by = Len(history) + 1, !.left = backup.services]
<1>7. state.by = Len(history) + 1 BY DEF NotRunning
<1> HIDE DEF state
<1>8. exec' \in [Importers -> Work] /\ exec'[o] = state
      /\ \A p \in Importers : p # o => exec'[p] = exec[p]
  BY <1>1, <1>6, OnlyHis DEF state
<1> QED BY <1>3, <1>4, <1>7, <1>8 DEF ImportTypeOK, BeginExecution

\* Steps that only move the record of one operator within its execution.
LEMMA WorkType ==
  ASSUME ImportTypeOK, NEW o \in Importers, NEW state \in Work, Become(o, state),
         state.stage = 0 \/ (state.by = exec[o].by /\ exec[o].stage # 0),
         UNCHANGED <<reports, rows, refs, history, rolledBack>>
  PROVE  ImportTypeOK'
<1>1. exec' \in [Importers -> Work] /\ exec'[o] = state
      /\ \A p \in Importers : p # o => exec'[p] = exec[p]
  BY OnlyHis
<1> QED BY <1>1 DEF ImportTypeOK, Numbers

LEMMA InsertType ==
  ASSUME ImportTypeOK, NEW o \in Importers, InsertRow(o) PROVE ImportTypeOK'
<1> DEFINE row(id) == [table |-> Table(o), id |-> id, by |-> exec[o].by]
           ref(id) == [table |-> Table(o), id |-> id, by |-> exec[o].by, batch |-> BatchOf(o)]
           state(id) == [exec[o] EXCEPT !.absent = FALSE, !.left = @ \ {id},
                           !.rows = @ \cup {row(id)},
                           !.refs = IF Table(o) \in Registered THEN @ \cup {ref(id)} ELSE @]
<1>1. PICK id \in exec[o].left : Inserting(o, id) /\ Become(o, state(id)) BY DEF InsertRow
<1>2. exec[o] \in Work /\ id \in Nat /\ exec[o].stage \in 1 .. 5 BY <1>1, TableFacts DEF ImportTypeOK, Work, Inserting, Working
<1>3. Table(o) \in TableNames /\ exec[o].by \in Numbers /\ exec[o].by \in Nat /\ exec[o].stage # 0
  BY <1>2, TableFacts DEF Table, ImportTypeOK, Work
<1>4. BatchOf(o) \in Batches BY <1>3, Histories DEF BatchOf
<1>5. row(id) \in RowSet /\ ref(id) \in RefSet BY <1>2, <1>3, <1>4 DEF RowSet, RefSet
<1> HIDE DEF row, ref
<1>6. state(id) \in Work /\ state(id).by = exec[o].by BY <1>2, <1>5 DEF Work
<1> HIDE DEF state
<1> QED BY <1>1, <1>3, <1>6, WorkType DEF InsertRow

LEMMA TypeStep == ImportTypeOK /\ [ImportNext]_importVars => ImportTypeOK'
<1> SUFFICES ASSUME ImportTypeOK, [ImportNext]_importVars PROVE ImportTypeOK' OBVIOUS
<1>1. CASE GateBDryRun BY <1>1 DEF GateBDryRun, ImportTypeOK, Numbers
<1>2. CASE RollbackBatch BY <1>2 DEF RollbackBatch, ImportTypeOK, Numbers
<1>3. CASE UNCHANGED importVars BY <1>3 DEF importVars, ImportTypeOK, Numbers
<1>4. ASSUME NEW o \in Importers, BeginExecution(o) \/ Step(o) \/ Die(o) PROVE ImportTypeOK'
  <2>0. exec[o] \in Work BY DEF ImportTypeOK
  <2>1. CASE BeginExecution(o) BY <2>1, BeginType
  <2>2. CASE Blocked(o) \/ InsertRefused(o) \/ Die(o)
    <3>1. NotRunning \in Work /\ NotRunning.stage = 0 BY IdleIsWork DEF NotRunning
    <3>2. Become(o, NotRunning) /\ UNCHANGED <<reports, rows, refs, history, rolledBack>>
      BY <2>2 DEF Blocked, InsertRefused, Die
    <3> QED BY <3>1, <3>2, WorkType
  <2>3. CASE LookUp(o)
    <3>1. [exec[o] EXCEPT !.absent = TRUE] \in Work BY <2>0 DEF Work
    <3>2. [exec[o] EXCEPT !.absent = TRUE].by = exec[o].by BY <2>0 DEF Work
    <3>3. exec[o].stage # 0 BY <2>3 DEF LookUp, Working
    <3> QED BY <2>3, <3>1, <3>2, <3>3, WorkType DEF LookUp
  <2>4. CASE SkipExisting(o)
    <3>1. PICK id \in exec[o].left :
            Working(o, id) /\ Become(o, [exec[o] EXCEPT !.left = @ \ {id}])
      BY <2>4 DEF SkipExisting
    <3>2. [exec[o] EXCEPT !.left = @ \ {id}] \in Work BY <2>0 DEF Work
    <3>3. [exec[o] EXCEPT !.left = @ \ {id}].by = exec[o].by BY <2>0 DEF Work
    <3>4. exec[o].stage # 0 BY <3>1 DEF Working
    <3> QED BY <2>4, <3>1, <3>2, <3>3, <3>4, WorkType DEF SkipExisting
  <2>5. CASE InsertRow(o) BY <2>5, InsertType
  <2>6. CASE NextTable(o)
    <3> DEFINE left == IF exec[o].stage = Len(Tables) THEN {}
                       ELSE BackupOf(o)[Tables[exec[o].stage + 1]]
               state == [exec[o] EXCEPT !.stage = @ + 1, !.left = left]
    <3>1. exec[o].stage \in 1 .. 5 /\ exec[o].by \in Numbers
      BY <2>6, TableFacts DEF NextTable, ImportTypeOK
    <3>2. BackupOf(o) \in Copies BY <3>1, Histories DEF BackupOf
    <3>3. left \subseteq Nat
      <4>1. CASE exec[o].stage = 5 BY <4>1, TableFacts
      <4>2. CASE exec[o].stage # 5
        <5>1. Tables[exec[o].stage + 1] \in TableNames BY <3>1, <4>2, TableFacts
        <5> QED BY <3>2, <4>2, <5>1, BackupTables, TableFacts
      <4> QED BY <4>1, <4>2
    <3> HIDE DEF left
    <3>4. state \in Work /\ state.by = exec[o].by
      <4>1. exec[o].stage + 1 \in 0 .. Finished BY <3>1, TableFacts
      <4> QED BY <2>0, <3>3, <4>1 DEF Work
    <3>5. Become(o, state) BY <2>6 DEF NextTable, left
    <3> HIDE DEF state
    <3> QED BY <2>6, <3>1, <3>4, <3>5, WorkType DEF NextTable
  <2>7. CASE Commit(o)
    <3>1. exec' \in [Importers -> Work] /\ exec'[o] = NotRunning
          /\ \A p \in Importers : p # o => exec'[p] = exec[p]
      BY <2>7, OnlyHis, IdleIsWork DEF Commit
    <3>2. exec[o].by \in Numbers BY <2>7, TableFacts DEF Commit, ImportTypeOK
    <3>0. history \in Seq(Executions) BY DEF ImportTypeOK
    <3>3. [history[exec[o].by] EXCEPT !.committed = TRUE] \in Executions
      BY <3>2, Histories DEF Executions
    <3>4. history' \in Seq(Executions) /\ Len(history') = Len(history)
      BY <2>7, <3>0, <3>2, <3>3 DEF Commit, Numbers
    <3>5. rows' \subseteq RowSet /\ refs' \subseteq RefSet BY <2>0, <2>7 DEF Commit, Work, ImportTypeOK
    <3> QED BY <2>7, <3>1, <3>4, <3>5 DEF Commit, Numbers, NotRunning, ImportTypeOK
  <2> QED BY <1>4, <2>1, <2>2, <2>3, <2>4, <2>5, <2>6, <2>7 DEF Step
<1> QED BY <1>1, <1>2, <1>3, <1>4 DEF ImportNext

\* Every variable of the import keeps its type, whatever is imported by whom.
THEOREM TypeInvariant == ImportSpec => []ImportTypeOK
<1>1. ImportInit => ImportTypeOK
  BY IdleIsWork DEF ImportInit, ImportTypeOK, NotRunning
<1> QED BY <1>1, TypeStep, PTL DEF ImportSpec

-----------------------------------------------------------------------------
(* What the steps of an execution do.                                      *)

\* Nobody else's record is touched.
Others(o) == \A p \in Importers : p # o => exec'[p] = exec[p]
\* The same rows, references and execution.
SameWork(o) ==
  /\ exec'[o].by = exec[o].by /\ exec'[o].rows = exec[o].rows /\ exec'[o].refs = exec[o].refs
  /\ exec[o].stage # 0 /\ exec'[o].stage # 0
SameTables == UNCHANGED <<rows, refs, history, rolledBack>>

LEMMA StopShape ==
  ASSUME ImportTypeOK, NEW o \in Importers, Stop(o)
  PROVE  Others(o) /\ exec'[o] = NotRunning /\ SameTables
BY OnlyHis, IdleIsWork DEF Stop, Others, SameTables

LEMMA BeginShape ==
  ASSUME ImportTypeOK, NEW o \in Importers, BeginExecution(o)
  PROVE  /\ Others(o) /\ UNCHANGED <<rows, refs, rolledBack>>
         /\ Len(history) \in Nat /\ Len(history) + 1 \notin Numbers
         /\ Numbers' = Numbers \cup {Len(history) + 1}
         /\ \A n \in Numbers : history'[n] = history[n]
         /\ history'[Len(history) + 1].after = Committed
         /\ ~history'[Len(history) + 1].committed
         /\ exec[o].stage = 0 /\ exec'[o].stage = 1 /\ exec'[o].by = Len(history) + 1
         /\ exec'[o].rows = {} /\ exec'[o].refs = {} /\ ~exec'[o].absent
         /\ exec'[o].left = history'[Len(history) + 1].backup.services
<1>1. PICK batch \in Batches, backup \in Copies :
        /\ history' = Append(history, [batch |-> batch, backup |-> backup, after |-> Committed,
                                       committed |-> FALSE])
        /\ Become(o, [NotRunning EXCEPT !.stage = 1, !.by = Len(history) + 1, !.left = backup.services])
  BY DEF BeginExecution
<1> DEFINE new == [batch |-> batch, backup |-> backup, after |-> Committed, committed |-> FALSE]
           state == [NotRunning EXCEPT !.stage = 1, !.by = Len(history) + 1, !.left = backup.services]
<1>2. history \in Seq(Executions) /\ Len(history) \in Nat BY DEF ImportTypeOK
<1>3. new \in Executions BY DEF Executions, Committed, Numbers
<1>4. history' = Append(history, new) BY <1>1
<1>9. new.after = Committed /\ ~new.committed /\ new.backup.services = backup.services OBVIOUS
<1> HIDE DEF new
<1>5. /\ Len(history') = Len(history) + 1 /\ history'[Len(history) + 1] = new
      /\ \A n \in 1 .. Len(history) : history'[n] = history[n]
  BY <1>2, <1>3, <1>4
<1>6. Numbers' = Numbers \cup {Len(history) + 1} /\ Len(history) + 1 \notin Numbers
      /\ \A n \in Numbers : history'[n] = history[n]
  BY <1>2, <1>5 DEF Numbers
<1>7. exec'[o] = state /\ Others(o) BY <1>1 DEF Become, Others, ImportTypeOK
<1>8. /\ state.stage = 1 /\ state.by = Len(history) + 1 /\ state.left = backup.services
      /\ state.rows = {} /\ state.refs = {} /\ ~state.absent
  BY DEF NotRunning
<1> HIDE DEF state
<1>10. exec[o].stage = 0 /\ UNCHANGED <<rows, refs, rolledBack>> BY DEF BeginExecution
<1> QED BY <1>2, <1>5, <1>6, <1>7, <1>8, <1>9, <1>10

LEMMA LookUpShape ==
  ASSUME ImportTypeOK, NEW o \in Importers, LookUp(o)
  PROVE  /\ Others(o) /\ SameWork(o) /\ SameTables
         /\ exec'[o].stage = exec[o].stage /\ exec'[o].left = exec[o].left
         /\ ~exec[o].absent /\ exec'[o].absent
         /\ \E id \in exec[o].left :
              Working(o, id) /\ Table(o) \in Registered /\ RefsOf(o, Table(o), id) = {}
<1> DEFINE state == [exec[o] EXCEPT !.absent = TRUE]
<1>1. exec[o] \in Work BY DEF ImportTypeOK
<1>2. state \in Work BY <1>1 DEF Work
<1>3. exec'[o] = state /\ Others(o) BY <1>2, OnlyHis DEF LookUp, Others
<1>4. /\ state.stage = exec[o].stage /\ state.left = exec[o].left /\ state.absent
      /\ state.by = exec[o].by /\ state.rows = exec[o].rows /\ state.refs = exec[o].refs
  BY <1>1 DEF Work
<1>5. exec[o].stage # 0 BY DEF LookUp, Working
<1> HIDE DEF state
<1> QED BY <1>3, <1>4, <1>5 DEF LookUp, SameWork, SameTables

LEMMA SkipShape ==
  ASSUME ImportTypeOK, NEW o \in Importers, SkipExisting(o)
  PROVE  /\ Others(o) /\ SameWork(o) /\ SameTables
         /\ exec'[o].stage = exec[o].stage /\ ~exec[o].absent /\ ~exec'[o].absent
         /\ \E id \in exec[o].left :
              /\ Working(o, id) /\ exec'[o].left = exec[o].left \ {id}
              /\ RefsOf(o, Table(o), id) # {}
<1>1. exec[o] \in Work /\ ~exec[o].absent BY DEF ImportTypeOK, SkipExisting
<1>2. PICK id \in exec[o].left :
        /\ Working(o, id) /\ Become(o, [exec[o] EXCEPT !.left = @ \ {id}])
        /\ RefsOf(o, Table(o), id) # {}
  BY DEF SkipExisting
<1> DEFINE state == [exec[o] EXCEPT !.left = @ \ {id}]
<1>3. state \in Work BY <1>1 DEF Work
<1>4. exec'[o] = state /\ Others(o) BY <1>2, <1>3, OnlyHis DEF Others
<1>5. /\ state.stage = exec[o].stage /\ state.left = exec[o].left \ {id} /\ ~state.absent
      /\ state.by = exec[o].by /\ state.rows = exec[o].rows /\ state.refs = exec[o].refs
  BY <1>1 DEF Work
<1>6. exec[o].stage # 0 BY <1>2 DEF Working
<1> HIDE DEF state
<1> QED BY <1>1, <1>2, <1>4, <1>5, <1>6 DEF SkipExisting, SameWork, SameTables

\* The row and the reference an execution adds for a source row.
RowOf(o, id) == [table |-> Table(o), id |-> id, by |-> exec[o].by]
RefOf(o, id) == [table |-> Table(o), id |-> id, by |-> exec[o].by, batch |-> BatchOf(o)]

LEMMA InsertShape ==
  ASSUME ImportTypeOK, NEW o \in Importers, InsertRow(o)
  PROVE  \E id \in exec[o].left :
           /\ Inserting(o, id) /\ ~Violates(Table(o), id)
           /\ Others(o) /\ SameTables
           /\ exec[o].stage \in 1 .. 5 /\ exec'[o].stage = exec[o].stage
           /\ exec'[o].by = exec[o].by /\ exec'[o].left = exec[o].left \ {id}
           /\ exec'[o].rows = exec[o].rows \cup {RowOf(o, id)}
           /\ exec'[o].refs = IF Table(o) \in Registered THEN exec[o].refs \cup {RefOf(o, id)}
                              ELSE exec[o].refs
           /\ ~exec'[o].absent
<1> DEFINE state(id) == [exec[o] EXCEPT !.absent = FALSE, !.left = @ \ {id},
                           !.rows = @ \cup {RowOf(o, id)},
                           !.refs = IF Table(o) \in Registered THEN @ \cup {RefOf(o, id)} ELSE @]
<1>1. PICK id \in exec[o].left :
        Inserting(o, id) /\ ~Violates(Table(o), id) /\ Become(o, state(id))
  BY DEF InsertRow, RowOf, RefOf
<1>2. exec[o] \in Work BY DEF ImportTypeOK
<1>3. exec[o].stage \in 1 .. 5 BY <1>1, TableFacts DEF Inserting, Working
<1>4. exec'[o] = state(id) /\ Others(o) BY <1>1 DEF Become, Others, ImportTypeOK
<1>5. /\ state(id).stage = exec[o].stage /\ state(id).by = exec[o].by
      /\ state(id).left = exec[o].left \ {id}
      /\ state(id).rows = exec[o].rows \cup {RowOf(o, id)}
      /\ state(id).refs = IF Table(o) \in Registered THEN exec[o].refs \cup {RefOf(o, id)}
                          ELSE exec[o].refs
      /\ ~state(id).absent
  BY <1>2 DEF Work
<1> HIDE DEF state
<1> QED BY <1>1, <1>3, <1>4, <1>5 DEF InsertRow, SameTables

LEMMA NextTableShape ==
  ASSUME ImportTypeOK, NEW o \in Importers, NextTable(o)
  PROVE  /\ Others(o) /\ SameWork(o) /\ SameTables
         /\ exec[o].stage \in 1 .. 5 /\ exec[o].left = {}
         /\ exec'[o].stage = exec[o].stage + 1 /\ exec'[o].absent = exec[o].absent
         /\ exec[o].stage # 5 => exec'[o].left = BackupOf(o)[Tables[exec[o].stage + 1]]
<1> DEFINE left == IF exec[o].stage = Len(Tables) THEN {}
                   ELSE BackupOf(o)[Tables[exec[o].stage + 1]]
           state == [exec[o] EXCEPT !.stage = @ + 1, !.left = left]
<1>1. exec[o] \in Work BY DEF ImportTypeOK
<1>2. exec[o].stage \in 1 .. 5 /\ exec[o].left = {} BY TableFacts DEF NextTable
<1>3. exec'[o] = state /\ Others(o) BY DEF NextTable, Become, Others, ImportTypeOK
<1>4. /\ state.stage = exec[o].stage + 1 /\ state.left = left /\ state.absent = exec[o].absent
      /\ state.by = exec[o].by /\ state.rows = exec[o].rows /\ state.refs = exec[o].refs
  BY <1>1 DEF Work
<1>5. exec[o].stage # 5 => left = BackupOf(o)[Tables[exec[o].stage + 1]] BY TableFacts
<1> HIDE DEF state, left
<1>6. exec'[o].stage # 0 BY <1>2, <1>3, <1>4
<1> QED BY <1>2, <1>3, <1>4, <1>5, <1>6 DEF NextTable, SameWork, SameTables

LEMMA CommitShape ==
  ASSUME ImportTypeOK, NEW o \in Importers, Commit(o)
  PROVE  /\ Others(o) /\ exec'[o] = NotRunning /\ exec[o].stage = 6 /\ exec[o].by \in Numbers
         /\ rows' = rows \cup exec[o].rows /\ refs' = refs \cup exec[o].refs
         /\ Numbers' = Numbers /\ Committed' = Committed \cup {exec[o].by}
         /\ \A n \in Numbers : /\ history'[n].batch = history[n].batch
                               /\ history'[n].backup = history[n].backup
                               /\ history'[n].after = history[n].after
         /\ UNCHANGED rolledBack
<1>1. exec[o].by \in Numbers /\ exec[o].stage = 6 BY TableFacts DEF Commit, ImportTypeOK
<1>2. history \in Seq(Executions) /\ Len(history) \in Nat BY DEF ImportTypeOK
<1>3. history' = [history EXCEPT ![exec[o].by].committed = TRUE] BY DEF Commit
<1>4. Numbers' = Numbers BY <1>2, <1>3 DEF Numbers
<1>5. \A n \in Numbers : history[n] \in Executions /\ history'[n] =
        IF n = exec[o].by THEN [history[n] EXCEPT !.committed = TRUE] ELSE history[n]
  <2>1. \A n \in Numbers : history[n] \in Executions BY <1>2 DEF Numbers
  <2>2. DOMAIN history = 1 .. Len(history) BY <1>2
  <2> QED BY <1>3, <2>1, <2>2 DEF Numbers
<1>6. \A n \in Numbers : /\ history'[n].batch = history[n].batch
                         /\ history'[n].backup = history[n].backup
                         /\ history'[n].after = history[n].after
                         /\ history'[n].committed = (n = exec[o].by \/ history[n].committed)
  BY <1>5 DEF Executions
<1>7. Committed' = Committed \cup {exec[o].by} BY <1>1, <1>4, <1>6 DEF Committed
<1>8. exec'[o] = NotRunning /\ Others(o) BY OnlyHis, IdleIsWork DEF Commit, Others
<1> QED BY <1>1, <1>4, <1>6, <1>7, <1>8 DEF Commit

-----------------------------------------------------------------------------
(* The invariant.                                                          *)

\* The steps of an operator that leave the committed tables alone.
Inside(o) == Stop(o) \/ LookUp(o) \/ SkipExisting(o) \/ InsertRow(o) \/ NextTable(o)

LEMMA InsideShape ==
  ASSUME ImportTypeOK, NEW o \in Importers, Inside(o)
  PROVE  /\ Others(o) /\ SameTables
         /\ \/ exec'[o] = NotRunning
            \/ exec'[o].stage # 0 /\ exec[o].stage # 0 /\ exec'[o].by = exec[o].by
<1>1. CASE Stop(o) BY <1>1, StopShape
<1>2. CASE LookUp(o) \/ SkipExisting(o) \/ NextTable(o)
  BY <1>2, LookUpShape, SkipShape, NextTableShape DEF SameWork
<1>3. CASE InsertRow(o)
  <2>1. PICK id \in exec[o].left :
           /\ Others(o) /\ SameTables
           /\ exec[o].stage \in 1 .. 5 /\ exec'[o].stage = exec[o].stage
           /\ exec'[o].by = exec[o].by
    BY <1>3, InsertShape
  <2> QED BY <2>1
<1> QED BY <1>1, <1>2, <1>3 DEF Inside

LEMMA FiveKinds ==
  ASSUME [ImportNext]_importVars
  PROVE  \/ Quiet \/ RollbackBatch
         \/ \E o \in Importers : BeginExecution(o) \/ Inside(o) \/ Commit(o)
BY StepKinds DEF Inside

LEMMA RunningStep ==
  ASSUME ImportTypeOK, Running, [ImportNext]_importVars PROVE Running'
<1> USE DEF Running
<1>1. CASE Quiet BY <1>1 DEF Quiet, Committed, Numbers
<1>2. CASE RollbackBatch BY <1>2 DEF RollbackBatch, Committed, Numbers
<1>3. ASSUME NEW o \in Importers, Inside(o) PROVE Running'
  <2>1. /\ Others(o) /\ SameTables
        /\ \/ exec'[o] = NotRunning
           \/ exec'[o].stage # 0 /\ exec[o].stage # 0 /\ exec'[o].by = exec[o].by
    BY <1>3, InsideShape
  <2>2. NotRunning.stage = 0 BY DEF NotRunning
  <2>3. Committed' = Committed /\ Numbers' = Numbers BY <2>1 DEF SameTables, Committed, Numbers
  <2> QED BY <2>1, <2>2, <2>3 DEF Others, SameTables
<1>4. ASSUME NEW o \in Importers, BeginExecution(o) PROVE Running'
  <2>1. Others(o) /\ exec[o].stage = 0 /\ exec'[o].stage = 1 /\ exec'[o].by = Len(history) + 1
    BY <1>4, BeginShape
  <2>2. /\ Numbers' = Numbers \cup {Len(history) + 1} /\ Len(history) + 1 \notin Numbers
        /\ \A n \in Numbers : history'[n] = history[n]
        /\ history'[Len(history) + 1].after = Committed
        /\ ~history'[Len(history) + 1].committed
    BY <1>4, BeginShape
  <2>3. Committed' = Committed BY <2>2 DEF Committed
  <2>4. Committed \subseteq Numbers BY DEF Committed
  <2>5. \A p \in Importers : exec[p].stage # 0 => exec[p].by \in Numbers BY DEF ImportTypeOK
  <2> QED BY <2>1, <2>2, <2>3, <2>4, <2>5 DEF Others
<1>5. ASSUME NEW o \in Importers, Commit(o) PROVE Running'
  <2>1. Others(o) /\ exec'[o] = NotRunning /\ exec[o].stage = 6 BY <1>5, CommitShape
  <2>2. /\ Numbers' = Numbers /\ Committed' = Committed \cup {exec[o].by}
        /\ \A n \in Numbers : history'[n].after = history[n].after
    BY <1>5, CommitShape
  <2>3. NotRunning.stage = 0 BY DEF NotRunning
  <2> QED BY <2>1, <2>2, <2>3 DEF Others
<1> QED BY <1>1, <1>2, <1>3, <1>4, <1>5, FiveKinds

\* History is only added to.
LEMMA HistoryKept ==
  ASSUME ImportTypeOK, [ImportNext]_importVars
  PROVE  /\ Numbers \subseteq Numbers' /\ Committed \subseteq Committed'
         /\ \A n \in Numbers : /\ history'[n].batch = history[n].batch
                               /\ history'[n].backup = history[n].backup
                               /\ history'[n].after = history[n].after
<1>1. CASE Quiet \/ RollbackBatch BY <1>1 DEF Quiet, RollbackBatch, Committed, Numbers
<1>2. ASSUME NEW o \in Importers, Inside(o) PROVE history' = history
  BY <1>2, InsideShape DEF SameTables
<1>3. ASSUME NEW o \in Importers, BeginExecution(o)
      PROVE  Numbers \subseteq Numbers' /\ \A n \in Numbers : history'[n] = history[n]
  BY <1>3, BeginShape
<1>4. CASE \E o \in Importers : Commit(o) BY <1>4, CommitShape
<1> QED BY <1>1, <1>2, <1>3, <1>4, FiveKinds DEF Committed, Numbers

\* The rows in sight belong to executions that have begun.
LEMMA RowsByNumbers ==
  ASSUME ImportTypeOK, Running, Pending, RegistryAccurate
  PROVE  /\ \A row \in rows : row.by \in Numbers /\ row.by \in Committed
         /\ \A o \in Importers : \A row \in exec[o].rows :
              exec[o].stage # 0 /\ row.by = exec[o].by /\ row.by \in Numbers
<1>1. \A row \in rows : row.by \in Numbers /\ row.by \in Committed
  BY DEF RegistryAccurate, BatchesWhole, Committed
<1>2. \A o \in Importers : exec[o].stage = 0 => exec[o].rows = {} BY DEF Running, NotRunning
<1> QED BY <1>1, <1>2 DEF ImportTypeOK, Pending

LEMMA PendingStep ==
  ASSUME ImportTypeOK, Running, Pending, RegistryAccurate, [ImportNext]_importVars PROVE Pending'
<1>1. \A n \in Numbers : history'[n].batch = history[n].batch BY HistoryKept
<1>2. \A o \in Importers : \A row \in exec[o].rows : RefTo(row)' = RefTo(row)
  BY <1>1, RowsByNumbers DEF RefTo
<1>3. SUFFICES ASSUME NEW p \in Importers
               PROVE  /\ \A row \in exec'[p].rows :
                           /\ row.by = exec'[p].by
                           /\ row.table \in Registered => RefTo(row)' \in exec'[p].refs
                      /\ \A ref \in exec'[p].refs :
                           [table |-> ref.table, id |-> ref.id, by |-> ref.by] \in exec'[p].rows
  BY DEF Pending
<1>4. CASE exec'[p].rows = exec[p].rows /\ exec'[p].refs = exec[p].refs /\ exec'[p].by = exec[p].by
  BY <1>2, <1>4 DEF Pending
<1>5. CASE exec'[p].rows = {} /\ exec'[p].refs = {}
  BY <1>5
<1>6. CASE InsertRow(p)
  <2>1. PICK id \in exec[p].left :
           /\ SameTables /\ exec[p].stage \in 1 .. 5 /\ exec'[p].by = exec[p].by
           /\ exec'[p].rows = exec[p].rows \cup {RowOf(p, id)}
           /\ exec'[p].refs = IF Table(p) \in Registered THEN exec[p].refs \cup {RefOf(p, id)}
                              ELSE exec[p].refs
    BY <1>6, InsertShape
  <2>2. ASSUME NEW row, row = RowOf(p, id)
        PROVE  row.by = exec[p].by /\ row.table = Table(p) /\ RefTo(row)' = RefOf(p, id)
    <3>1. row.table = Table(p) /\ row.id = id /\ row.by = exec[p].by BY <2>2 DEF RowOf
    <3>2. history'[exec[p].by].batch = BatchOf(p) BY <2>1 DEF SameTables, BatchOf
    <3> QED BY <3>1, <3>2 DEF RefTo, RefOf
  <2>3. [table |-> RefOf(p, id).table, id |-> RefOf(p, id).id, by |-> RefOf(p, id).by] = RowOf(p, id)
    BY DEF RefOf, RowOf
  <2>4. \A row \in exec'[p].rows :
           /\ row.by = exec'[p].by
           /\ row.table \in Registered => RefTo(row)' \in exec'[p].refs
    <3>1. ASSUME NEW row \in exec[p].rows
          PROVE  row.by = exec'[p].by /\ (row.table \in Registered => RefTo(row)' \in exec'[p].refs)
      BY <1>2, <2>1 DEF Pending
    <3>2. ASSUME NEW row, row = RowOf(p, id)
          PROVE  row.by = exec'[p].by /\ (row.table \in Registered => RefTo(row)' \in exec'[p].refs)
      BY <2>1, <2>2, <3>2
    <3> QED BY <2>1, <3>1, <3>2
  <2>5. \A ref \in exec'[p].refs :
           [table |-> ref.table, id |-> ref.id, by |-> ref.by] \in exec'[p].rows
    BY <2>1, <2>3 DEF Pending
  <2> QED BY <2>4, <2>5
<1>7. CASE exec' = exec BY <1>4, <1>7
<1>8. ASSUME NEW o \in Importers, BeginExecution(o) \/ Commit(o) \/ Inside(o), o # p
      PROVE  exec'[p] = exec[p]
  BY <1>8, BeginShape, CommitShape, InsideShape DEF Others
<1>9. NotRunning.rows = {} /\ NotRunning.refs = {} BY DEF NotRunning
<1>10. CASE BeginExecution(p) BY <1>5, <1>10, BeginShape
<1>11. CASE Stop(p) \/ Commit(p) BY <1>5, <1>9, <1>11, StopShape, CommitShape
<1>12. CASE LookUp(p) \/ SkipExisting(p) \/ NextTable(p)
  BY <1>4, <1>12, LookUpShape, SkipShape, NextTableShape DEF SameWork
<1> QED BY <1>4, <1>6, <1>7, <1>8, <1>10, <1>11, <1>12, FiveKinds DEF Inside, Quiet, RollbackBatch

\* Rows are never taken away; they and new commits come from Commit only.
LEMMA TablesKept ==
  ASSUME ImportTypeOK, [ImportNext]_importVars, \A o \in Importers : ~Commit(o)
  PROVE  /\ rows' = rows /\ refs' \subseteq refs /\ Committed' = Committed
         /\ rolledBack \subseteq rolledBack'
<1>1. CASE Quiet BY <1>1 DEF Quiet, Committed, Numbers
<1>2. CASE RollbackBatch BY <1>2 DEF RollbackBatch, Committed, Numbers
<1>3. ASSUME NEW o \in Importers, Inside(o)
      PROVE  UNCHANGED <<rows, refs, rolledBack>> /\ Committed' = Committed
  BY <1>3, InsideShape DEF SameTables, Committed, Numbers
<1>4. ASSUME NEW o \in Importers, BeginExecution(o)
      PROVE  UNCHANGED <<rows, refs, rolledBack>> /\ Committed' = Committed
  BY <1>4, BeginShape DEF Committed
<1> QED BY <1>1, <1>2, <1>3, <1>4, FiveKinds

LEMMA RegistryStep ==
  ASSUME ImportTypeOK, Running, Pending, RegistryAccurate, Imported, [ImportNext]_importVars
  PROVE  RegistryAccurate'
<1>1. /\ \A n \in Numbers : /\ history'[n].batch = history[n].batch
                            /\ history'[n].backup = history[n].backup
      /\ Committed \subseteq Numbers
  BY HistoryKept DEF Committed
<1>2. \A row \in rows : RefTo(row)' = RefTo(row) /\ history'[row.by].batch = history[row.by].batch
  BY <1>1, RowsByNumbers DEF RefTo
<1>3. CASE \A o \in Importers : ~Commit(o)
  <2>1. /\ rows' = rows /\ refs' \subseteq refs /\ Committed' = Committed
        /\ rolledBack \subseteq rolledBack'
    BY <1>3, TablesKept
  <2>2. RefsNameRows' BY <2>1 DEF RegistryAccurate, RefsNameRows
  <2>3. RowsAreRegistered'
    <3>1. CASE RollbackBatch
      <4>1. PICK batch \in Batches : /\ refs' = {ref \in refs : ref.batch # batch}
                                     /\ rolledBack' = rolledBack \cup {batch}
        BY <3>1 DEF RollbackBatch
      <4>2. \A row \in rows : RefTo(row).batch = history[row.by].batch BY DEF RefTo
      <4> QED BY <1>2, <2>1, <4>1, <4>2 DEF RegistryAccurate, RowsAreRegistered
    <3>2. CASE ~RollbackBatch
      <4>1. refs' = refs
        BY <1>3, <3>2, FiveKinds, BeginShape, InsideShape DEF Quiet, SameTables
      <4> QED BY <1>2, <2>1, <4>1 DEF RegistryAccurate, RowsAreRegistered
    <3> QED BY <3>1, <3>2
  <2>4. BatchesWhole' BY <1>1, <2>1 DEF RegistryAccurate, BatchesWhole
  <2> QED BY <2>2, <2>3, <2>4 DEF RegistryAccurate
<1>4. ASSUME NEW o \in Importers, Commit(o) PROVE RegistryAccurate'
  <2>1. /\ rows' = rows \cup exec[o].rows /\ refs' = refs \cup exec[o].refs
        /\ Committed' = Committed \cup {exec[o].by} /\ exec[o].stage = 6 /\ exec[o].by \in Numbers
        /\ rolledBack' = rolledBack
    BY <1>4, CommitShape
  <2>2. RefsNameRows' BY <2>1 DEF RegistryAccurate, RefsNameRows, Pending
  <2>3. RowsAreRegistered'
    <3>1. \A row \in exec[o].rows : RefTo(row)' = RefTo(row)
      BY <1>1, RowsByNumbers DEF RefTo
    <3> QED BY <1>2, <2>1, <3>1 DEF RegistryAccurate, RowsAreRegistered, Pending
  <2>4. \A row \in rows' : row.by \in Committed'
    BY <2>1 DEF RegistryAccurate, BatchesWhole, Pending
  <2>5. ASSUME NEW n \in Committed', NEW table \in TableNames, NEW id \in history'[n].backup[table]
        PROVE  \E row \in rows' : row.table = table /\ row.id = id
    <3>1. CASE n \in Committed BY <1>1, <2>1, <3>1 DEF RegistryAccurate, BatchesWhole
    <3>2. CASE n = exec[o].by
      <4>1. PICK i \in 1 .. 5 : table = Tables[i] BY TableFacts
      <4>2. id \in BackupOf(o)[Tables[i]] BY <1>1, <2>1, <2>5, <3>2, <4>1 DEF BackupOf
      <4>3. i \in 1 .. Len(Tables) /\ i <= exec[o].stage /\ i # exec[o].stage
        BY <2>1, <4>1, TableFacts
      <4> QED BY <2>1, <4>1, <4>2, <4>3 DEF Imported
    <3> QED BY <2>1, <3>1, <3>2
  <2> QED BY <2>2, <2>3, <2>4, <2>5 DEF RegistryAccurate, BatchesWhole
<1> QED BY <1>3, <1>4

\* What has been imported stays so.
There(o, i, id) == \E row \in rows \cup exec[o].rows : row.table = Tables[i] /\ row.id = id

LEMMA ImportedStep ==
  ASSUME ImportTypeOK, Running, Pending, RegistryAccurate, Imported, [ImportNext]_importVars
  PROVE  Imported'
<1> SUFFICES ASSUME NEW p \in Importers, NEW i \in 1 .. 5, i <= exec'[p].stage,
                    NEW id \in BackupOf(p)'[Tables[i]]
             PROVE  (i = exec'[p].stage /\ id \in exec'[p].left) \/ There(p, i, id)'
  BY TableFacts DEF Imported, There
<1>1. rows \subseteq rows' BY TablesKept, CommitShape
<1>2. ASSUME exec[p].stage # 0, exec'[p].by = exec[p].by
      PROVE  BackupOf(p)' = BackupOf(p)
  BY <1>2, HistoryKept DEF ImportTypeOK, BackupOf
<1>3. ASSUME i <= exec[p].stage, id \in BackupOf(p)[Tables[i]]
      PROVE  (i = exec[p].stage /\ id \in exec[p].left) \/ There(p, i, id)
  BY <1>3, TableFacts DEF Imported, There
<1>4. ASSUME There(p, i, id), exec[p].rows \subseteq exec'[p].rows PROVE There(p, i, id)'
  BY <1>1, <1>4 DEF There
<1>5. CASE exec'[p] = exec[p]
  <2>1. exec[p].stage # 0 BY <1>5
  <2> QED BY <1>2, <1>3, <1>4, <1>5, <2>1
<1>6. CASE BeginExecution(p)
  <2>1. /\ exec'[p].stage = 1 /\ exec'[p].by = Len(history) + 1
        /\ exec'[p].left = history'[Len(history) + 1].backup.services
    BY <1>6, BeginShape
  <2>2. i = 1 /\ Tables[i] = "services" BY <2>1, TableFacts
  <2> QED BY <2>1, <2>2 DEF BackupOf
<1>7. CASE Stop(p) \/ Commit(p)
  BY <1>7, StopShape, CommitShape DEF NotRunning
<1>8. CASE LookUp(p)
  <2>1. /\ exec'[p].stage = exec[p].stage /\ exec'[p].left = exec[p].left
        /\ exec'[p].rows = exec[p].rows /\ exec'[p].by = exec[p].by /\ exec[p].stage # 0
    BY <1>8, LookUpShape DEF SameWork
  <2> QED BY <1>2, <1>3, <1>4, <2>1
<1>9. CASE SkipExisting(p)
  <2>1. PICK j \in exec[p].left : /\ exec'[p].left = exec[p].left \ {j}
                                  /\ RefsOf(p, Table(p), j) # {}
    BY <1>9, SkipShape
  <2>2. /\ exec'[p].stage = exec[p].stage /\ exec'[p].rows = exec[p].rows
        /\ exec'[p].by = exec[p].by /\ exec[p].stage # 0
    BY <1>9, SkipShape DEF SameWork
  <2>3. \E row \in rows : row.table = Table(p) /\ row.id = j
    BY <2>1 DEF RefsOf, RegistryAccurate, RefsNameRows
  <2>4. i = exec[p].stage => Tables[i] = Table(p) BY DEF Table
  <2> QED BY <1>2, <1>3, <1>4, <2>1, <2>2, <2>3, <2>4 DEF There
<1>10. CASE InsertRow(p)
  <2>1. PICK j \in exec[p].left :
           /\ exec[p].stage \in 1 .. 5 /\ exec'[p].stage = exec[p].stage
           /\ exec'[p].by = exec[p].by /\ exec'[p].left = exec[p].left \ {j}
           /\ exec'[p].rows = exec[p].rows \cup {RowOf(p, j)}
    BY <1>10, InsertShape
  <2>2. RowOf(p, j).table = Table(p) /\ RowOf(p, j).id = j BY DEF RowOf
  <2>3. i = exec[p].stage => Tables[i] = Table(p) BY DEF Table
  <2>4. i <= exec[p].stage /\ id \in BackupOf(p)[Tables[i]] BY <1>2, <2>1
  <2>5. CASE i = exec[p].stage /\ id \in exec[p].left
    BY <2>1, <2>2, <2>3, <2>5 DEF There
  <2>6. CASE There(p, i, id) BY <1>4, <2>1, <2>6
  <2> QED BY <1>3, <2>4, <2>5, <2>6
<1>11. CASE NextTable(p)
  <2>1. /\ exec[p].stage \in 1 .. 5 /\ exec[p].left = {} /\ exec'[p].stage = exec[p].stage + 1
        /\ exec[p].stage # 5 => exec'[p].left = BackupOf(p)[Tables[exec[p].stage + 1]]
        /\ exec'[p].rows = exec[p].rows /\ exec'[p].by = exec[p].by
    BY <1>11, NextTableShape DEF SameWork
  <2>2. BackupOf(p)' = BackupOf(p) BY <1>2, <2>1
  <2>3. CASE i <= exec[p].stage BY <1>3, <1>4, <2>1, <2>2, <2>3
  <2>4. CASE i = exec[p].stage + 1
    <3>1. exec'[p].left = BackupOf(p)[Tables[i]] BY <2>1, <2>4
    <3> QED BY <2>1, <2>2, <2>4, <3>1
  <2> QED BY <2>1, <2>3, <2>4
<1>12. ASSUME NEW o \in Importers, BeginExecution(o) \/ Commit(o) \/ Inside(o), o # p
       PROVE  exec'[p] = exec[p]
  BY <1>12, BeginShape, CommitShape, InsideShape DEF Others
<1> QED BY <1>5, <1>6, <1>7, <1>8, <1>9, <1>10, <1>11, <1>12, FiveKinds
        DEF Inside, Quiet, RollbackBatch

\* How the rows of an operator that is not inserting come about.
LEMMA RowsOfOthers ==
  ASSUME ImportTypeOK, [ImportNext]_importVars, NEW p \in Importers, ~InsertRow(p)
  PROVE  exec'[p].rows \subseteq exec[p].rows
<1>1. CASE \E o \in Importers : o # p /\ (BeginExecution(o) \/ Commit(o) \/ Inside(o))
  BY <1>1, BeginShape, CommitShape, InsideShape DEF Others
<1>2. CASE BeginExecution(p) BY <1>2, BeginShape
<1>3. CASE Stop(p) \/ Commit(p) BY <1>3, StopShape, CommitShape DEF NotRunning
<1>4. CASE LookUp(p) \/ SkipExisting(p) \/ NextTable(p)
  BY <1>4, LookUpShape, SkipShape, NextTableShape DEF SameWork
<1>5. CASE Quiet \/ RollbackBatch BY <1>5 DEF Quiet, RollbackBatch
<1> QED BY <1>1, <1>2, <1>3, <1>4, <1>5, FiveKinds DEF Inside

LEMMA UniqueStep ==
  ASSUME ImportTypeOK, Running, Pending, UniqueServices, [ImportNext]_importVars PROVE UniqueServices'
<1>1. ASSUME NEW o \in Importers, Commit(o) PROVE UniqueServices'
  <2>1. Others(o) /\ exec'[o].rows = {} /\ rows' = rows \cup exec[o].rows
    BY <1>1, CommitShape DEF NotRunning
  <2>2. ASSUME NEW row \in rows', NEW again \in rows',
               row.table = "services", again.table = "services", row.id = again.id
        PROVE  row.by = again.by
    BY <2>1, <2>2 DEF UniqueServices, Pending
  <2>3. \A p \in Importers : \A row \in exec'[p].rows, again \in rows' :
          row.table = "services" /\ again.table = "services" => row.id # again.id
    BY <2>1 DEF UniqueServices, Others
  <2>4. \A p \in Importers : exec'[p].rows \subseteq exec[p].rows BY <2>1 DEF Others
  <2> QED BY <2>2, <2>3, <2>4 DEF UniqueServices
<1>2. ASSUME \A o \in Importers : ~Commit(o), \A o \in Importers : ~InsertRow(o)
      PROVE  UniqueServices'
  <2>1. rows' = rows /\ \A p \in Importers : exec'[p].rows \subseteq exec[p].rows
    BY <1>2, TablesKept, RowsOfOthers
  <2> QED BY <2>1 DEF UniqueServices
<1>3. ASSUME NEW o \in Importers, InsertRow(o) PROVE UniqueServices'
  <2>1. PICK id \in exec[o].left :
           /\ Inserting(o, id) /\ ~Violates(Table(o), id) /\ Others(o) /\ SameTables
           /\ exec'[o].rows = exec[o].rows \cup {RowOf(o, id)}
    BY <1>3, InsertShape
  <2>2. RowOf(o, id).table = Table(o) /\ RowOf(o, id).id = id BY DEF RowOf
  <2>3. ASSUME Table(o) = "services"
        PROVE  /\ \A row \in rows : row.table = "services" => row.id # id
               /\ \A p \in Importers : p # o =>
                    \A row \in exec[p].rows : row.table = "services" => row.id # id
    BY <2>1, <2>3 DEF Violates, Inserting, WaitsFor
  <2>4. rows' = rows /\ \A p \in Importers : p # o => exec'[p].rows = exec[p].rows
    BY <2>1 DEF SameTables, Others
  <2>5. \A p \in Importers : \A row \in exec'[p].rows, again \in rows' :
          row.table = "services" /\ again.table = "services" => row.id # again.id
    <3>1. \A row \in exec'[o].rows, again \in rows' :
            row.table = "services" /\ again.table = "services" => row.id # again.id
      BY <2>1, <2>2, <2>3, <2>4 DEF UniqueServices
    <3> QED BY <2>4, <3>1 DEF UniqueServices
  <2>6. ASSUME NEW p \in Importers, p # o,
               NEW row \in exec'[o].rows, NEW again \in exec'[p].rows,
               row.table = "services", again.table = "services"
        PROVE  row.id # again.id
    <3>1. again \in exec[p].rows BY <2>4, <2>6
    <3>2. CASE row \in exec[o].rows BY <2>6, <3>1, <3>2 DEF UniqueServices
    <3>3. CASE row = RowOf(o, id) BY <2>2, <2>3, <2>6, <3>1, <3>3
    <3> QED BY <2>1, <3>2, <3>3
  <2>7. ASSUME NEW p \in Importers, NEW q \in Importers, p # q,
               NEW row \in exec'[p].rows, NEW again \in exec'[q].rows,
               row.table = "services", again.table = "services"
        PROVE  row.id # again.id
    <3>1. CASE p = o BY <2>6, <2>7, <3>1
    <3>2. CASE q = o BY <2>6, <2>7, <3>2
    <3>3. CASE p # o /\ q # o BY <2>4, <2>7, <3>3 DEF UniqueServices
    <3> QED BY <3>1, <3>2, <3>3
  <2>8. \A row, again \in rows' :
          row.table = "services" /\ again.table = "services" /\ row.id = again.id
          => row.by = again.by
    BY <2>4 DEF UniqueServices
  <2> QED BY <2>5, <2>7, <2>8 DEF UniqueServices
<1> QED BY <1>1, <1>2, <1>3

LEMMA AscendingStep ==
  ASSUME ImportTypeOK, Running, Ascending, [ImportNext]_importVars PROVE Ascending'
<1> SUFFICES ASSUME NEW p \in Importers, exec'[p].stage = 1,
                    NEW row \in exec'[p].rows, NEW id \in exec'[p].left, row.table = "services"
             PROVE  row.id < id
  BY DEF Ascending
<1>1. CASE exec[p].stage = 1 /\ exec'[p].rows \subseteq exec[p].rows
           /\ exec'[p].left \subseteq exec[p].left
  BY <1>1 DEF Ascending
<1>2. CASE InsertRow(p)
  <2>1. PICK j \in exec[p].left :
           /\ Inserting(p, j) /\ exec'[p].stage = exec[p].stage
           /\ exec'[p].left = exec[p].left \ {j}
           /\ exec'[p].rows = exec[p].rows \cup {RowOf(p, j)}
    BY <1>2, InsertShape
  <2>2. exec[p].left \subseteq Nat BY DEF ImportTypeOK, Work
  <2>3. j <= id /\ j # id /\ j \in Nat /\ id \in Nat
    BY <2>1, <2>2 DEF Inserting, Working, NextRow
  <2>4. CASE row = RowOf(p, j) BY <2>3, <2>4 DEF RowOf
  <2>5. CASE row \in exec[p].rows BY <2>1, <2>5 DEF Ascending
  <2> QED BY <2>1, <2>4, <2>5
<1>3. CASE exec'[p] = exec[p] BY <1>1, <1>3
<1>4. ASSUME NEW o \in Importers, BeginExecution(o) \/ Commit(o) \/ Inside(o), o # p
      PROVE  exec'[p] = exec[p]
  BY <1>4, BeginShape, CommitShape, InsideShape DEF Others
<1>5. CASE BeginExecution(p) BY <1>5, BeginShape
<1>6. CASE Stop(p) \/ Commit(p) BY <1>6, StopShape, CommitShape DEF NotRunning
<1>7. CASE LookUp(p) \/ SkipExisting(p) BY <1>1, <1>7, LookUpShape, SkipShape DEF SameWork
<1>8. CASE NextTable(p)
  <2>1. exec'[p].stage = exec[p].stage + 1 /\ exec[p].stage \in 1 .. 5 BY <1>8, NextTableShape
  <2> QED BY <2>1
<1> QED BY <1>2, <1>3, <1>4, <1>5, <1>6, <1>7, <1>8, FiveKinds DEF Inside, Quiet, RollbackBatch

LEMMA UnseenKept ==
  ASSUME ImportTypeOK, Running, Pending, RegistryAccurate, [ImportNext]_importVars,
         NEW p \in Importers, NEW table, NEW id,
         exec[p].stage # 0, exec'[p].by = exec[p].by, Unseen(p, table, id)
  PROVE  Unseen(p, table, id)'
<1>1. exec[p].by \in Numbers BY DEF ImportTypeOK
<1>2. /\ history'[exec'[p].by].after = history[exec[p].by].after
      /\ history[exec[p].by].after \subseteq Committed
      /\ \A n \in Numbers : history'[n].batch = history[n].batch
  BY <1>1, HistoryKept DEF Running
<1>3. SUFFICES ASSUME NEW row \in rows', row.table = table, row.id = id,
                      row.by \in history[exec[p].by].after
               PROVE  RefTo(row)' \notin refs'
  BY <1>2 DEF Unseen
<1>4. row.by \in Committed /\ row.by \in Numbers BY <1>2, <1>3 DEF Committed
<1>5. row \in rows
  <2>1. ASSUME NEW o \in Importers, Commit(o), row \in exec[o].rows PROVE FALSE
    BY <1>4, <2>1, RowsByNumbers DEF Running
  <2>2. CASE \A o \in Importers : ~Commit(o) BY <2>2, TablesKept
  <2> QED BY <2>1, <2>2, CommitShape
<1>6. RefTo(row)' = RefTo(row) /\ RefTo(row).by = row.by BY <1>2, <1>4 DEF RefTo
<1>7. RefTo(row) \notin refs BY <1>3, <1>5 DEF Unseen
<1>8. ASSUME NEW o \in Importers, Commit(o), RefTo(row) \in exec[o].refs PROVE FALSE
  <2>1. [table |-> row.table, id |-> row.id, by |-> row.by] \in exec[o].rows
    BY <1>8 DEF Pending, RefTo
  <2> QED BY <1>4, <2>1, RowsByNumbers DEF Running
<1>9. CASE \A o \in Importers : ~Commit(o) BY <1>6, <1>7, <1>9, TablesKept
<1> QED BY <1>6, <1>7, <1>8, <1>9, CommitShape

LEMMA LookedUpStep ==
  ASSUME ImportTypeOK, Running, Pending, RegistryAccurate, LookedUp, [ImportNext]_importVars
  PROVE  LookedUp'
<1> SUFFICES ASSUME NEW p \in Importers
             PROVE  /\ exec'[p].absent =>
                         /\ exec'[p].stage \in 1 .. Len(Tables) /\ exec'[p].left # {}
                         /\ \A id \in exec'[p].left, table \in TableNames :
                              NextRow(p, id)' /\ table = Table(p)' => Unseen(p, table, id)'
                    /\ \A row \in exec'[p].rows :
                         row.table \in Registered => Unseen(p, row.table, row.id)'
  BY DEF LookedUp
<1>1. ASSUME exec[p].stage # 0, exec'[p].by = exec[p].by, exec'[p].rows = exec[p].rows
      PROVE  \A row \in exec'[p].rows :
               row.table \in Registered => Unseen(p, row.table, row.id)'
  BY <1>1, UnseenKept DEF LookedUp
<1>2. CASE exec'[p] = exec[p]
  <2>1. CASE exec[p].stage = 0
    <3>1. ~exec'[p].absent /\ exec'[p].rows = {} BY <1>2, <2>1 DEF Running, NotRunning
    <3> QED BY <3>1
  <2>2. CASE exec[p].stage # 0
    <3>1. ASSUME exec'[p].absent, NEW id \in exec'[p].left, NEW table \in TableNames,
                 NextRow(p, id)', table = Table(p)'
          PROVE  Unseen(p, table, id)'
      <4>1. exec[p].absent /\ id \in exec[p].left /\ NextRow(p, id) /\ table = Table(p)
        BY <1>2, <3>1 DEF NextRow, Table
      <4>2. Unseen(p, table, id) BY <4>1 DEF LookedUp
      <4> QED BY <1>2, <2>2, <4>2, UnseenKept
    <3>2. exec'[p].absent => exec'[p].stage \in 1 .. Len(Tables) /\ exec'[p].left # {}
      BY <1>2 DEF LookedUp
    <3> QED BY <1>1, <1>2, <2>2, <3>1, <3>2
  <2> QED BY <2>1, <2>2
<1>3. ASSUME NEW o \in Importers, BeginExecution(o) \/ Commit(o) \/ Inside(o), o # p
      PROVE  exec'[p] = exec[p]
  BY <1>3, BeginShape, CommitShape, InsideShape DEF Others
<1>4. CASE BeginExecution(p)
  <2>1. ~exec'[p].absent /\ exec'[p].rows = {} BY <1>4, BeginShape
  <2> QED BY <2>1
<1>5. CASE Stop(p) \/ Commit(p)
  <2>1. ~exec'[p].absent /\ exec'[p].rows = {} BY <1>5, StopShape, CommitShape DEF NotRunning
  <2> QED BY <2>1
<1>6. CASE SkipExisting(p)
  <2>1. ~exec'[p].absent BY <1>6, SkipShape
  <2> QED BY <1>1, <1>6, <2>1, SkipShape DEF SameWork
<1>7. CASE NextTable(p)
  <2>1. ~exec'[p].absent BY <1>7, NextTableShape DEF LookedUp
  <2> QED BY <1>1, <1>7, <2>1, NextTableShape DEF SameWork
<1>8. CASE LookUp(p)
  <2>1. /\ SameTables /\ SameWork(p) /\ exec'[p].stage = exec[p].stage
        /\ exec'[p].left = exec[p].left
    BY <1>8, LookUpShape
  <2>2. PICK found \in exec[p].left : Working(p, found) /\ RefsOf(p, Table(p), found) = {}
    BY <1>8, LookUpShape
  <2>3. exec[p].left \subseteq Nat BY DEF ImportTypeOK, Work
  <2>4. ASSUME NEW id \in exec'[p].left, NEW table \in TableNames,
               NextRow(p, id)', table = Table(p)'
        PROVE  Unseen(p, table, id)'
    <3>1. id \in exec[p].left /\ NextRow(p, id) /\ table = Table(p)
      BY <2>1, <2>4 DEF NextRow, Table
    <3>2. id = found BY <2>2, <2>3, <3>1 DEF Working, NextRow
    <3>3. \A row \in rows : row.table = Table(p) /\ row.id = found => RefTo(row) \notin refs
      BY <2>2 DEF RefsOf, RefTo
    <3>4. Unseen(p, table, id) BY <3>1, <3>2, <3>3 DEF Unseen
    <3> QED BY <2>1, <3>4, UnseenKept DEF SameWork
  <2>5. exec'[p].stage \in 1 .. Len(Tables) /\ exec'[p].left # {} BY <2>1, <2>2 DEF Working
  <2> QED BY <1>1, <2>1, <2>4, <2>5 DEF SameWork
<1>9. CASE InsertRow(p)
  <2>1. PICK found \in exec[p].left :
           /\ Inserting(p, found) /\ exec'[p].by = exec[p].by /\ ~exec'[p].absent
           /\ exec[p].stage \in 1 .. 5
           /\ exec'[p].rows = exec[p].rows \cup {RowOf(p, found)}
    BY <1>9, InsertShape
  <2>2. ASSUME NEW row \in exec'[p].rows, row.table \in Registered
        PROVE  Unseen(p, row.table, row.id)
    <3>1. CASE row \in exec[p].rows BY <2>2, <3>1 DEF LookedUp
    <3>2. CASE row = RowOf(p, found)
      <4>1. row.table = Table(p) /\ row.id = found BY <3>2 DEF RowOf
      <4>2. exec[p].absent /\ NextRow(p, found)
        BY <2>1, <2>2, <4>1 DEF Inserting, Working
      <4>3. Table(p) \in TableNames BY <2>1, TableFacts DEF Table
      <4> QED BY <4>1, <4>2, <4>3 DEF LookedUp
    <3> QED BY <2>1, <3>1, <3>2
  <2>3. \A row \in exec'[p].rows : row.table \in Registered => Unseen(p, row.table, row.id)'
    BY <2>1, <2>2, UnseenKept
  <2> QED BY <2>1, <2>3
<1> QED BY <1>2, <1>3, <1>4, <1>5, <1>6, <1>7, <1>8, <1>9, FiveKinds
        DEF Inside, Quiet, RollbackBatch

\* Between committed rows: the second execution could not see the first, or not any more.
LEMMA RerunStep ==
  ASSUME ImportTypeOK, Running, Pending, RegistryAccurate, UniqueServices, LookedUp,
         RerunNeverDuplicates, [ImportNext]_importVars
  PROVE  RerunNeverDuplicates'
<1> SUFFICES ASSUME NEW row \in rows', NEW again \in rows',
                    row.table \in Registered, again.table = row.table, again.id = row.id,
                    again.by # row.by
             PROVE  /\ row.table # "services"
                    /\ row.by \in history'[again.by].after => RefTo(row)' \notin refs'
  BY DEF RerunNeverDuplicates
<1>1. row.table # "services" BY UniqueStep DEF UniqueServices
<1>2. /\ \A n \in Numbers : /\ history'[n].batch = history[n].batch
                            /\ history'[n].after = history[n].after
                            /\ history[n].after \subseteq Committed
      /\ Committed \subseteq Numbers
  BY HistoryKept DEF Running, Committed
<1>3. CASE \A o \in Importers : ~Commit(o)
  <2>1. row \in rows /\ again \in rows /\ refs' \subseteq refs BY <1>3, TablesKept
  <2>2. row.by \in Numbers /\ again.by \in Numbers BY <2>1, RowsByNumbers
  <2>3. RefTo(row)' = RefTo(row) /\ history'[again.by].after = history[again.by].after
    BY <1>2, <2>2 DEF RefTo
  <2> QED BY <1>1, <2>1, <2>3 DEF RerunNeverDuplicates
<1>4. ASSUME NEW o \in Importers, Commit(o), row.by \in history'[again.by].after
      PROVE  RefTo(row)' \notin refs'
  <2>1. rows' = rows \cup exec[o].rows /\ refs' = refs \cup exec[o].refs BY <1>4, CommitShape
  <2>2. again.by \in Numbers BY <2>1, RowsByNumbers
  <2>3. row.by \in history[again.by].after /\ row.by \in Committed /\ row.by \in Numbers
    BY <1>2, <1>4, <2>2
  <2>4. exec[o].stage # 0 BY <1>4, CommitShape
  <2>5. row \in rows BY <2>1, <2>3, <2>4, RowsByNumbers DEF Running
  <2>6. RefTo(row)' = RefTo(row) /\ RefTo(row).by = row.by BY <1>2, <2>3 DEF RefTo
  <2>7. RefTo(row) \notin exec[o].refs
    <3>1. RefTo(row) \in exec[o].refs => \E other \in exec[o].rows : other.by = row.by
      BY <2>6 DEF Pending
    <3> QED BY <2>3, <2>4, <3>1, RowsByNumbers DEF Running
  <2>8. RefTo(row) \notin refs
    <3>1. CASE again \in rows BY <2>3, <2>5, <3>1 DEF RerunNeverDuplicates
    <3>2. CASE again \in exec[o].rows
      <4>1. again.by = exec[o].by BY <3>2, RowsByNumbers
      <4>2. Unseen(o, again.table, again.id) BY <3>2 DEF LookedUp
      <4> QED BY <2>3, <2>5, <4>1, <4>2 DEF Unseen
    <3> QED BY <2>1, <3>1, <3>2
  <2> QED BY <2>1, <2>6, <2>7, <2>8
<1> QED BY <1>1, <1>3, <1>4

ImportInv ==
  /\ ImportTypeOK /\ Running /\ Pending /\ RegistryAccurate /\ Imported /\ UniqueServices
  /\ Ascending /\ LookedUp /\ RerunNeverDuplicates

LEMMA Inductive == ImportSpec => []ImportInv
<1>1. ImportInit => ImportInv
  <2> SUFFICES ASSUME ImportInit PROVE ImportInv OBVIOUS
  <2>1. rows = {} /\ refs = {} /\ history = <<>> /\ \A o \in Importers : exec[o] = NotRunning
    BY DEF ImportInit
  <2>2. ImportTypeOK BY IdleIsWork DEF ImportInit, ImportTypeOK, NotRunning
  <2>3. Numbers = {} /\ Committed = {} BY <2>1 DEF Numbers, Committed
  <2>4. /\ NotRunning.stage = 0 /\ NotRunning.rows = {} /\ NotRunning.refs = {} /\ ~NotRunning.absent BY DEF NotRunning
  <2>5. Running BY <2>1, <2>3, <2>4 DEF Running
  <2>6. Pending /\ UniqueServices /\ LookedUp
    BY <2>1, <2>4 DEF Pending, UniqueServices, LookedUp
  <2>7. Imported
    <3>1. \A i \in 1 .. Len(Tables) : ~(i <= 0) BY TableFacts
    <3> QED BY <2>1, <2>4, <3>1 DEF Imported
  <2>8. Ascending BY <2>1, <2>4 DEF Ascending
  <2>9. RegistryAccurate BY <2>1, <2>3
    DEF RegistryAccurate, RefsNameRows, RowsAreRegistered, BatchesWhole
  <2>10. RerunNeverDuplicates BY <2>1 DEF RerunNeverDuplicates
  <2> QED BY <2>2, <2>5, <2>6, <2>7, <2>8, <2>9, <2>10 DEF ImportInv
<1>2. ImportInv /\ [ImportNext]_importVars => ImportInv'
  <2> SUFFICES ASSUME ImportInv, [ImportNext]_importVars PROVE ImportInv' OBVIOUS
  <2> USE DEF ImportInv
  <2>1. ImportTypeOK' BY TypeStep
  <2>2. Running' BY RunningStep
  <2>3. Pending' BY PendingStep
  <2>4. RegistryAccurate' BY RegistryStep
  <2>5. Imported' BY ImportedStep
  <2>6. UniqueServices' BY UniqueStep
  <2>7. Ascending' BY AscendingStep
  <2>8. LookedUp' BY LookedUpStep
  <2>9. RerunNeverDuplicates' BY RerunStep
  <2> QED BY <2>1, <2>2, <2>3, <2>4, <2>5, <2>6, <2>7, <2>8, <2>9
<1> QED BY <1>1, <1>2, PTL DEF ImportSpec

\* The registry says what has been imported, and a copy is imported whole or not at all.
THEOREM RegistryIsAccurate == ImportSpec => []RegistryAccurate
<1>1. ImportInv => RegistryAccurate BY DEF ImportInv
<1> QED BY Inductive, <1>1, PTL

\* An execution copies nothing again that it could see registered.
THEOREM RerunsNeverDuplicate == ImportSpec => []RerunNeverDuplicates
<1>1. ImportInv => RerunNeverDuplicates BY DEF ImportInv
<1> QED BY Inductive, <1>1, PTL

\* Two executions never wait for each other, because both insert services in order.
THEOREM NeverCrossedWait == ImportSpec => []NoCrossedWait
<1>1. ImportInv => NoCrossedWait
  <2> SUFFICES ASSUME ImportInv, NEW o \in Importers, NEW p \in Importers,
                      NEW i \in exec[o].left, NEW j \in exec[p].left,
                      Working(o, i), WaitsFor(o, p, i), Working(p, j), WaitsFor(p, o, j)
               PROVE  FALSE
    BY DEF NoCrossedWait
  <2>1. exec[o].stage = 1 /\ exec[p].stage = 1
    BY TableFacts DEF WaitsFor, Working, Table
  <2>2. j < i BY <2>1 DEF WaitsFor, ImportInv, Ascending
  <2>3. i < j BY <2>1 DEF WaitsFor, ImportInv, Ascending
  <2>4. i \in Nat /\ j \in Nat BY DEF ImportInv, ImportTypeOK, Work
  <2> QED BY <2>2, <2>3, <2>4
<1> QED BY Inductive, <1>1, PTL
================================================================================
