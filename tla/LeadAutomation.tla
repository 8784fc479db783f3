----------------------------- MODULE LeadAutomation -----------------------------
(***************************************************************************)
(* The one-shot operations tool that switches lead automation on and off   *)
(* for a tenant, the other writer of the same settings document (applying  *)
(* an industry template), and the public lead requests that read the       *)
(* settings while they create a party, a work item, a process run and its  *)
(* first-contact task.  The tool keeps its backups in files, outside the   *)
(* database transaction: it may be killed between the two, and the answer  *)
(* to its commit may be lost.                                              *)
(***************************************************************************)
EXTENDS Integers, Sequences, FiniteSets

CONSTANTS Operators,   \* running instances of the tool
          Users,       \* users that an operator may name as the assignee
          Docs,        \* what an industry template writes, the automation block aside
          Dirs,        \* backup directories
          Leads,       \* public lead requests, all of one client and one contact
          Rules,       \* rate limit rules in the order they are tried: <<window, maximum>>
          MaxCommands, \* bound: applies and rollbacks that are begun
          MaxClock     \* bound: the clock

None == "none"
Off == "off"            \* a block that is there and disabled

\* Rules have different windows: the limiter keys its buckets by them.
ASSUME LeadAssumption ==
  /\ Rules \in Seq((Nat \ {0}) \X (Nat \ {0}))
  /\ \A q, r \in DOMAIN Rules : q # r => Rules[q][1] # Rules[r][1]
  /\ MaxCommands \in Nat /\ MaxClock \in Nat
  /\ {None, Off} \cap Users = {} /\ None \notin Operators

VARIABLES config,    \* industry_config_json: what templates write, and the automation block
          overlay,   \* activation state of the configuration of the pipeline
          holder,    \* operator whose transaction holds the settings row
          op,        \* command of each operator
          backups,   \* the files in each backup directory
          template,  \* the request that applies an industry template
          members,   \* active users of the tenant
          lead,      \* lead requests and the rows they have committed
          parties,   \* the leads that have created a party of the contact
          buckets,   \* the limiter's hits, by rule
          clock,
          commands,  \* number of commands begun
          applied,   \* history: the applies that reported success
          accepted   \* history: the hits of the requests let through

ops == <<op, holder, backups, commands, applied>>
settings == <<config, overlay, template, members>>
intake == <<lead, parties, buckets, clock, accepted>>
vars == <<config, overlay, holder, op, backups, template, members, lead, parties, buckets, clock,
          commands, applied, accepted>>

\* A block is absent, disabled, or enabled with its assignee.  Hashes are compared as values.
Blank == "blank"        \* the document of a tenant that no template was applied to
Configs == [doc : Docs \cup {Blank}, block : Users \cup {None, Off}]
Empty == [doc |-> Blank, block |-> None]
NoHash == [doc |-> None, block |-> None]   \* --expected-config-hash was not passed

Enabled(c) == c.block \notin {None, Off}

NoBackup == [manifest |-> "absent"]
Backups ==
  {NoBackup}
  \cup [manifest : {"unwritten", "open", "torn"}, config : Configs]
  \cup [manifest : {"final"}, config : Configs, after : Configs]

Idle == [pc |-> "idle"]
Commands ==
  {Idle}
  \cup [pc : {"noted"}, expected : Configs]
  \cup [pc : {"checked"}, expected : Configs, assignee : Users]
  \cup [pc : {"backed_up", "finalized"}, expected : Configs, dir : Dirs, assignee : Users]
  \cup [pc : {"loaded"}, expected : Configs \cup {NoHash}, backup : Backups]

\* History: `unseen', the parties that other leads have committed since this one looked.
LeadStates ==
  [pc : {"idle", "limited", "accepted", "refused"}]
  \cup [pc : {"stamped"}, now : 0 .. MaxClock]
  \cup [pc : {"matched"}, reused : BOOLEAN, unseen : SUBSET Leads]
  \cup [pc : {"started"}, reused : BOOLEAN, unseen : SUBSET Leads, run : BOOLEAN]
  \cup [pc : {"created"}, reused : BOOLEAN, unseen : SUBSET Leads, run : BOOLEAN,
         task : Users \cup {None}]

\* A hit is a request with its stamp: stamps of two requests may be equal.
Hits == Leads \X (0 .. MaxClock)

(***************************************************************************)
(* Type correctness of the settings, the commands of the tool, its files   *)
(* and the lead requests (TenantSettings, the backup directory, Task).     *)
(***************************************************************************)
TypeOK ==
  /\ config \in Configs
  /\ overlay \in {"missing", "inactive", "active"}
  /\ holder \in Operators \cup {None}
  /\ op \in [Operators -> Commands]
  /\ backups \in [Dirs -> Backups]
  /\ template \in {Idle} \cup [pc : {"applying"}, doc : Docs, was : Configs]
  /\ members \subseteq Users
  /\ lead \in [Leads -> LeadStates]
  /\ parties \subseteq Leads
  /\ buckets \in [DOMAIN Rules -> SUBSET Hits]
  /\ clock \in 0 .. MaxClock
  /\ commands \in 0 .. MaxCommands
  /\ applied \subseteq [dir : Dirs, before : Configs, after : Configs]
  /\ accepted \subseteq Hits

Init ==
  /\ config = Empty
  /\ overlay = "missing"
  /\ holder = None
  /\ op = [o \in Operators |-> Idle]
  /\ backups = [d \in Dirs |-> NoBackup]
  /\ template = Idle
  /\ members = Users
  /\ lead = [l \in Leads |-> Idle]
  /\ parties = {}
  /\ buckets = [r \in DOMAIN Rules |-> {}]
  /\ clock = 0
  /\ commands = 0
  /\ applied = {} /\ accepted = {}

(***************************************************************************)
(* The operations tool.                                                    *)
(***************************************************************************)
Becomes(o, c) == op' = [op EXCEPT ![o] = c]

\* A command that its environment and its confirmation phrase allow.
Begin == commands < MaxCommands /\ commands' = commands + 1

\* run_dry_run reads without a lock; its operator keeps the hash it prints.
DryRun(o) ==
  /\ op[o] = Idle
  /\ Becomes(o, [pc |-> "noted", expected |-> config])
  /\ UNCHANGED <<holder, backups, commands, applied, settings, intake>>

\* resolve_context up to the backup: the assignee is checked, then the settings row is
\* locked, then compared with the hash the operator passes.
CheckAssignee(o, u) ==
  /\ op[o].pc = "noted" /\ u \in members
  /\ Becomes(o, [pc |-> "checked", expected |-> op[o].expected, assignee |-> u])
  /\ UNCHANGED <<holder, backups, commands, applied, settings, intake>>

Resolved(o) == op[o].pc = "checked" /\ holder = None /\ config = op[o].expected
BackedUp(o, d) ==
  Becomes(o, [pc |-> "backed_up", expected |-> op[o].expected, dir |-> d,
              assignee |-> op[o].assignee])

\* The tool is killed, or fails, while write_backup creates the two files.
BackupTrace(c) == {NoBackup, [manifest |-> "unwritten", config |-> c]}

BeginApply_Unlocked(o, d) ==
  /\ Resolved(o)
  /\ Begin
  /\ backups[d] = NoBackup
  /\ backups' = [backups EXCEPT ![d] = [manifest |-> "open", config |-> config]]
  /\ BackedUp(o, d)
  /\ UNCHANGED <<holder, applied, settings, intake>>
BeginApply(o, d) ==
  /\ Resolved(o)
  /\ Begin
  /\ backups[d] = NoBackup
  /\ \/ /\ backups' = [backups EXCEPT ![d] = [manifest |-> "open", config |-> config]]
        /\ holder' = o
        /\ BackedUp(o, d)
     \/ /\ \E b \in BackupTrace(config) : backups' = [backups EXCEPT ![d] = b]
        /\ Becomes(o, Idle)
        /\ UNCHANGED holder
  /\ UNCHANGED <<applied, settings, intake>>

\* _secure_write_new_file refuses to write over a file.  That is before the try, so the
\* directory, which another apply has filled, stays as it is.
ApplyRefused_Cleans(o, d) ==
  /\ Resolved(o) /\ backups[d] # NoBackup
  /\ Becomes(o, Idle)
  /\ backups' = [backups EXCEPT ![d] = NoBackup]
  /\ UNCHANGED <<holder, commands, applied, settings, intake>>
ApplyRefused(o, d) ==
  /\ Resolved(o) /\ backups[d] # NoBackup
  /\ Becomes(o, Idle)
  /\ UNCHANGED <<holder, backups, commands, applied, settings, intake>>

\* The hash has changed since the dry run: the operator starts again.
Mismatch(o) ==
  /\ op[o].pc = "checked" /\ holder = None /\ config # op[o].expected
  /\ Becomes(o, Idle)
  /\ UNCHANGED <<holder, backups, commands, applied, settings, intake>>

\* merge_lead_automation_config: everything outside the block is kept.
Merged(c, block) == [doc |-> c.doc, block |-> block]

\* The overlay and the settings are written in the transaction; the manifest is finalized
\* before the transaction commits.
Finalize(o) ==
  /\ op[o].pc = "backed_up"
  /\ backups' = [backups EXCEPT ![op[o].dir] =
                   [manifest |-> "final", config |-> op[o].expected,
                    after |-> Merged(op[o].expected, op[o].assignee)]]
  /\ Becomes(o, [op[o] EXCEPT !.pc = "finalized"])
  /\ UNCHANGED <<holder, commands, applied, settings, intake>>

Release(o) == holder' = IF holder = o THEN None ELSE holder

\* execute_overlay leaves the configuration of the pipeline active; run_rollback deactivates
\* it if there is one.
Activate == overlay' = "active"
Deactivated == IF overlay = "missing" THEN "missing" ELSE "inactive"

\* The commit reaches the database.  If its answer is lost, the tool takes it for a failure
\* and removes the backup.
CommitApply(o) ==
  /\ op[o].pc = "finalized"
  /\ config' = Merged(op[o].expected, op[o].assignee)
  /\ Activate
  /\ \/ /\ applied' = applied \cup {[dir |-> op[o].dir, before |-> op[o].expected,
                                     after |-> config']}
        /\ UNCHANGED backups
     \/ /\ backups' = [backups EXCEPT ![op[o].dir] = NoBackup]
        /\ UNCHANGED applied
  /\ Becomes(o, Idle) /\ Release(o)
  /\ UNCHANGED <<commands, template, members, intake>>

\* Any exception of the try block: the transaction is rolled back, the backup removed with
\* all that is in its directory, in which no other one lies.
FailApply(o) ==
  /\ op[o].pc \in {"backed_up", "finalized"}
  /\ backups' = [backups EXCEPT ![op[o].dir] = NoBackup]
  /\ Becomes(o, Idle) /\ Release(o)
  /\ UNCHANGED <<commands, applied, settings, intake>>

\* The tool is killed: the transaction is rolled back, the files stay, and a manifest that
\* was being overwritten (O_TRUNC) may be left unreadable.
Crash(o) ==
  /\ op[o].pc \in {"backed_up", "finalized"}
  /\ \/ UNCHANGED backups
     \/ /\ op[o].pc = "backed_up"
        /\ backups' = [backups EXCEPT ![op[o].dir].manifest = "torn"]
  /\ Becomes(o, Idle) /\ Release(o)
  /\ UNCHANGED <<commands, applied, settings, intake>>

\* load_backup_manifest: before the settings row is locked.
LoadBackup(o, d) ==
  /\ op[o].pc \in {"idle", "noted"}
  /\ Begin
  /\ backups[d].manifest \in {"open", "final"}
  /\ Becomes(o, [pc |-> "loaded", backup |-> backups[d],
                 expected |-> IF op[o].pc = "noted" THEN op[o].expected ELSE NoHash])
  /\ UNCHANGED <<holder, backups, applied, settings, intake>>

\* assert_rollback_config_hash_gate.
GateOpen(c) ==
  IF c.expected # NoHash
    THEN config = c.expected
    ELSE c.backup.manifest = "final" /\ config = c.backup.after

\* An empty backup restores nothing: the block of the current settings is disabled.
Restored(c) == IF c.backup.config # Empty THEN c.backup.config ELSE Merged(config, Off)

RunRollback(o) ==
  /\ op[o].pc = "loaded" /\ holder = None
  /\ IF GateOpen(op[o])
       THEN /\ config' = Restored(op[o])
            /\ overlay' = Deactivated
       ELSE UNCHANGED <<config, overlay>>
  /\ Becomes(o, Idle)
  /\ UNCHANGED <<holder, backups, commands, applied, template, members, intake>>

(***************************************************************************)
(* apply_to_tenant of industry templates replaces the document.  The row   *)
(* is read first and written only if the new value differs from what was   *)
(* read; the write waits for the row.                                      *)
(***************************************************************************)
TemplateConfig(d) == [doc |-> d, block |-> None]

ReadTemplate(d) ==
  /\ template = Idle
  /\ template' = [pc |-> "applying", doc |-> d, was |-> config]
  /\ UNCHANGED <<ops, config, overlay, members, intake>>

WriteTemplate ==
  /\ template.pc = "applying"
  /\ IF TemplateConfig(template.doc) # template.was
       THEN holder = None /\ config' = TemplateConfig(template.doc)
       ELSE UNCHANGED config
  /\ template' = Idle
  /\ UNCHANGED <<ops, overlay, members, intake>>

\* The tenant takes a user away.
Deactivate(u) ==
  /\ u \in members
  /\ members' = members \ {u}
  /\ UNCHANGED <<ops, config, overlay, template, intake>>

(***************************************************************************)
(* Public leads.                                                           *)
(***************************************************************************)
Tick ==
  /\ clock < MaxClock
  /\ clock' = clock + 1
  /\ UNCHANGED <<ops, settings, lead, parties, buckets, accepted>>

\* check_and_increment reads the clock, and then waits for its lock.
Arrive(l) ==
  /\ lead[l].pc = "idle"
  /\ lead' = [lead EXCEPT ![l] = [pc |-> "stamped", now |-> clock]]
  /\ UNCHANGED <<ops, settings, parties, buckets, clock, accepted>>

\* Hits of a rule's bucket that are inside its window for a request with this stamp.
Recent(r, now) == {h \in buckets[r] : now - h[2] < Rules[r][1]}
Stops(r, now) == Cardinality(Recent(r, now)) >= Rules[r][2]
Passed(r, now) == \A q \in 1 .. r : ~Stops(q, now)

\* Under the lock: the rules before the one that refuses have counted the request already.
Counted_FirstRule(l, now) ==
  [r \in DOMAIN Rules |->
    IF r = 1 /\ Passed(r, now) THEN Recent(r, now) \cup {<<l, now>>} ELSE buckets[r]]
Counted(l, now) ==
  [r \in DOMAIN Rules |->
    IF Passed(r, now) THEN Recent(r, now) \cup {<<l, now>>} ELSE buckets[r]]

Count(l) ==
  /\ lead[l].pc = "stamped"
  /\ buckets' = Counted(l, lead[l].now)
  /\ IF Passed(Len(Rules), lead[l].now)
       THEN /\ lead' = [lead EXCEPT ![l] = [pc |-> "accepted"]]
            /\ accepted' = accepted \cup {<<l, lead[l].now>>}
       ELSE /\ lead' = [lead EXCEPT ![l] = [pc |-> "limited"]]
            /\ UNCHANGED accepted
  /\ UNCHANGED <<ops, settings, parties, clock>>

\* _resolve_party_match reads committed parties without a lock.
Match(l) ==
  /\ lead[l].pc = "accepted"
  /\ lead' = [lead EXCEPT ![l] = [pc |-> "matched", reused |-> parties # {},
                                  unseen |-> {}]]
  /\ UNCHANGED <<ops, settings, parties, buckets, clock, accepted>>

\* _maybe_auto_start_process_run: a run starts if the overlay is active.
StartRun(l) ==
  /\ lead[l].pc = "matched"
  /\ lead' = [lead EXCEPT ![l] = [pc |-> "started", reused |-> lead[l].reused,
                                  unseen |-> lead[l].unseen, run |-> overlay = "active"]]
  /\ UNCHANGED <<ops, settings, parties, buckets, clock, accepted>>

\* _create_party, unless a party was found.
NewParty_Always(l) == {l}
NewParty(l) == IF lead[l].reused THEN {} ELSE {l}

\* _create_work_item has started the run; with the automation enabled the run gets a task.
\* The lead is committed with all its rows.
Looking(l) == lead[l].pc \in {"matched", "started"}
Created(l, task) ==
  /\ parties' = parties \cup NewParty(l)
  /\ lead' = [m \in Leads |->
       IF m = l THEN [pc |-> "created", reused |-> lead[l].reused, unseen |-> lead[l].unseen,
                      run |-> lead[l].run, task |-> task]
       ELSE IF Looking(m) THEN [lead[m] EXCEPT !.unseen = @ \cup NewParty(l)]
       ELSE lead[m]]

\* maybe_create_process_run_first_contact_task, then the commit of the whole lead; an
\* assignee who is gone fails the request and nothing is kept.
Wanted(l) == lead[l].run /\ Enabled(config)
FinishLead(l) ==
  /\ lead[l].pc = "started"
  /\ \/ ~Wanted(l) /\ Created(l, None)
     \/ Wanted(l) /\ config.block \in members /\ Created(l, config.block)
     \/ /\ Wanted(l) /\ config.block \notin members
        /\ lead' = [lead EXCEPT ![l] = [pc |-> "refused"]]
        /\ UNCHANGED parties
  /\ UNCHANGED <<ops, settings, buckets, clock, accepted>>

OperatorStep(o) ==
  \/ DryRun(o) \/ Mismatch(o) \/ Finalize(o) \/ CommitApply(o) \/ FailApply(o) \/ Crash(o)
  \/ RunRollback(o)
  \/ \E u \in Users : CheckAssignee(o, u)
  \/ \E d \in Dirs : BeginApply(o, d) \/ ApplyRefused(o, d) \/ LoadBackup(o, d)
LeadStep(l) == Arrive(l) \/ Count(l) \/ Match(l) \/ StartRun(l) \/ FinishLead(l)

Next ==
  \/ \E o \in Operators : OperatorStep(o)
  \/ \E d \in Docs : ReadTemplate(d)
  \/ WriteTemplate
  \/ \E u \in Users : Deactivate(u)
  \/ Tick
  \/ \E l \in Leads : LeadStep(l)

Spec == Init /\ [][Next]_vars

(***************************************************************************)
(* The tool never drops what somebody else wrote into the settings: when   *)
(* an apply or a rollback changes the document outside the automation      *)
(* block, the document it replaces is the very one whose hash its operator *)
(* had passed (resolve_context, assert_rollback_config_hash_gate, under    *)
(* the row lock).                                                          *)
(***************************************************************************)
ForeignChangesSurvive ==
  [][\A o \in Operators :
       op'[o] # op[o] /\ config'.doc # config.doc => op[o].expected = config]_vars

(***************************************************************************)
(* An apply that reported success can be undone: its directory still holds *)
(* the settings it found and a manifest that names the settings it left,   *)
(* whatever later commands that name the same directory, fail, or are      *)
(* killed have done, as long as no directory of theirs lies in another one *)
(* (write_backup, finalize_backup_manifest, _remove_backup_tree).          *)
(***************************************************************************)
AppliedHasBackup ==
  \A a \in applied :
    backups[a.dir] = [manifest |-> "final", config |-> a.before, after |-> a.after]

(***************************************************************************)
(* At no moment does the window of a rule that ends then hold more         *)
(* accepted lead requests of a client than the rule allows, although the   *)
(* stamp of a request is older than its turn with the lock, and although   *)
(* requests that a later rule refuses stay counted by the earlier ones     *)
(* (check_and_increment).                                                  *)
(***************************************************************************)
WindowsRespected ==
  \A r \in DOMAIN Rules :
    Cardinality({h \in accepted : clock - h[2] < Rules[r][1]}) <= Rules[r][2]

(***************************************************************************)
(* A contact gets a second party only from a lead that was being handled   *)
(* while the first was committed: of two parties, one came after the other *)
(* lead had looked for the contact and before that lead was committed.     *)
(* Leads that do not overlap never make duplicates, however they are       *)
(* refused, reused or delayed (create_lead, _resolve_party_match).         *)
(***************************************************************************)
DuplicatesOverlap ==
  \A l, m \in parties : l # m => l \in lead[m].unseen \/ m \in lead[l].unseen
=============================================================================
