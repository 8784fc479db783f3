----------------------------- MODULE StagingImport -----------------------------
(***************************************************************************)
(* The import of legacy consulting data into the staging database.  A dry  *)
(* run of a backup writes a report; an execution asks for some report      *)
(* without error rows and then copies one backup in a single transaction,  *)
(* table after table, rows in the order of their ids.  The rows of         *)
(* services, clients and orders are registered under their source          *)
(* reference, which is all that a later execution goes by; nothing but the *)
(* unique sku of a service stops two executions that run at once.          *)
(***************************************************************************)
EXTENDS Naturals, Sequences, FiniteSets

CONSTANTS Importers,
          Batches,      \* import_batch_id
          Copies,       \* copies of the legacy database, each as the ids of the rows in its tables
          MaxExecutions \* bound: executions ever begun

\* faulty: the dry run counts error rows (a client without a name, a payment of nothing).
BackupRows ==
  [services : SUBSET Nat, clients : SUBSET Nat, orders : SUBSET Nat, contracts : SUBSET Nat,
   payments : SUBSET Nat, faulty : BOOLEAN]

ASSUME ImportAssumption == Copies \subseteq BackupRows /\ MaxExecutions \in Nat

\* The tables in REQUIRED_IMPORT_SEQUENCE; order items leave only review flags.
Tables == <<"services", "clients", "orders", "contracts", "payments">>
TableNames == {Tables[i] : i \in 1 .. Len(Tables)}
Registered == {"services", "clients", "orders"}

VARIABLES reports,    \* backups of which a Gate B report has been written
          rows,       \* imported rows that are committed
          refs,       \* committed legacy_import_source_ref rows
          history,    \* executions begun; the index is the number of the execution
          rolledBack, \* batches of which the references have been deleted
          exec        \* what the execution of each operator is doing

importVars == <<reports, rows, refs, history, rolledBack, exec>>

Numbers == 1 .. Len(history)
RowSet == [table : TableNames, id : Nat, by : Nat]
RefSet == [table : TableNames, id : Nat, by : Nat, batch : Batches]

\* after: the executions that had been committed when this one began.
Executions == [batch : Batches, backup : Copies, after : SUBSET Nat, committed : BOOLEAN]

\* stage: index of the table, 0 when idle, one past the last before the commit.
\* absent: the reference of the next row has been looked up and is not there.
NotRunning == [stage |-> 0, by |-> 0, left |-> {}, absent |-> FALSE, rows |-> {}, refs |-> {}]
Finished == Len(Tables) + 1
Work == [stage : 0 .. Finished, by : Nat, left : SUBSET Nat, absent : BOOLEAN,
         rows : SUBSET RowSet, refs : SUBSET RefSet]

ImportTypeOK ==
  /\ reports \subseteq Copies
  /\ rows \subseteq RowSet /\ refs \subseteq RefSet
  /\ history \in Seq(Executions)
  /\ rolledBack \subseteq Batches
  /\ exec \in [Importers -> Work]
  /\ \A o \in Importers : exec[o].stage # 0 => exec[o].by \in Numbers

ImportInit ==
  /\ reports = {} /\ rows = {} /\ refs = {} /\ history = <<>> /\ rolledBack = {}
  /\ exec = [o \in Importers |-> NotRunning]

-----------------------------------------------------------------------------
(* The dry run and the gate.                                               *)

HasErrorRows(backup) == backup.faulty

GateBDryRun ==
  /\ \E backup \in Copies : reports' = reports \cup {backup}
  /\ UNCHANGED <<rows, refs, history, rolledBack, exec>>

\* The report need not be one of the backup that is imported.
GateBOpen == \E backup \in reports : ~HasErrorRows(backup)

Become(o, state) == exec' = [exec EXCEPT ![o] = state]
Committed == {n \in Numbers : history[n].committed}

BeginExecution(o) ==
  /\ exec[o].stage = 0
  /\ GateBOpen /\ Len(history) < MaxExecutions
  /\ \E batch \in Batches, backup \in Copies :
       /\ history' = Append(history, [batch |-> batch, backup |-> backup, after |-> Committed,
                                      committed |-> FALSE])
       /\ Become(o, [NotRunning EXCEPT !.stage = 1, !.by = Len(history) + 1, !.left = backup.services])
  /\ UNCHANGED <<reports, rows, refs, rolledBack>>

-----------------------------------------------------------------------------
(* The transaction of an execution.                                        *)

Table(o) == Tables[exec[o].stage]
BatchOf(o) == history[exec[o].by].batch
BackupOf(o) == history[exec[o].by].backup

\* Mutant: the source is read without an order.
NextRow_AnyOrder(o, id) == id \in exec[o].left

\* ... ORDER BY id
NextRow(o, id) == id \in exec[o].left /\ \A other \in exec[o].left : id <= other

Working(o, id) == exec[o].stage \in 1 .. Len(Tables) /\ NextRow(o, id)

\* Mutant: only the references of the batch itself are looked up.
RefsOf_Batch(o, table, id) ==
  {ref \in refs : ref.table = table /\ ref.id = id /\ ref.batch = BatchOf(o)}

\* _resolve_source_ref_action: every reference to the source row, whatever its batch.
RefsOf(o, table, id) == {ref \in refs : ref.table = table /\ ref.id = id}

LookUp(o) ==
  /\ \E id \in exec[o].left :
       /\ Working(o, id) /\ Table(o) \in Registered
       /\ ~exec[o].absent /\ RefsOf(o, Table(o), id) = {}
       /\ Become(o, [exec[o] EXCEPT !.absent = TRUE])
  /\ UNCHANGED <<reports, rows, refs, history, rolledBack>>

\* resolve_conflict_action: one reference, of this batch.
SkipExisting(o) ==
  /\ \E id \in exec[o].left :
       /\ Working(o, id) /\ Table(o) \in Registered /\ ~exec[o].absent
       /\ \E ref \in refs : RefsOf(o, Table(o), id) = {ref} /\ ref.batch = BatchOf(o)
       /\ Become(o, [exec[o] EXCEPT !.left = @ \ {id}])
  /\ UNCHANGED <<reports, rows, refs, history, rolledBack>>

\* ... two references, or one of another batch: the transaction is rolled back.
Blocked(o) ==
  /\ \E id \in exec[o].left :
       /\ Working(o, id) /\ Table(o) \in Registered /\ ~exec[o].absent
       /\ \E ref \in RefsOf(o, Table(o), id) :
            RefsOf(o, Table(o), id) # {ref} \/ ref.batch # BatchOf(o)
  /\ Become(o, NotRunning)
  /\ UNCHANGED <<reports, rows, refs, history, rolledBack>>

\* The unique index on the sku: an uncommitted insert is waited for.
WaitsFor(o, other, id) ==
  /\ other # o /\ Table(o) = "services"
  /\ \E row \in exec[other].rows : row.table = "services" /\ row.id = id

\* The unique sku; a pipeline_id that is the id of a branch; a payment without a date.
Violates(table, id) ==
  \/ table = "services" /\ \E row \in rows : row.table = "services" /\ row.id = id
  \/ table \in {"orders", "payments"}

Inserting(o, id) ==
  /\ Working(o, id)
  /\ Table(o) \in Registered => exec[o].absent
  /\ \A other \in Importers : ~WaitsFor(o, other, id)

\* The row is added and, in the tables that have one, its reference registered.
InsertRow(o) ==
  /\ \E id \in exec[o].left :
       LET row == [table |-> Table(o), id |-> id, by |-> exec[o].by]
           ref == [table |-> Table(o), id |-> id, by |-> exec[o].by, batch |-> BatchOf(o)]
       IN /\ Inserting(o, id) /\ ~Violates(Table(o), id)
          /\ Become(o, [exec[o] EXCEPT !.absent = FALSE, !.left = @ \ {id},
                                       !.rows = @ \cup {row},
                                       !.refs = IF Table(o) \in Registered
                                                THEN @ \cup {ref} ELSE @])
  /\ UNCHANGED <<reports, rows, refs, history, rolledBack>>

InsertRefused(o) ==
  /\ \E id \in exec[o].left : Inserting(o, id) /\ Violates(Table(o), id)
  /\ Become(o, NotRunning)
  /\ UNCHANGED <<reports, rows, refs, history, rolledBack>>

NextTable(o) ==
  /\ exec[o].stage \in 1 .. Len(Tables) /\ exec[o].left = {}
  /\ Become(o, [exec[o] EXCEPT !.stage = @ + 1,
                               !.left = IF exec[o].stage = Len(Tables) THEN {}
                                        ELSE BackupOf(o)[Tables[exec[o].stage + 1]]])
  /\ UNCHANGED <<reports, rows, refs, history, rolledBack>>

Commit(o) ==
  /\ exec[o].stage = Finished
  /\ rows' = rows \cup exec[o].rows
  /\ refs' = refs \cup exec[o].refs
  /\ history' = [history EXCEPT ![exec[o].by].committed = TRUE]
  /\ Become(o, NotRunning)
  /\ UNCHANGED <<reports, rolledBack>>

\* Mutant: every row is committed by itself.
Die_KeepsRows(o) ==
  /\ exec[o].stage > 0
  /\ rows' = rows \cup exec[o].rows
  /\ refs' = refs \cup exec[o].refs
  /\ Become(o, NotRunning)
  /\ UNCHANGED <<reports, history, rolledBack>>

\* The process or its connection dies before the commit.
Die(o) ==
  /\ exec[o].stage > 0
  /\ Become(o, NotRunning)
  /\ UNCHANGED <<reports, rows, refs, history, rolledBack>>

\* rollback_batch deletes the references of the batch and none of its rows.
RollbackBatch ==
  /\ \E batch \in Batches :
       /\ refs' = {ref \in refs : ref.batch # batch}
       /\ rolledBack' = rolledBack \cup {batch}
  /\ UNCHANGED <<reports, rows, history, exec>>

Step(o) ==
  \/ LookUp(o) \/ SkipExisting(o) \/ Blocked(o) \/ InsertRow(o) \/ InsertRefused(o)
  \/ NextTable(o) \/ Commit(o)

ImportNext ==
  \/ GateBDryRun \/ RollbackBatch
  \/ \E o \in Importers : BeginExecution(o) \/ Step(o) \/ Die(o)

ImportSpec == ImportInit /\ [][ImportNext]_importVars

-----------------------------------------------------------------------------
(* Correctness.                                                            *)

RefTo(row) == [table |-> row.table, id |-> row.id, by |-> row.by, batch |-> history[row.by].batch]

RefsNameRows == \A ref \in refs : [table |-> ref.table, id |-> ref.id, by |-> ref.by] \in rows

RowsAreRegistered ==
  \A row \in rows : row.table \in Registered =>
    RefTo(row) \in refs \/ history[row.by].batch \in rolledBack

BatchesWhole ==
  /\ \A row \in rows : row.by \in Committed
  /\ \A n \in Committed, table \in TableNames : \A id \in history[n].backup[table] :
       \E row \in rows : row.table = table /\ row.id = id

\* What the registry says is there is there, what was imported is registered unless its
\* batch was rolled back, and an execution has imported its whole backup or nothing.
RegistryAccurate == RefsNameRows /\ RowsAreRegistered /\ BatchesWhole

\* "Rerun behavior must prevent duplicate creation": an execution copies a service or a
\* client that an execution before it had copied only if that one was rolled back; a
\* service is never copied twice at all.
RerunNeverDuplicates ==
  \A row, again \in rows :
    /\ row.table \in Registered /\ again.table = row.table /\ again.id = row.id
    /\ again.by # row.by
    => /\ row.table # "services"
       /\ row.by \in history[again.by].after => RefTo(row) \notin refs

\* Two executions never wait for each other's services.
NoCrossedWait ==
  \A o, p \in Importers :
    ~ \E i \in exec[o].left, j \in exec[p].left :
        /\ Working(o, i) /\ exec[o].absent /\ WaitsFor(o, p, i)
        /\ Working(p, j) /\ exec[p].absent /\ WaitsFor(p, o, j)
=============================================================================
