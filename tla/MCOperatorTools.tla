--------------------------- MODULE MCOperatorTools ---------------------------
(***************************************************************************)
(* Small instances of the two tools that operators run by hand, for TLC:   *)
(* two operators switch lead automation on and off, or import copies of    *)
(* the legacy database.  The tools share no row, so a behaviour exercises  *)
(* the one that `focus' names.  The clock moves when the leads are in      *)
(* focus, and the tool then changes the settings at most once.             *)
(***************************************************************************)
EXTENDS LeadAutomation, StagingImport, TLC

VARIABLE focus \* the tool this behaviour exercises

-----------------------------------------------------------------------------
(* One backup directory, one industry template, and two leads under a      *)
(* short and a long rate limit rule.                                       *)

\* The short rule lets one request through in each window, so does the long one: a second
\* request may be stopped by either.
TwoRules == << <<1, 1>>, <<2, 1>> >>

\* The instance gives leads and batches, and operators and importers, the same names, to
\* be permuted together.
Alike == Permutations(Operators) \cup Permutations(Leads)

-----------------------------------------------------------------------------
(* A copy of the legacy database, an earlier one without services, and one *)
(* with error rows and an order.                                           *)

Backup(services, clients, orders, contracts, payments, faulty) ==
  [services |-> services, clients |-> clients, orders |-> orders, contracts |-> contracts,
   payments |-> payments, faulty |-> faulty]

ThreeCopies == {Backup({1, 2}, {1}, {}, {}, {}, FALSE),
                Backup({}, {1}, {}, {1}, {}, FALSE),
                Backup({}, {1}, {1}, {}, {}, TRUE)}

-----------------------------------------------------------------------------
ToolsInit ==
  /\ focus \in {"lead automation", "leads", "import"}
  /\ Init /\ ImportInit

ToolsNext ==
  /\ UNCHANGED focus
  /\ \/ focus = "lead automation" /\ Next /\ UNCHANGED <<clock, importVars>>
     \/ focus = "leads" /\ Next /\ commands' <= 1 /\ UNCHANGED importVars
     \/ focus = "import" /\ ImportNext /\ UNCHANGED vars

ToolsSpec == ToolsInit /\ [][ToolsNext]_<<focus, vars, importVars>>
=============================================================================
