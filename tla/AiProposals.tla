------------------------------ MODULE AiProposals ------------------------------
(***************************************************************************)
(* What an AI agent proposes and what people decide about it: tasks that   *)
(* end in a proposal, approvals, rejections and executions, while the      *)
(* agent is reconfigured and the clock runs.                               *)
(*                                                                         *)
(* Requests read the proposal and the agent without a lock, decide, and    *)
(* commit later.                                                           *)
(***************************************************************************)
EXTENDS Naturals

CONSTANTS Users,     \* requests that may be under way at the same time
          Proposals, \* ids of proposals
          MaxCalls   \* bound: requests in a behaviour

VARIABLES agent,      \* the agent: active, requires_approval_for_critical
          proposals,  \* rows of ai_action_proposals
          approvals,  \* ai_approvals of each proposal: a decision per request
          tasks,      \* completed tasks: the proposals their mock runs created
          call,       \* what each request has read and is about to write
          overtaken,  \* proposals on which two requests have overtaken each other
          calls       \* requests begun

vars == <<agent, proposals, approvals, tasks, call, overtaken, calls>>

\* "expired" and "cancelled" are never stored: the first is rolled back with the refusal
\* that sets it, the second is set nowhere.
Statuses == {"pending", "approved", "rejected", "executed"}
Absent == [status |-> "absent"]
\* late: expires_at has passed.  executed: executed_at is set; strict: the agent asked
\* for approval when the execution read it (not in the code).
Rows == [status : Statuses, is_critical : BOOLEAN, late : BOOLEAN,
         executed : BOOLEAN, strict : BOOLEAN]
Decisions == [nr : 1..MaxCalls, decision : {"approved", "rejected"}]

Idle == [pc |-> "idle"]
Calls == {Idle} \cup
  [pc : {"decided"}, nr : 1..MaxCalls, on : Proposals, seen : Statuses \cup {"absent"}, row : Rows,
   decision : SUBSET Decisions, task : BOOLEAN, fresh : BOOLEAN]

TypeOK ==
  /\ agent \in [active : BOOLEAN, strict : BOOLEAN]
  /\ proposals \in [Proposals -> Rows \cup {Absent}]
  /\ approvals \in [Proposals -> SUBSET Decisions]
  /\ tasks \subseteq Proposals
  /\ call \in [Users -> Calls]
  /\ overtaken \subseteq Proposals
  /\ calls \in 0..MaxCalls

\* import_agents_from_config: an active agent whose critical actions need approval.
Init ==
  /\ agent = [active |-> TRUE, strict |-> TRUE]
  /\ proposals = [p \in Proposals |-> Absent]
  /\ approvals = [p \in Proposals |-> {}]
  /\ tasks = {}
  /\ call = [u \in Users |-> Idle]
  /\ overtaken = {}
  /\ calls = 0

Exists(p) == proposals[p] # Absent
Unused(p) == ~Exists(p) /\ \A u \in Users : call[u] # Idle => call[u].on # p

\* is_critical_action: every action type but "other".
NewRow(critical) ==
  [status |-> "pending", is_critical |-> critical, late |-> FALSE, executed |-> FALSE,
   strict |-> FALSE]

-----------------------------------------------------------------------------
Decide(u, p, row, decision, task) ==
  /\ call[u] = Idle
  /\ calls < MaxCalls
  /\ calls' = calls + 1
  /\ call' = [call EXCEPT ![u] =
       [pc |-> "decided", nr |-> calls', on |-> p, seen |-> proposals[p].status, row |-> row,
        decision |-> decision, task |-> task, fresh |-> TRUE]]
  /\ UNCHANGED <<agent, proposals, approvals, tasks, overtaken>>

\* PATCH of the agent.
UpdateAgent ==
  /\ calls < MaxCalls
  /\ agent' \in [active : BOOLEAN, strict : BOOLEAN]
  /\ agent' # agent
  /\ calls' = calls + 1
  /\ UNCHANGED <<proposals, approvals, tasks, call, overtaken>>

\* An inactive agent's proposals are accepted too.
CreateProposal(u) ==
  \E p \in Proposals, critical \in BOOLEAN :
    Unused(p) /\ Decide(u, p, NewRow(critical), {}, FALSE)

\* create_task with run_mock: every action a mock run proposes is critical.
CreateTask(u) ==
  \E p \in Proposals : agent.active /\ Unused(p) /\ Decide(u, p, NewRow(TRUE), {}, TRUE)

\* _ensure_pending: a late proposal is refused and, rolled back, stays pending.
Pending(p) == Exists(p) /\ proposals[p].status = "pending" /\ ~proposals[p].late

ApproveProposal(u) ==
  \E p \in Proposals :
    /\ Pending(p)
    /\ Decide(u, p, [proposals[p] EXCEPT !.status = "approved"],
              {[nr |-> calls + 1, decision |-> "approved"]}, FALSE)

RejectProposal(u) ==
  \E p \in Proposals :
    /\ Pending(p)
    /\ Decide(u, p, [proposals[p] EXCEPT !.status = "rejected"],
              {[nr |-> calls + 1, decision |-> "rejected"]}, FALSE)

Executes(u, p) ==
  Decide(u, p, [proposals[p] EXCEPT !.status = "executed", !.executed = TRUE,
                                    !.strict = agent.strict], {}, FALSE)

\* Mutant: of the final statuses only "executed" is refused.
ExecuteProposal_Rejected(u) ==
  \E p \in Proposals :
    /\ Exists(p)
    /\ proposals[p].status # "executed"
    /\ proposals[p].is_critical /\ agent.strict => proposals[p].status # "pending"
    /\ Executes(u, p)

\* Neither expires_at nor the agent's activity matters here.
ExecuteProposal(u) ==
  \E p \in Proposals :
    /\ Exists(p)
    /\ proposals[p].status \notin {"executed", "rejected"}
    /\ proposals[p].is_critical /\ agent.strict => proposals[p].status = "approved"
    /\ Executes(u, p)

-----------------------------------------------------------------------------
\* Columns the request changed; the decision and the task are rows of their own.
Commit(u) ==
  /\ call[u] # Idle
  /\ LET r == call[u]
         now == IF Exists(r.on) THEN proposals[r.on] ELSE r.row
     IN /\ proposals' = [proposals EXCEPT ![r.on] =
             IF r.row.status = "executed"
               THEN [now EXCEPT !.status = r.row.status, !.executed = TRUE, !.strict = r.row.strict]
               ELSE [now EXCEPT !.status = r.row.status]]
        /\ approvals' = [approvals EXCEPT ![r.on] = @ \cup r.decision]
        /\ tasks' = IF r.task THEN tasks \cup {r.on} ELSE tasks
        /\ overtaken' = IF r.fresh THEN overtaken ELSE overtaken \cup {r.on}
        /\ call' = [t \in Users |->
                     IF t = u THEN Idle
                     ELSE IF call[t] # Idle /\ call[t].on = r.on
                            THEN [call[t] EXCEPT !.fresh = FALSE] ELSE call[t]]
  /\ UNCHANGED <<agent, calls>>

\* The usage event, the audit record or the commit fails.
Rollback(u) ==
  /\ call[u] # Idle
  /\ call' = [call EXCEPT ![u] = Idle]
  /\ UNCHANGED <<agent, proposals, approvals, tasks, overtaken, calls>>

\* Seven days are over.
PassDeadline ==
  \E p \in Proposals :
    /\ Exists(p) /\ ~proposals[p].late
    /\ proposals' = [proposals EXCEPT ![p].late = TRUE]
    /\ UNCHANGED <<agent, approvals, tasks, call, overtaken, calls>>

Ask(u) ==
  \/ CreateProposal(u) \/ CreateTask(u) \/ ApproveProposal(u) \/ RejectProposal(u)
  \/ ExecuteProposal(u)

Next == UpdateAgent \/ PassDeadline \/ \E u \in Users : Ask(u) \/ Commit(u) \/ Rollback(u)

Spec == Init /\ [][Next]_vars

-----------------------------------------------------------------------------
(* Correctness.                                                            *)

Verdicts(p) == {d.decision : d \in approvals[p]}

\* Nothing critical is executed without a human's approval while the agent requires one,
\* even when approvals, rejections, executions and reconfigurations overtake each other.
\* Where they do not, a proposal is decided once, the decision is the one it shows, and
\* nothing rejected is executed.
DecisionsHonoured ==
  \A p \in Proposals : Exists(p) =>
    /\ proposals[p].executed /\ proposals[p].is_critical /\ proposals[p].strict =>
         "approved" \in Verdicts(p)
    /\ p \notin overtaken =>
         /\ \A d, e \in approvals[p] : d = e
         /\ proposals[p].status = "pending" => approvals[p] = {}
         /\ "rejected" \in Verdicts(p) <=> proposals[p].status = "rejected"
         /\ proposals[p].status = "approved" => "approved" \in Verdicts(p)
=============================================================================
