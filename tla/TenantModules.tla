----------------------------- MODULE TenantModules -----------------------------
(***************************************************************************)
(* The modules of one tenant: enabling and disabling with dependencies,    *)
(* module modes, subscription plans, and the integration connections that  *)
(* an external mode relies on.                                             *)
(*                                                                         *)
(* A request reads and decides in one action; its commit writes the        *)
(* columns its session sees as changed since they were read.  Nothing is   *)
(* locked in between, but for the subscription row once it is written.     *)
(***************************************************************************)
EXTENDS Naturals, Sequences, SequencesExt

CONSTANTS Staff,        \* requests that may be under way at the same time
          Codes,        \* module codes
          Required,     \* Required[c]: dependencies_json["required"] of c
          Priority,     \* the order _sort_module_codes puts known modules in
          Plans,        \* default_modules_json of each plan, as sequences
          Providers,    \* active integration providers
          Supports,     \* Supports[v]: supported_modules_json of v
          NoProvider,
          MaxCalls      \* bound: requests in a behaviour

VARIABLES mods,   \* tenant_modules: a row per module
          conns,  \* integration_connections: status per provider and module
          refs,   \* providers whose mock sync has left external references
          sub,    \* the plan of the subscription row, <<>> before the first
          call,   \* what each request has read and is about to write
          calls   \* requests begun

vars == <<mods, conns, refs, sub, call, calls>>

Statuses == {"enabled", "disabled", "trial", "suspended"}
Modes == {"internal", "external", "hybrid", "disabled"}
ConnStatuses == {"no_row", "pending", "active", "error", "disconnected"}
Rows == [status : Statuses, mode : Modes, provider : Providers \cup {NoProvider}]
Pairs == {x \in Providers \X Codes : x[2] \in Supports[x[1]]}

Idle == [pc |-> "idle"]
Calls ==
  {Idle}
  \cup [pc : {"sorting"}, plan : Plans, held : BOOLEAN]
  \cup [pc : {"decided"}, seen : [Codes -> Rows], want : [Codes -> Rows],
        connSeen : [Pairs -> ConnStatuses], connWant : [Pairs -> ConnStatuses],
        refers : SUBSET Providers, refsSeen : SUBSET Providers, held : BOOLEAN, plan : Plans \cup {<<>>},
        reads : SUBSET Codes, connReads : SUBSET Pairs, guarded : BOOLEAN, fresh : BOOLEAN]

TypeOK ==
  /\ mods \in [Codes -> Rows]
  /\ conns \in [Pairs -> ConnStatuses]
  /\ refs \subseteq Providers
  /\ sub \in Plans \cup {<<>>}
  /\ call \in [Staff -> Calls]
  /\ calls \in 0..MaxCalls

\* provision_tenant_modules, when the tenant is created.
Init ==
  /\ mods = [c \in Codes |-> [status |-> "disabled", mode |-> "disabled", provider |-> NoProvider]]
  /\ conns = [x \in Pairs |-> "no_row"]
  /\ refs = {}
  /\ sub = <<>>
  /\ call = [s \in Staff |-> Idle]
  /\ calls = 0

-----------------------------------------------------------------------------
Active(rows, c) == rows[c].status \in {"enabled", "trial"}

\* check_required_dependencies finds nothing missing.
DependenciesMet(rows, c) == \A d \in Required[c] : Active(rows, d)

Dependents(c) == {d \in Codes : c \in Required[d]}

Decision ==
  [pc |-> "decided", seen |-> mods, want |-> mods, connSeen |-> conns, connWant |-> conns,
   refers |-> {}, refsSeen |-> refs, held |-> FALSE, plan |-> <<>>, reads |-> {}, connReads |-> {},
   guarded |-> TRUE, fresh |-> TRUE]

Decide(s, decision) ==
  /\ call[s] = Idle
  /\ calls < MaxCalls
  /\ calls' = calls + 1
  /\ call' = [call EXCEPT ![s] = decision]
  /\ UNCHANGED <<mods, conns, refs, sub>>

ChangeModule(s, c, row, reads, connReads) ==
  Decide(s, [Decision EXCEPT !.want = [mods EXCEPT ![c] = row],
                             !.reads = {c} \cup reads, !.connReads = connReads])

\* An enabled module is left alone; default_mode is internal for every definition.
EnableModule(s) ==
  \E c \in Codes :
    /\ mods[c].status # "enabled"
    /\ DependenciesMet(mods, c)
    /\ ChangeModule(s, c, [mods[c] EXCEPT !.status = "enabled",
                             !.mode = IF @ = "disabled" THEN "internal" ELSE @], Required[c], {})

\* Mutant: a dependent module on trial does not count as active.
DisableModule_EnabledOnly(s) ==
  \E c \in Codes :
    /\ mods[c].status # "disabled"
    /\ \A d \in Dependents(c) : mods[d].status # "enabled"
    /\ ChangeModule(s, c, [status |-> "disabled", mode |-> "disabled", provider |-> NoProvider],
                    Dependents(c), {})

DisableModule(s) ==
  \E c \in Codes :
    /\ mods[c].status # "disabled"
    /\ \A d \in Dependents(c) : ~Active(mods, d)
    /\ ChangeModule(s, c, [status |-> "disabled", mode |-> "disabled", provider |-> NoProvider],
                    Dependents(c), {})

\* validate_external_module_mode
ExternalAllowed(c, provider) ==
  /\ provider # NoProvider
  /\ c \in Supports[provider]
  /\ conns[<<provider, c>>] = "active"

\* Mutant: a connection that was never tested will do.
SetModuleMode_Untested(s) ==
  \E c \in Codes, mode \in Modes, given \in Providers \cup {NoProvider} :
    LET provider == IF given = NoProvider THEN mods[c].provider ELSE given IN
      /\ mods[c].status # "disabled"
      /\ mode = "external" => /\ provider # NoProvider
                              /\ c \in Supports[provider]
                              /\ conns[<<provider, c>>] # "no_row"
      /\ ChangeModule(s, c, [mods[c] EXCEPT !.mode = mode, !.provider = provider], {},
                      IF mode = "external" THEN {<<provider, c>>} ELSE {})

SetModuleMode(s) ==
  \E c \in Codes, mode \in Modes, given \in Providers \cup {NoProvider} :
    LET provider == IF given = NoProvider THEN mods[c].provider ELSE given IN
      /\ mods[c].status # "disabled"
      /\ mode = "external" => ExternalAllowed(c, provider)
      /\ ChangeModule(s, c, [mods[c] EXCEPT !.mode = mode, !.provider = provider], {},
                      IF mode = "external" THEN {<<provider, c>>} ELSE {})

\* PATCH of the row: any status, mode or provider, and no guard at all.
UpdateTenantModule(s) ==
  \E c \in Codes :
    \E row \in {[mods[c] EXCEPT !.status = status] : status \in Statuses}
               \cup {[mods[c] EXCEPT !.mode = mode] : mode \in Modes}
               \cup {[mods[c] EXCEPT !.provider = provider] : provider \in Providers} :
      /\ row # mods[c]
      /\ Decide(s, [Decision EXCEPT !.want = [mods EXCEPT ![c] = row], !.reads = {c},
                                    !.guarded = FALSE])

-----------------------------------------------------------------------------
(* assign_plan.  upsert_subscription is flushed first: once it changes or  *)
(* inserts the row, other assignments that do so wait for the commit.      *)

Holding == {s \in Staff : call[s] # Idle /\ call[s].pc \in {"sorting", "decided"} /\ call[s].held}

UpsertSubscription(s) ==
  \E plan \in Plans :
    /\ call[s] = Idle
    /\ calls < MaxCalls
    /\ plan # sub => Holding = {}
    /\ calls' = calls + 1
    /\ call' = [call EXCEPT ![s] = [pc |-> "sorting", plan |-> plan, held |-> plan # sub]]
    /\ UNCHANGED <<mods, conns, refs, sub>>

\* _sort_module_codes
Sorted(plan) ==
  SelectSeq(Priority, LAMBDA c : c \in ToSet(plan))
    \o SelectSeq(plan, LAMBDA c : c \notin ToSet(Priority))

TrialRow(row) == [row EXCEPT !.status = "trial", !.mode = "internal"]

\* enable_modules_ordered: each module is checked against the rows as the ones before it
\* in the order have left them; a missing dependency rolls everything back.
OrderHolds(order) ==
  \A i \in DOMAIN order :
    \A d \in Required[order[i]] : Active(mods, d) \/ \E j \in DOMAIN order : j < i /\ order[j] = d

ApplyPlanModules(s) ==
  /\ call[s].pc = "sorting"
  /\ LET order == Sorted(call[s].plan) IN
       \/ /\ OrderHolds(order)
          /\ call' = [call EXCEPT ![s] =
                        [Decision EXCEPT
                           !.want = [c \in Codes |-> IF c \in ToSet(order) THEN TrialRow(mods[c]) ELSE mods[c]],
                           !.reads = ToSet(order) \cup UNION {Required[c] : c \in ToSet(order)},
                           !.held = call[s].held, !.plan = call[s].plan]]
       \/ /\ ~OrderHolds(order)
          /\ call' = [call EXCEPT ![s] = Idle]
  /\ UNCHANGED <<mods, conns, refs, sub, calls>>

-----------------------------------------------------------------------------
(* The connections.                                                        *)

ChangeConnection(s, x, status, refers) ==
  Decide(s, [Decision EXCEPT !.connWant = [conns EXCEPT ![x] = status], !.connReads = {x},
                             !.refers = refers])

CreateConnection(s) ==
  \E x \in Pairs : conns[x] = "no_row" /\ ChangeConnection(s, x, "pending", {})

\* PATCH: any status, whatever the module relies on.
UpdateConnection(s) ==
  \E x \in Pairs, status \in ConnStatuses \ {"no_row"} :
    conns[x] \notin {"no_row", status} /\ ChangeConnection(s, x, status, {})

\* The provider answers or refuses; the answer is the new status.
TestConnection(s) ==
  \E x \in Pairs, status \in {"active", "error"} :
    conns[x] # "no_row" /\ ChangeConnection(s, x, status, {})

\* run_sync ends a job as completed or failed; a completed one leaves references
\* (to the tenant's first party and work item).
RunSync(s) ==
  \E x \in Pairs :
    /\ conns[x] # "no_row"
    /\ \/ ChangeConnection(s, x, "active", {x[1]})
       \/ ChangeConnection(s, x, "error", {})

-----------------------------------------------------------------------------
(* The end of a request.                                                   *)

\* The columns a session has changed since it read them, over what is there now.
MergedRow(seen, want, now) ==
  [f \in DOMAIN now |-> IF want[f] # seen[f] THEN want[f] ELSE now[f]]
MergedRows(r) == [c \in Codes |-> MergedRow(r.seen[c], r.want[c], mods[c])]
MergedConns(r) == MergedRow(r.connSeen, r.connWant, conns)

\* A connection or a reference that another request has inserted meanwhile.
InsertConflict(s) ==
  \/ \E x \in Pairs : /\ call[s].connSeen[x] = "no_row" /\ call[s].connWant[x] # "no_row"
                      /\ conns[x] # "no_row"
  \/ \E v \in call[s].refers : v \in refs /\ v \notin call[s].refsSeen

\* What the others in flight have read and this commit changes.
Overtakes(r) ==
  \/ \E c \in r.reads : mods'[c] # mods[c]
  \/ \E x \in r.connReads : conns'[x] # conns[x]

Commit(s) ==
  /\ call[s].pc = "decided"
  /\ ~InsertConflict(s)
  /\ mods' = MergedRows(call[s])
  /\ conns' = MergedConns(call[s])
  /\ refs' = refs \cup call[s].refers
  /\ sub' = IF call[s].held THEN call[s].plan ELSE sub
  /\ call' = [t \in Staff |->
                IF t = s THEN Idle
                ELSE IF call[t].pc = "decided" /\ Overtakes(call[t])
                     THEN [call[t] EXCEPT !.fresh = FALSE] ELSE call[t]]
  /\ UNCHANGED calls

\* A constraint, an error after the decision or a lost connection.
Rollback(s) ==
  /\ call[s].pc \in {"sorting", "decided"}
  /\ call' = [call EXCEPT ![s] = Idle]
  /\ UNCHANGED <<mods, conns, refs, sub, calls>>

Ask(s) ==
  \/ EnableModule(s) \/ DisableModule(s) \/ SetModuleMode(s) \/ UpdateTenantModule(s)
  \/ UpsertSubscription(s) \/ CreateConnection(s) \/ UpdateConnection(s)
  \/ TestConnection(s) \/ RunSync(s)

Next == \E s \in Staff : Ask(s) \/ ApplyPlanModules(s) \/ Commit(s) \/ Rollback(s)

Spec == Init /\ [][Next]_vars

-----------------------------------------------------------------------------
(* Correctness.                                                            *)

\* The requests this step commits without having checked anything, or that decided on
\* rows another request has changed since.
Blameless == \A s \in Staff :
  call[s].pc = "decided" /\ call'[s] = Idle => call[s].guarded /\ call[s].fresh

Broken(rows) ==
  {x \in Codes \X Codes : x[2] \in Required[x[1]] /\ Active(rows, x[1]) /\ ~Active(rows, x[2])}

\* An active module loses a required one, or is activated without it, only through the
\* unguarded PATCH or through two requests that overtake each other: enable, disable and
\* assign_plan keep the dependencies closed, in every order and whatever trial, suspended
\* and disabled modules they meet.
DependenciesClosed == [][Blameless => Broken(mods') \subseteq Broken(mods)]_vars

Relies(rows) == {<<rows[c].provider, c>> : c \in {d \in Codes : rows[d].mode = "external"}}

\* A module starts to rely on an external provider only if that provider supports it and
\* a tested connection exists, unless the PATCH skipped the checks or a request overtook
\* this one.
ExternalBacked ==
  [][Blameless => \A x \in Relies(mods') \ Relies(mods) : x \in Pairs /\ conns[x] = "active"]_vars
=============================================================================
