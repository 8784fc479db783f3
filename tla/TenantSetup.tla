----------------------------- MODULE TenantSetup ------------------------------
(***************************************************************************)
(* How a platform comes into being: the first registration, the tenants a  *)
(* provider owner creates with a default branch, module rows and the rows  *)
(* of an industry template, and the accounts and memberships of a tenant.  *)
(*                                                                         *)
(* Every request is answered before the audit middleware writes its own    *)
(* row with the request's session, and get_db closes that session; which   *)
(* of the two comes first depends on the FastAPI release.  Names, statuses *)
(* of tenants and passwords are left out; for plans and the modules a      *)
(* template enables see TenantModules.                                     *)
(***************************************************************************)
EXTENDS Naturals

CONSTANTS Clients,   \* requests that may be under way at the same time
          Emails,    \* of accounts
          Slugs,     \* of tenants
          Companies, \* slugs of provider companies
          Templates, \* codes of industry templates
          Codes,     \* of pipelines, fields, document templates, catalog items, agents
          None,
          MaxCalls   \* bound: requests in a behaviour

VARIABLES owners,    \* provider companies: the account of the owner of each
          users,     \* accounts
          templates, \* rows of industry_templates: active or not, and their entries
          tenants,   \* rows of tenants, with what provisioning gave them
          members,   \* rows of user_tenant_memberships, per tenant
          call,      \* what each request has read and is about to write
          told,      \* pairs <<tenant, email>>: memberships a client was told of
          applied,   \* entries of the templates applied to a tenant
          calls      \* requests begun

vars == <<owners, users, templates, tenants, members, call, told, applied, calls>>

Idle == [pc |-> "idle"]
Absent == [branch |-> None]
TemplateRows == [active : BOOLEAN, entries : SUBSET Codes]
Rows == [branch : {"main"}, modules : BOOLEAN, template : Templates \cup {None},
         entries : SUBSET Codes]

\* had, entries: the entries the tenant has, and those of the template, when they are read.
TenantCalls ==
  [pc : {"create tenant", "apply"}, slug : Slugs, owner : Emails \cup {None},
   template : Templates \cup {None}, had : SUBSET Codes, entries : SUBSET Codes]
Registrations == [pc : {"register"}, email : Emails, company : Companies]
MemberCalls == [pc : {"add user", "add member", "flushed"}, slug : Slugs, email : Emails]

TypeOK ==
  /\ owners \in [Companies -> Emails \cup {None}]
  /\ users \subseteq Emails
  /\ templates \in [Templates -> TemplateRows]
  /\ tenants \in [Slugs -> Rows \cup {Absent}]
  /\ members \in [Slugs -> SUBSET Emails]
  /\ \A c \in Clients : call[c] \in {Idle} \cup Registrations \cup TenantCalls \cup MemberCalls
  /\ told \subseteq Slugs \X Emails
  /\ applied \in [Slugs -> SUBSET Codes]
  /\ calls \in 0..MaxCalls

\* seed_templates has run: all templates are active.
Init ==
  /\ owners = [k \in Companies |-> None]
  /\ users = {}
  /\ templates \in [Templates -> [active : {TRUE}, entries : SUBSET Codes]]
  /\ tenants = [s \in Slugs |-> Absent]
  /\ members = [s \in Slugs |-> {}]
  /\ call = [c \in Clients |-> Idle]
  /\ told = {}
  /\ applied = [s \in Slugs |-> {}]
  /\ calls = 0

Exists(s) == tenants[s] # Absent
ProviderOwners == {owners[k] : k \in Companies} \ {None}

Begin(c, request) ==
  /\ call[c] = Idle
  /\ calls < MaxCalls
  /\ calls' = calls + 1
  /\ call' = [call EXCEPT ![c] = request]
  /\ UNCHANGED <<owners, users, templates, tenants, members, told, applied>>

\* require_provider_owner.
BeginAsOwner(c, request) == ProviderOwners # {} /\ Begin(c, request)

\* Every constraint of the tables is checked again when the rows are written.
Finish(c) == call' = [call EXCEPT ![c] = Idle] /\ UNCHANGED <<templates, told, calls>>

-----------------------------------------------------------------------------
(* The first registration.                                                 *)

RegisterProviderOwner(c) ==
  \E email \in Emails, company \in Companies :
    /\ users = {}
    /\ Begin(c, [pc |-> "register", email |-> email, company |-> company])

CommitRegistration(c) ==
  LET r == call[c] IN
  /\ r.pc = "register"
  /\ r.email \notin users
  /\ owners[r.company] = None
  /\ users' = users \cup {r.email}
  /\ owners' = [owners EXCEPT ![r.company] = r.email]
  /\ Finish(c)
  /\ UNCHANGED <<tenants, members, applied>>

-----------------------------------------------------------------------------
(* Tenants and templates.                                                  *)

Applicable(t) == t # None => templates[t].active
Entries(t) == IF t = None THEN {} ELSE templates[t].entries

\* An owner given by an email nobody has is ignored.
CreateTenant(c) ==
  \E s \in Slugs, email \in Emails \cup {None}, t \in Templates \cup {None} :
    /\ ~Exists(s)
    /\ Applicable(t)
    /\ BeginAsOwner(c, [pc |-> "create tenant", slug |-> s, template |-> t, had |-> {},
                        owner |-> IF email \in users THEN email ELSE None,
                        entries |-> Entries(t)])

ApplyToTenant(c) ==
  \E s \in Slugs, t \in Templates :
    /\ Exists(s)
    /\ Applicable(t)
    /\ BeginAsOwner(c, [pc |-> "apply", slug |-> s, template |-> t, owner |-> None,
                        had |-> tenants[s].entries, entries |-> Entries(t)])

UpdateTemplate(c) ==
  \E t \in Templates, row \in TemplateRows :
    /\ ProviderOwners # {} /\ call[c] = Idle /\ calls < MaxCalls
    /\ templates' = [templates EXCEPT ![t] = row]
    /\ calls' = calls + 1
    /\ UNCHANGED <<owners, users, tenants, members, call, told, applied>>

\* The branch, the module rows and the template's rows come in the same transaction.
Provisioned(r) ==
  [branch |-> "main", modules |-> TRUE, template |-> r.template, entries |-> r.entries]

CommitTenant(c) ==
  LET r == call[c] IN
  /\ r.pc = "create tenant"
  /\ ~Exists(r.slug)
  /\ tenants' = [tenants EXCEPT ![r.slug] = Provisioned(r)]
  /\ members' = [members EXCEPT ![r.slug] = {r.owner} \ {None}]
  /\ applied' = [applied EXCEPT ![r.slug] = r.entries]
  /\ Finish(c)
  /\ UNCHANGED <<owners, users>>

\* What the tenant had when it was looked up is skipped.  Anything else that has come
\* since meets the unique constraint.
Missing(r) == r.entries \ r.had

CommitTemplate(c) ==
  LET r == call[c] IN
  /\ r.pc = "apply"
  /\ Missing(r) \cap tenants[r.slug].entries = {}
  /\ tenants' = [tenants EXCEPT ![r.slug].template = r.template,
                                ![r.slug].entries = @ \cup Missing(r)]
  /\ applied' = [applied EXCEPT ![r.slug] = @ \cup r.entries]
  /\ Finish(c)
  /\ UNCHANGED <<owners, users, members>>

-----------------------------------------------------------------------------
(* Accounts and memberships.                                               *)

CreateTenantUser(c) ==
  \E s \in Slugs, email \in Emails :
    /\ Exists(s) /\ email \notin users
    /\ BeginAsOwner(c, [pc |-> "add user", slug |-> s, email |-> email])

AddMembership(c) ==
  \E s \in Slugs, email \in Emails :
    /\ Exists(s) /\ email \in users \ members[s]
    /\ BeginAsOwner(c, [pc |-> "add member", slug |-> s, email |-> email])

\* An insert waits for another request's uncommitted row of the same key.
RowFree(r) ==
  /\ r.email \notin members[r.slug]
  /\ \A d \in Clients :
       call[d].pc = "flushed" => ~(call[d].email = r.email /\ call[d].slug = r.slug)

Joined(r) == members' = [members EXCEPT ![r.slug] = @ \cup {r.email}]
Told(r) == told' = told \cup {<<r.slug, r.email>>}

CommitTenantUser(c) ==
  LET r == call[c] IN
  /\ r.pc = "add user"
  /\ r.email \notin users
  /\ users' = users \cup {r.email}
  /\ Joined(r)
  /\ Told(r)
  /\ call' = [call EXCEPT ![c] = Idle]
  /\ UNCHANGED <<owners, templates, tenants, applied, calls>>

\* add_membership flushes the row, and nobody commits it before the answer.
FlushMembership(c) ==
  /\ call[c].pc = "add member"
  /\ RowFree(call[c])
  /\ call' = [call EXCEPT ![c].pc = "flushed"]
  /\ UNCHANGED <<owners, users, templates, tenants, members, told, applied, calls>>

\* The middleware commits its audit row, and the membership with it.
AuditMutation(c) ==
  /\ call[c].pc = "flushed"
  /\ Joined(call[c])
  /\ Told(call[c])
  /\ call' = [call EXCEPT ![c] = Idle]
  /\ UNCHANGED <<owners, users, templates, tenants, applied, calls>>

\* The session has been closed before, or the audit row cannot be written: the client
\* is told the same.
AuditTooLate(c) ==
  /\ call[c].pc = "flushed"
  /\ Told(call[c])
  /\ call' = [call EXCEPT ![c] = Idle]
  /\ UNCHANGED <<owners, users, templates, tenants, members, applied, calls>>

-----------------------------------------------------------------------------
(* Failures.                                                               *)

\* Mutant: the account and the tenant are committed before the rest.
Refuse_Flushed(c) ==
  LET r == call[c] IN
  /\ r # Idle /\ r.pc # "flushed"
  /\ users' = IF r.pc = "add user" THEN users \cup {r.email} ELSE users
  /\ Finish(c)
  /\ UNCHANGED <<owners, tenants, members, applied>>

\* A conflict or any other failure: everything flushed is rolled back.
Refuse(c) ==
  /\ call[c] # Idle /\ call[c].pc # "flushed"
  /\ Finish(c)
  /\ UNCHANGED <<owners, users, tenants, members, applied>>

Ask(c) ==
  \/ RegisterProviderOwner(c) \/ CreateTenant(c) \/ ApplyToTenant(c) \/ UpdateTemplate(c)
  \/ CreateTenantUser(c) \/ AddMembership(c)

Continue(c) ==
  \/ CommitRegistration(c) \/ CommitTenant(c) \/ CommitTemplate(c) \/ CommitTenantUser(c)
  \/ FlushMembership(c) \/ AuditMutation(c) \/ AuditTooLate(c) \/ Refuse(c)

Next == \E c \in Clients : Ask(c) \/ Continue(c)

Spec == Init /\ [][Next]_vars

-----------------------------------------------------------------------------
(* Correctness.                                                            *)

\* Nothing half made is ever seen, whichever requests fail or overlap: a tenant has its
\* branch, its module rows and every entry its templates had when they were applied, and
\* an account is a provider owner's or belongs to a tenant.
TenantsWhole ==
  /\ \A s \in Slugs : Exists(s) => tenants[s].modules /\ applied[s] \subseteq tenants[s].entries
  /\ \A email \in users : email \in ProviderOwners \/ \E s \in Slugs : email \in members[s]

\* A client that was told a membership exists finds it: adding the same user again is
\* refused.
MembershipsKept == \A m \in told : m[2] \in members[m[1]]
=============================================================================
