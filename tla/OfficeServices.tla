---------------------------- MODULE OfficeServices ----------------------------
(***************************************************************************)
(* The services of a tenant's back office side by side: the work items     *)
(* with their process, the module registry, document signing, AI           *)
(* proposals, the party directory and the setup of tenants.                *)
(*                                                                         *)
(* They share the people who call them and no row, so a behaviour          *)
(* exercises the one that `focus' names: interleaving two of them would    *)
(* show nothing that either does not show alone.                           *)
(***************************************************************************)
EXTENDS WorkItemProcess

CONSTANTS None, Unset,
          ModuleCodes, ModuleRequires, ModuleOrder, Plans, Providers, Supports, MaxModuleCalls,
          Docs, Keys, RequiredKeys, DefaultedKeys, Uploads, MaxSigningCalls,
          Proposals, MaxAgentCalls,
          Parties, Roles, Fields, FieldApplies, RequiredFields, Contacts, Queries, TelegramIds,
          MatchLimit, MaxDirectoryCalls,
          Emails, Slugs, Companies, Templates, EntryCodes, MaxSetupCalls

ASSUME CallsAssumption ==
  /\ MaxModuleCalls \in Nat /\ MaxSigningCalls \in Nat /\ MaxAgentCalls \in Nat
  /\ MaxDirectoryCalls \in Nat /\ MaxSetupCalls \in Nat

\* The account nobody has is no account.
ASSUME NoneAssumption == None \notin Emails

\* A key that a PATCH does not have is neither an id nor a list of contacts.
ASSUME UnsetAssumption ==
  /\ Unset \notin TelegramIds \cup {None}
  /\ \A contacts \in SUBSET Contacts : contacts # Unset

VARIABLES focus, \* the service this behaviour exercises
          mods, conns, refs, sub, modulesCall, modulesCalls,
          template, docs, disk, signingCall, clean, signingCalls,
          agent, proposals, approvals, tasks, proposalsCall, proposalsOvertaken, proposalsCalls,
          parties, values, defs, partiesCall, given, vetted, partiesOvertaken, partiesCalls,
          owners, users, templates, tenants, members, setupCall, told, applied, setupCalls

modulesVars == <<mods, conns, refs, sub, modulesCall, modulesCalls>>
signingVars == <<template, docs, disk, signingCall, clean, signingCalls>>
agentsVars == <<agent, proposals, approvals, tasks, proposalsCall, proposalsOvertaken, proposalsCalls>>
directoryVars == <<parties, values, defs, partiesCall, given, vetted, partiesOvertaken, partiesCalls>>
setupVars == <<owners, users, templates, tenants, members, setupCall, told, applied, setupCalls>>

-----------------------------------------------------------------------------
Modules ==
  INSTANCE TenantModules
    WITH Staff <- Workers, Codes <- ModuleCodes, Required <- ModuleRequires,
         Priority <- ModuleOrder, NoProvider <- None, MaxCalls <- MaxModuleCalls,
         call <- modulesCall, calls <- modulesCalls

Signing ==
  INSTANCE DocumentSigning
    WITH Users <- Workers, Required <- RequiredKeys, Defaulted <- DefaultedKeys,
         MaxCalls <- MaxSigningCalls, call <- signingCall, calls <- signingCalls

Agents ==
  INSTANCE AiProposals
    WITH Users <- Workers, MaxCalls <- MaxAgentCalls,
         call <- proposalsCall, overtaken <- proposalsOvertaken, calls <- proposalsCalls

Directory ==
  INSTANCE PartyDirectory
    WITH Users <- Workers, NoRole <- None, Applies <- FieldApplies, Required <- RequiredFields,
         NoKey <- None, MaxCalls <- MaxDirectoryCalls,
         call <- partiesCall, overtaken <- partiesOvertaken, calls <- partiesCalls

Setup ==
  INSTANCE TenantSetup
    WITH Clients <- Workers, Codes <- EntryCodes, MaxCalls <- MaxSetupCalls,
         call <- setupCall, calls <- setupCalls

-----------------------------------------------------------------------------
OfficeInit ==
  /\ focus \in {"work items", "modules", "signing", "agents", "directory", "setup"}
  /\ Init /\ Modules!Init /\ Signing!Init /\ Agents!Init /\ Directory!Init /\ Setup!Init
  /\ focus # "setup" => \A t \in DOMAIN templates : templates[t].entries = {}

OfficeNext ==
  /\ UNCHANGED focus
  /\ \/ /\ focus = "work items" /\ Next
        /\ UNCHANGED <<modulesVars, signingVars, agentsVars, directoryVars, setupVars>>
     \/ /\ focus = "modules" /\ Modules!Next
        /\ UNCHANGED <<vars, signingVars, agentsVars, directoryVars, setupVars>>
     \/ /\ focus = "signing" /\ Signing!Next
        /\ UNCHANGED <<vars, modulesVars, agentsVars, directoryVars, setupVars>>
     \/ /\ focus = "agents" /\ Agents!Next
        /\ UNCHANGED <<vars, modulesVars, signingVars, directoryVars, setupVars>>
     \/ /\ focus = "directory" /\ Directory!Next
        /\ UNCHANGED <<vars, modulesVars, signingVars, agentsVars, setupVars>>
     \/ /\ focus = "setup" /\ Setup!Next
        /\ UNCHANGED <<vars, modulesVars, signingVars, agentsVars, directoryVars>>

OfficeSpec ==
  OfficeInit /\ [][OfficeNext]_<<focus, vars, modulesVars, signingVars, agentsVars,
                                 directoryVars, setupVars>>

-----------------------------------------------------------------------------
(* Correctness, besides OneActiveRun, PolicyHonoured and StageSyncKept.    *)

\* enable, disable and assign_plan keep the dependencies of active modules closed.
DependenciesClosed == Modules!DependenciesClosed

\* A module starts to rely on a provider only over a tested connection.
ExternalBacked == Modules!ExternalBacked

\* A signed document has its signed file on the disk and no open request.
SignedIsBacked == Signing!SignedIsBacked

\* Nothing is executed against what its approvers decided.
DecisionsHonoured == Agents!DecisionsHonoured

\* The search finds a party by the contacts it was given last and by no other, up to
\* its limit.
DirectoryConsistent == Directory!DirectoryConsistent

\* Nothing half made is ever seen of a tenant or an account.
TenantsWhole == Setup!TenantsWhole
=============================================================================
