-------------------------- MODULE PublishDestinations --------------------------
(***************************************************************************)
(* Publishing connections (the accounts of a tenant at its providers) and  *)
(* the destinations allowed under them: created, changed, enabled,         *)
(* disabled, validated and archived by administrators.  The secrets of the *)
(* connections are the subject of SecretLifecycle.                         *)
(*                                                                         *)
(* A request reads a row without a lock, decides, and writes later the     *)
(* columns it has changed.                                                 *)
(***************************************************************************)
EXTENDS Naturals

CONSTANTS Admins,      \* requests that may be under way at the same time
          Connections, \* ids of connections
          Destinations,\* ids of destinations
          Accounts,    \* account identifiers at a provider
          NoAccount,   \* no identifier
          ExternalIds, \* targets at a provider: chats, accounts
          Types,       \* pairs <<provider, usable>>: a destination type is reserved if not usable
          MaxCalls     \* bound: requests in a behaviour

VARIABLES connections,  \* rows of marketing_publishing_connections
          destinations, \* rows of marketing_publish_destinations
          call,         \* what each request has read and is about to write
          overtaken,    \* destinations on which one request has overtaken another
          calls         \* requests begun

vars == <<connections, destinations, call, overtaken, calls>>

Absent == [status |-> "absent"]
Providers == {t[1] : t \in Types}

\* EXPIRED is refused by set_connection_status, ERROR is asked for nowhere.
ConnectionRows ==
  [status : {"not_connected", "active", "disabled"}, provider : Providers,
   account : Accounts \cup {NoAccount}]

\* VALID needs an adapter, which does not exist; INVALID a blank name, which is refused.
\* So identity_locked_at is never set.
DestinationRows ==
  [status : {"enabled", "disabled", "archived"}, type : Types, connection : Connections,
   external_id : ExternalIds, validation_status : {"unchecked", "unavailable"}]

Idle == [pc |-> "idle"]
ConnectionCalls ==
  [pc : {"connection"}, on : Connections, seen : ConnectionRows \cup {Absent}, row : ConnectionRows]
DestinationCalls ==
  [pc : {"destination"}, on : Destinations, seen : DestinationRows \cup {Absent},
   row : DestinationRows, fresh : BOOLEAN]

TypeOK ==
  /\ connections \in [Connections -> ConnectionRows \cup {Absent}]
  /\ destinations \in [Destinations -> DestinationRows \cup {Absent}]
  /\ \A u \in Admins : call[u] \in {Idle} \cup ConnectionCalls \cup DestinationCalls
  /\ overtaken \subseteq Destinations
  /\ calls \in 0..MaxCalls

Init ==
  /\ connections = [c \in Connections |-> Absent]
  /\ destinations = [d \in Destinations |-> Absent]
  /\ call = [u \in Admins |-> Idle]
  /\ overtaken = {}
  /\ calls = 0

Begin(u, request) ==
  /\ call[u] = Idle
  /\ calls < MaxCalls
  /\ calls' = calls + 1
  /\ call' = [call EXCEPT ![u] = request]
  /\ UNCHANGED <<connections, destinations, overtaken>>

\* The columns that differ from what was read are written over what is there by now.
Merged(now, r) ==
  IF r.seen = Absent THEN r.row
  ELSE [column \in DOMAIN now |->
          IF r.row[column] # r.seen[column] THEN r.row[column] ELSE now[column]]

-----------------------------------------------------------------------------
(* Connections.                                                            *)

WriteConnection(u, c, row) ==
  Begin(u, [pc |-> "connection", on |-> c, seen |-> connections[c], row |-> row])

CreateConnection(u) ==
  \E c \in Connections, provider \in Providers, account \in Accounts \cup {NoAccount} :
    /\ connections[c] = Absent
    /\ \A t \in Admins : call[t] \in ConnectionCalls => call[t].on # c
    /\ WriteConnection(u, c, [status |-> "not_connected", provider |-> provider,
                              account |-> account])

\* update_metadata: a blank identifier is none.
UpdateMetadata(u) ==
  \E c \in Connections, account \in Accounts \cup {NoAccount} :
    /\ connections[c] # Absent /\ account # connections[c].account
    /\ WriteConnection(u, c, [connections[c] EXCEPT !.account = account])

\* enable, disable, and disconnect, with or without a vault.
SetConnectionStatus(u) ==
  \E c \in Connections, status \in {"active", "disabled", "not_connected"} :
    /\ connections[c] # Absent /\ status # connections[c].status
    /\ status = "active" => connections[c].account # NoAccount
    /\ WriteConnection(u, c, [connections[c] EXCEPT !.status = status])

AccountsDiffer(table) ==
  \A b, c \in Connections :
    /\ b # c /\ table[b] # Absent /\ table[c] # Absent
    /\ table[b].account # NoAccount
    => <<table[b].provider, table[b].account>> # <<table[c].provider, table[c].account>>

CommitConnection(u) ==
  /\ call[u] \in ConnectionCalls
  /\ LET written == [connections EXCEPT ![call[u].on] = Merged(@, call[u])]
     IN AccountsDiffer(written) /\ connections' = written
  /\ call' = [call EXCEPT ![u] = Idle]
  /\ UNCHANGED <<destinations, overtaken, calls>>

-----------------------------------------------------------------------------
(* Destinations.                                                           *)

WriteDestination(u, d, row) ==
  Begin(u, [pc |-> "destination", on |-> d, seen |-> destinations[d], row |-> row,
            fresh |-> TRUE])

Usable(type) == type[2]
Live(d) == destinations[d].status \in {"enabled", "disabled"}

CreateDestination(u) ==
  \E d \in Destinations, c \in Connections, type \in Types, id \in ExternalIds :
    /\ destinations[d] = Absent
    /\ \A t \in Admins : call[t] \in DestinationCalls => call[t].on # d
    /\ connections[c] # Absent /\ connections[c].provider = type[1]
    /\ WriteDestination(u, d,
         [status |-> IF Usable(type) THEN "enabled" ELSE "disabled", type |-> type,
          connection |-> c, external_id |-> id, validation_status |-> "unchecked"])

\* Mutant: identity_locked_at alone keeps the identifier.
UpdateExternalId_Unlocked(u) ==
  \E d \in Destinations, id \in ExternalIds :
    /\ Live(d)
    /\ WriteDestination(u, d, [destinations[d] EXCEPT !.external_id = id])

ExternalIdMutable(d) == Live(d) /\ destinations[d].validation_status = "unchecked"

\* A PATCH of names and metadata alone changes nothing of this.
UpdateExternalId(u) ==
  \E d \in Destinations, id \in ExternalIds :
    /\ ExternalIdMutable(d)
    /\ WriteDestination(u, d, [destinations[d] EXCEPT !.external_id = id])

EnableDestination(u) ==
  \E d \in Destinations :
    /\ Live(d)
    /\ destinations[d].status = "disabled" => Usable(destinations[d].type)
    /\ WriteDestination(u, d, [destinations[d] EXCEPT !.status = "enabled"])

DisableDestination(u) ==
  \E d \in Destinations :
    Live(d) /\ WriteDestination(u, d, [destinations[d] EXCEPT !.status = "disabled"])

ArchiveDestination(u) ==
  \E d \in Destinations :
    /\ destinations[d] # Absent
    /\ WriteDestination(u, d, [destinations[d] EXCEPT !.status = "archived"])

\* Without an adapter, whatever the type.
Validated(row) == [row EXCEPT !.validation_status = "unavailable"]

ValidateDestination(u) ==
  \E d \in Destinations : Live(d) /\ WriteDestination(u, d, Validated(destinations[d]))

\* The partial unique index: one destination of an identity that is not archived.
IdentitiesDiffer(table) ==
  \A d, e \in Destinations :
    d # e /\ table[d].status \in {"enabled", "disabled"} /\ table[e].status \in {"enabled", "disabled"}
    => <<table[d].connection, table[d].type, table[d].external_id>>
         # <<table[e].connection, table[e].type, table[e].external_id>>

CommitDestination(u) ==
  /\ call[u] \in DestinationCalls
  /\ LET d == call[u].on
         written == [destinations EXCEPT ![d] = Merged(@, call[u])]
     IN /\ IdentitiesDiffer(written)
        /\ destinations' = written
        /\ overtaken' = IF call[u].fresh THEN overtaken ELSE overtaken \cup {d}
        /\ call' = [t \in Admins |->
                     IF t = u THEN Idle
                     ELSE IF call[t] \in DestinationCalls /\ call[t].on = d
                       THEN [call[t] EXCEPT !.fresh = FALSE] ELSE call[t]]
  /\ UNCHANGED <<connections, calls>>

\* A duplicate, or a failure before the commit.
Rollback(u) ==
  /\ call[u] # Idle
  /\ call' = [call EXCEPT ![u] = Idle]
  /\ UNCHANGED <<connections, destinations, overtaken, calls>>

Ask(u) ==
  \/ CreateConnection(u) \/ UpdateMetadata(u) \/ SetConnectionStatus(u)
  \/ CreateDestination(u) \/ UpdateExternalId(u) \/ EnableDestination(u)
  \/ DisableDestination(u) \/ ArchiveDestination(u) \/ ValidateDestination(u)

Next == \E u \in Admins : Ask(u) \/ CommitConnection(u) \/ CommitDestination(u) \/ Rollback(u)

Spec == Init /\ [][Next]_vars

-----------------------------------------------------------------------------
(* Correctness.                                                            *)

\* What was archived stays archived, and what was validated keeps the external identifier
\* it was validated with, although the identifier is checked when it is read and written
\* later: only requests that overtake each other on one destination are exempt.
IdentitiesSettled ==
  [][\A d \in Destinations \ overtaken' :
       /\ destinations[d].status = "archived" => destinations'[d].status = "archived"
       /\ destinations[d] # Absent /\ destinations[d].validation_status = "unavailable" =>
            destinations'[d].external_id = destinations[d].external_id]_vars

\* An active connection names its account.
ActiveNamesAccount ==
  \A c \in Connections : connections[c].status = "active" => connections[c].account # NoAccount
=============================================================================
