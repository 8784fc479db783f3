---------------------------- MODULE PartyDirectory ----------------------------
(***************************************************************************)
(* Parties of a tenant with their contact methods and custom fields, the   *)
(* definitions of which a template may add at any time, and the search     *)
(* for the parties that have given contacts.                               *)
(*                                                                         *)
(* Names, types and statuses are left out, and with the names the weak     *)
(* hits that the search adds behind the exact ones; addresses are written  *)
(* exactly like contact methods, and are left out too.                     *)
(***************************************************************************)
EXTENDS Naturals, FiniteSets

CONSTANTS Users,    \* requests that may be under way at the same time
          Parties,  \* ids that uuid4 may give
          Roles, NoRole,
          Fields,   \* keys of custom fields
          Applies,  \* Applies[f]: the roles applies_to_json names, {} for any
          Required, \* fields a definition of which is required
          Contacts, \* pairs <<kind, key>>: a contact as it is compared, once normalised
          Queries,  \* pairs <<kind, key>>: what a search may ask for, once normalised
          TelegramIds, \* keys that are numbers, as the ids of Telegram users are
          MatchLimit,  \* EXACT_MATCH_LIMIT
          NoKey,    \* what too short or empty a value is normalised to
          Unset,    \* a key that a PATCH does not have
          MaxCalls  \* bound: requests in a behaviour

VARIABLES parties,   \* rows of parties: metadata and contact methods
          values,    \* rows of custom_field_values: the fields each party has
          defs,      \* rows of custom_field_definitions
          call,      \* what each request has read and is about to write
          given,     \* the contacts and the Telegram id the last requests with some gave a party
          vetted,    \* the fields the last request that had some was to have or find
          overtaken, \* parties on which one request has overtaken another
          calls      \* requests begun

vars == <<parties, values, defs, call, given, vetted, overtaken, calls>>

Absent == [meta |-> "absent"]
\* What is read of metadata_json: the role, and the id of a Telegram user.
Metadata == [role : Roles \cup {NoRole}, telegram : TelegramIds \cup {NoKey}]
Gifts == [contacts : SUBSET Contacts, telegram : TelegramIds \cup {NoKey}]
NoMetadata == [role |-> NoRole, telegram |-> NoKey]
\* by: the request that inserted the row.
Methods == [contact : Contacts, by : 1..MaxCalls]
Rows == [meta : Metadata, contacts : SUBSET Methods]

Idle == [pc |-> "idle"]
\* was, seen, had: metadata, contact methods and custom values the request has read.
Writes ==
  [pc : {"create", "update"}, on : Parties, role : Roles \cup {NoRole, Unset},
   telegram : TelegramIds \cup {NoKey, Unset}, was : Metadata,
   contacts : {Unset} \cup SUBSET Contacts, seen : SUBSET Methods,
   fields : {Unset} \cup SUBSET Fields, had : SUBSET Fields,
   needs : SUBSET Fields, nr : 1..MaxCalls]
Calls == {Idle} \cup Writes \cup [pc : {"delete"}, on : Parties]

TypeOK ==
  /\ parties \in [Parties -> Rows \cup {Absent}]
  /\ values \in [Parties -> SUBSET Fields]
  /\ defs \subseteq Fields
  /\ \A u \in Users : call[u] \in Calls
  /\ given \in [Parties -> Gifts]
  /\ vetted \in [Parties -> SUBSET Fields]
  /\ overtaken \subseteq Parties
  /\ calls \in 0..MaxCalls

NothingGiven == [contacts |-> {}, telegram |-> NoKey]

Init ==
  /\ parties = [p \in Parties |-> Absent]
  /\ values = [p \in Parties |-> {}]
  /\ defs = {}
  /\ call = [u \in Users |-> Idle]
  /\ given = [p \in Parties |-> NothingGiven]
  /\ vetted = [p \in Parties |-> {}]
  /\ overtaken = {}
  /\ calls = 0

Exists(p) == parties[p] # Absent

\* The definitions validate_and_prepare looks at; without a role, all of them.
Definitions(role) == {f \in defs : role = NoRole \/ Applies[f] = {} \/ role \in Applies[f]}
RequiredFor(role) == Definitions(role) \cap Required
Accepted(role, fields) ==
  fields # Unset => RequiredFor(role) \subseteq fields /\ fields \subseteq Definitions(role)

Free(u) == call[u] = Idle /\ calls < MaxCalls

Begin(u, request) ==
  /\ calls' = calls + 1
  /\ call' = [call EXCEPT ![u] = request]
  /\ UNCHANGED <<parties, values, defs, given, vetted, overtaken>>

\* No row has, had or is about to have the id.
Unused(p) ==
  ~Exists(p) /\ given[p] = NothingGiven /\ values[p] = {} /\ \A u \in Users : call[u] # Idle => call[u].on # p

CreateParty(u) ==
  /\ Free(u)
  /\ \E p \in Parties, role \in Roles \cup {NoRole}, telegram \in TelegramIds \cup {NoKey},
        contacts \in SUBSET Contacts, fields \in SUBSET Fields :
    /\ Unused(p)
    /\ Accepted(role, fields)
    /\ Begin(u, [pc |-> "create", on |-> p, role |-> role, telegram |-> telegram,
                 was |-> NoMetadata, contacts |-> contacts, seen |-> {},
                 fields |-> fields, had |-> {}, needs |-> RequiredFor(role), nr |-> calls + 1])

RoleAfter(was, role) == IF role = Unset THEN was.role ELSE role

\* The metadata of a PATCH replace the others, but the role stays unless it gives one.
MetadataAfter(was, role, telegram) ==
  [role |-> RoleAfter(was, role), telegram |-> IF telegram = Unset THEN was.telegram ELSE telegram]

Update(u, p, role, telegram, contacts, fields) ==
  Begin(u, [pc |-> "update", on |-> p, role |-> role, telegram |-> telegram,
            was |-> parties[p].meta, contacts |-> contacts, seen |-> parties[p].contacts,
            fields |-> fields, had |-> values[p],
            needs |-> RequiredFor(RoleAfter(parties[p].meta, role)), nr |-> calls + 1])

\* Mutant: the fields are checked for the role the party had.
UpdateParty_OldRole(u) ==
  /\ Free(u)
  /\ \E p \in Parties, role \in Roles \cup {Unset}, telegram \in TelegramIds \cup {NoKey, Unset},
        contacts \in {Unset} \cup SUBSET Contacts, fields \in {Unset} \cup SUBSET Fields :
    /\ Exists(p)
    /\ Accepted(parties[p].meta.role, fields)
    /\ Update(u, p, role, telegram, contacts, fields)

\* A new role without custom fields is not checked against them.
UpdateParty(u) ==
  /\ Free(u)
  /\ \E p \in Parties, role \in Roles \cup {Unset}, telegram \in TelegramIds \cup {NoKey, Unset},
        contacts \in {Unset} \cup SUBSET Contacts, fields \in {Unset} \cup SUBSET Fields :
    /\ Exists(p)
    /\ Accepted(RoleAfter(parties[p].meta, role), fields)
    /\ Update(u, p, role, telegram, contacts, fields)

DeleteParty(u) == Free(u) /\ \E p \in Parties : Exists(p) /\ Begin(u, [pc |-> "delete", on |-> p])

\* Requests on the same party that have read what u has written.
Overtakes(u) == \E t \in Users \ {u} : call[t] # Idle /\ call[t].on = call[u].on

Done(u) ==
  /\ call' = [call EXCEPT ![u] = Idle]
  /\ overtaken' = IF Overtakes(u) THEN overtaken \cup {call[u].on} ELSE overtaken
  /\ UNCHANGED <<defs, calls>>

\* Each value is found or inserted: an insert another request was quicker with fails.
ValuesAdmitted(r) == r.fields # Unset => (r.fields \ r.had) \cap values[r.on] = {}

\* The contact methods that were read are deleted, the given ones inserted.
Contents(r, before) ==
  IF r.contacts = Unset THEN before
  ELSE (before \ r.seen) \cup {[contact |-> c, by |-> r.nr] : c \in r.contacts}

\* Metadata that are what they were are not written.
MetadataWritten(r, before) ==
  LET after == MetadataAfter(r.was, r.role, r.telegram)
  IN  IF after = r.was THEN before ELSE after

Noted(r) ==
  /\ values' = [values EXCEPT ![r.on] = IF r.fields = Unset THEN @ ELSE @ \cup r.fields]
  /\ given' = [given EXCEPT ![r.on] =
                 [contacts |-> IF r.contacts = Unset THEN @.contacts ELSE r.contacts,
                  telegram |-> IF r.telegram = Unset THEN @.telegram ELSE r.telegram]]
  /\ vetted' = [vetted EXCEPT ![r.on] = IF r.fields = Unset THEN @ ELSE r.needs]

CommitCreate(u) ==
  LET r == call[u] IN
  /\ r.pc = "create"
  /\ parties' = [parties EXCEPT ![r.on] = [meta |-> MetadataAfter(r.was, r.role, r.telegram),
                                           contacts |-> Contents(r, {})]]
  /\ Noted(r)
  /\ Done(u)

\* The party is read again at the end: it must still be there.
CommitUpdate(u) ==
  LET r == call[u] IN
  /\ r.pc = "update"
  /\ Exists(r.on)
  /\ ValuesAdmitted(r)
  /\ parties' = [parties EXCEPT ![r.on] = [meta |-> MetadataWritten(r, @.meta),
                                           contacts |-> Contents(r, @.contacts)]]
  /\ Noted(r)
  /\ Done(u)

\* The contact methods go with the party, the custom values stay.
CommitDelete(u) ==
  /\ call[u].pc = "delete"
  /\ parties' = [parties EXCEPT ![call[u].on] = Absent]
  /\ UNCHANGED <<values, given, vetted>>
  /\ Done(u)

\* A conflict, a party that is gone, any other failure.
Fail(u) ==
  /\ call[u] # Idle
  /\ call' = [call EXCEPT ![u] = Idle]
  /\ UNCHANGED <<parties, values, defs, given, vetted, overtaken, calls>>

\* A template is applied: the definitions the tenant lacks are created.
DefineFields ==
  \E fields \in SUBSET Fields :
    /\ ~(fields \subseteq defs)
    /\ defs' = defs \cup fields
    /\ UNCHANGED <<parties, values, call, given, vetted, overtaken, calls>>

-----------------------------------------------------------------------------
(* The search.                                                             *)

\* The kinds of contact methods a query of each kind is compared with.
Searched ==
  [email |-> {"email"}, phone |-> {"phone", "mobile"}, whatsapp |-> {"whatsapp", "phone", "mobile"},
   telegram_username |-> {"telegram"}, telegram_user_id |-> {"telegram"}]

IsTelegramId(query) == query[1] = "telegram_user_id" /\ query[2] \in TelegramIds

Reaches(query, contact) ==
  /\ query[2] # NoKey /\ contact[2] = query[2] /\ contact[1] \in Searched[query[1]]
  /\ query[1] = "telegram_user_id" => IsTelegramId(query)

\* A party is an exact match for a contact method or for the id in its metadata.
Matches(p, queries) ==
  \E query \in queries : \/ \E m \in parties[p].contacts : Reaches(query, m.contact)
                         \/ IsTelegramId(query) /\ parties[p].meta.telegram = query[2]

ExactMatches(queries) == {p \in Parties : Exists(p) /\ Matches(p, queries)}

Full(hits) == Cardinality(hits) = MatchLimit

\* What a search for several contacts may answer: its exact matches, or MatchLimit of them.
MatchParties(queries) ==
  LET all == ExactMatches(queries)
  IN  {hits \in SUBSET all : /\ Cardinality(hits) <= MatchLimit
                             /\ hits = all \/ Full(hits)}

-----------------------------------------------------------------------------

Next ==
  \/ \E u \in Users :
       \/ CreateParty(u) \/ UpdateParty(u) \/ DeleteParty(u)
       \/ CommitCreate(u) \/ CommitUpdate(u) \/ CommitDelete(u) \/ Fail(u)
  \/ DefineFields

Spec == Init /\ [][Next]_vars

-----------------------------------------------------------------------------
(* Correctness.                                                            *)

\* The requests gave the party a contact that is searched for.
Gave(p, queries) ==
  \E query \in queries : \/ \E c \in given[p].contacts : Reaches(query, c)
                         \/ IsTelegramId(query) /\ given[p].telegram = query[2]

\* Requests that do not overlap on a party leave it as the last of them gave it, whatever
\* was patched since: the search has it among its exact matches for the contacts and the
\* Telegram id it was given, and for no other; only a full answer of MatchLimit other
\* matches may lack it.  Overlapping or not, it has every field that was required of the
\* role under which its fields were last checked.
DirectoryConsistent ==
  \A p \in Parties : Exists(p) =>
    /\ p \notin overtaken =>
         \A queries \in SUBSET Queries : \A hits \in MatchParties(queries) :
           /\ p \in hits => Gave(p, queries)
           /\ Gave(p, queries) => p \in hits \/ Full(hits)
    /\ vetted[p] \subseteq values[p]
=============================================================================
