----------------------------- MODULE ManagedMedia -----------------------------
(***************************************************************************)
(* Storage profiles of a tenant, and the media stored under them: objects  *)
(* put into the storage before the row that names them is committed, and   *)
(* deleted again when it is not; public addresses registered without a     *)
(* fetch.                                                                  *)
(*                                                                         *)
(* Profiles in the mode CLIENT_BUCKET are refused by every operation and   *)
(* are left out.                                                           *)
(***************************************************************************)
EXTENDS Naturals

CONSTANTS Users,    \* requests that may be under way at the same time
          Profiles, \* ids of storage profiles
          Assets,   \* ids of media assets
          MaxCalls  \* bound: requests in a behaviour

VARIABLES profiles,  \* rows of marketing_storage_resource_profiles
          assets,    \* rows of marketing_media_assets
          objects,   \* assets whose bytes the storage holds
          call,      \* what each request has read, done and is about to do
          abandoned, \* assets whose request died, or could not delete, after the put
          unheard,   \* assets committed by a request that was told otherwise
          raced,     \* a set_default_profile that was not alone has committed
          calls      \* requests begun

vars == <<profiles, assets, objects, call, abandoned, unheard, raced, calls>>

Modes == {"FLEXITY_MANAGED", "CLIENT_PUBLIC_URL"}
Absent == [status |-> "absent"]
Rows == [mode : Modes, status : {"ACTIVE", "DISABLED"}, is_default : BOOLEAN]
AssetRows == [status : {"stored"}, mode : Modes, profile : Profiles]

Idle == [pc |-> "idle"]
\* What a profile request writes: a new row, a status, the default taken and given.
ProfileCalls ==
  [pc : {"decided"}, on : Profiles, row : Rows \cup {Absent},
   status : {"unchanged", "ACTIVE", "DISABLED"}, off : SUBSET Profiles, is_default : BOOLEAN,
   alone : BOOLEAN]
\* The first of the two reads of set_default_profile.
DefaultReads == [pc : {"row read"}, on : Profiles, seen : BOOLEAN, alone : BOOLEAN]
MediaCalls ==
  [pc : {"checked", "stored", "compensating", "committed"}, asset : Assets, row : AssetRows]

TypeOK ==
  /\ profiles \in [Profiles -> Rows \cup {Absent}]
  /\ assets \in [Assets -> AssetRows \cup {Absent}]
  /\ objects \subseteq Assets
  /\ \A u \in Users : call[u] \in {Idle} \cup ProfileCalls \cup DefaultReads \cup MediaCalls
  /\ abandoned \subseteq Assets
  /\ unheard \subseteq Assets
  /\ raced \in BOOLEAN
  /\ calls \in 0..MaxCalls

Init ==
  /\ profiles = [p \in Profiles |-> Absent]
  /\ assets = [a \in Assets |-> Absent]
  /\ objects = {}
  /\ call = [u \in Users |-> Idle]
  /\ abandoned = {}
  /\ unheard = {}
  /\ raced = FALSE
  /\ calls = 0

Exists(p) == profiles[p] # Absent
IsActive(p) == profiles[p].status = "ACTIVE"
IsDefault(p) == Exists(p) /\ profiles[p].is_default
ActiveIn(mode) == {p \in Profiles : IsActive(p) /\ profiles[p].mode = mode}
Defaults == {p \in Profiles : IsDefault(p)}

Begin(u, request) ==
  /\ call[u] = Idle
  /\ calls < MaxCalls
  /\ calls' = calls + 1
  /\ call' = [call EXCEPT ![u] = request]
  /\ UNCHANGED <<profiles, assets, objects, abandoned, unheard, raced>>

-----------------------------------------------------------------------------
(* Storage profiles.                                                       *)

Unchanged(p) ==
  [pc |-> "decided", on |-> p, row |-> Absent, status |-> "unchanged", off |-> {},
   is_default |-> FALSE, alone |-> TRUE]

Unused(p) ==
  ~Exists(p) /\ \A u \in Users : call[u] \in ProfileCalls => call[u].on # p

CreateProfile(u) ==
  \E p \in Profiles, row \in Rows :
    /\ Unused(p)
    /\ row.is_default => row.status = "ACTIVE" /\ Defaults = {}
    /\ row.status = "ACTIVE" => ActiveIn(row.mode) = {}
    /\ Begin(u, [Unchanged(p) EXCEPT !.row = row])

ActivateProfile(u) ==
  \E p \in Profiles :
    /\ Exists(p) /\ ~IsActive(p)
    /\ ActiveIn(profiles[p].mode) = {}
    /\ Begin(u, [Unchanged(p) EXCEPT !.status = "ACTIVE"])

\* A row read as disabled is not written.
DisableProfile(u) ==
  \E p \in Profiles :
    /\ Exists(p) /\ ~IsDefault(p)
    /\ Begin(u, [Unchanged(p) EXCEPT !.status = IF IsActive(p) THEN "DISABLED" ELSE "unchanged"])

SetDefaultProfile(u) ==
  \E p \in Profiles :
    /\ IsActive(p)
    /\ Begin(u, [pc |-> "row read", on |-> p, seen |-> IsDefault(p), alone |-> TRUE])

\* The second read finds the current default.  A row that was read as the default is
\* given the value it seems to have, and so is not written.
ReadDefault(u) ==
  /\ call[u].pc = "row read"
  /\ call' = [call EXCEPT ![u] =
       [Unchanged(call[u].on) EXCEPT !.off = Defaults \ {call[u].on},
                                     !.is_default = ~call[u].seen, !.alone = call[u].alone]]
  /\ UNCHANGED <<profiles, assets, objects, abandoned, unheard, raced, calls>>

Written(r) ==
  [p \in Profiles |->
     IF p = r.on /\ r.row # Absent THEN r.row
     ELSE IF ~Exists(p) THEN Absent
     ELSE [profiles[p] EXCEPT
             !.status = IF p = r.on /\ r.status # "unchanged" THEN r.status ELSE @,
             !.is_default = IF p \in r.off THEN FALSE ELSE @ \/ (p = r.on /\ r.is_default)]]

\* Mutant: the indexes alone; a row checked as no default may have become one.
Admitted_NoCheck(table) ==
  LET Active(mode) == {p \in Profiles : table[p].status = "ACTIVE" /\ table[p].mode = mode}
      Default == {p \in Profiles : table[p] # Absent /\ table[p].is_default}
  IN /\ \A mode \in Modes : \A p, q \in Active(mode) : p = q
     /\ \A p, q \in Default : p = q

\* The unique indexes and the check constraint of the table.
Admitted(table) ==
  LET Active(mode) == {p \in Profiles : table[p].status = "ACTIVE" /\ table[p].mode = mode}
      Default == {p \in Profiles : table[p] # Absent /\ table[p].is_default}
  IN /\ \A mode \in Modes : \A p, q \in Active(mode) : p = q
     /\ \A p, q \in Default : p = q
     /\ \A p \in Default : table[p].status = "ACTIVE"

ChoosesDefault(r) == r \in DefaultReads \/ (r \in ProfileCalls /\ (r.off # {} \/ r.is_default))

\* The requests that choose a default meanwhile are not alone.
Disturbed(u) ==
  [t \in Users |->
     IF t = u THEN Idle
     ELSE IF ChoosesDefault(call[u]) /\ ChoosesDefault(call[t])
       THEN [call[t] EXCEPT !.alone = FALSE] ELSE call[t]]

CommitProfile(u) ==
  /\ call[u] \in ProfileCalls
  /\ Admitted(Written(call[u]))
  /\ profiles' = Written(call[u])
  /\ raced' = (raced \/ ~call[u].alone)
  /\ call' = Disturbed(u)
  /\ UNCHANGED <<assets, objects, abandoned, unheard, calls>>

\* An integrity error or another failure: everything flushed is rolled back.
RefuseProfile(u) ==
  /\ call[u] \in ProfileCalls \cup DefaultReads
  /\ call' = [call EXCEPT ![u] = Idle]
  /\ UNCHANGED <<profiles, assets, objects, abandoned, unheard, raced, calls>>

-----------------------------------------------------------------------------
(* Media.                                                                  *)

Storable(a) ==
  /\ assets[a] = Absent
  /\ a \notin objects \cup abandoned
  /\ \A u \in Users : call[u] \in MediaCalls => call[u].asset # a

Checked(u, mode) ==
  \E a \in Assets, p \in ActiveIn(mode) :
    /\ Storable(a)
    /\ Begin(u, [pc |-> "checked", asset |-> a,
                 row |-> [status |-> "stored", mode |-> mode, profile |-> p]])

\* store_managed_media, up to the put; register_public_url, up to the commit, which is its
\* caller's: it only flushes, and no route calls it yet.
StoreManagedMedia(u) == Checked(u, "FLEXITY_MANAGED")
RegisterPublicUrl(u) == Checked(u, "CLIENT_PUBLIC_URL")

Managed(u) == call[u].row.mode = "FLEXITY_MANAGED"

PutObject(u) ==
  /\ call[u].pc = "checked" /\ Managed(u)
  /\ objects' = objects \cup {call[u].asset}
  /\ call' = [call EXCEPT ![u].pc = "stored"]
  /\ UNCHANGED <<profiles, assets, abandoned, unheard, raced, calls>>

Committing(u) == call[u].pc = "stored" \/ (call[u].pc = "checked" /\ ~Managed(u))

\* The profile may have been disabled by now: nobody looks again.
CommitAsset(u) ==
  /\ Committing(u)
  /\ assets' = [assets EXCEPT ![call[u].asset] = call[u].row]
  /\ call' = [call EXCEPT ![u].pc = "committed"]
  /\ UNCHANGED <<profiles, objects, abandoned, unheard, raced, calls>>

Compensating(u) == [call[u] EXCEPT !.pc = "compensating"]

\* The row is committed, and the acknowledgement lost with the connection.
LoseAcknowledgement(u) ==
  /\ Committing(u)
  /\ assets' = [assets EXCEPT ![call[u].asset] = call[u].row]
  /\ unheard' = unheard \cup {call[u].asset}
  /\ call' = [call EXCEPT ![u] = IF Managed(u) THEN Compensating(u) ELSE Idle]
  /\ UNCHANGED <<profiles, objects, abandoned, raced, calls>>

\* Mutant: db_commit_succeeded is not consulted.
Raise_Committed(u) ==
  /\ call[u].pc \in {"checked", "stored", "committed"}
  /\ call' = [call EXCEPT ![u] =
       IF call[u].pc # "checked" /\ Managed(u) THEN Compensating(u) ELSE Idle]
  /\ UNCHANGED <<profiles, assets, objects, abandoned, unheard, raced, calls>>

\* The put, the commit or the refresh after it fails.
Raise(u) ==
  /\ call[u].pc \in {"checked", "stored", "committed"}
  /\ call' = [call EXCEPT ![u] = IF call[u].pc = "stored" THEN Compensating(u) ELSE Idle]
  /\ UNCHANGED <<profiles, assets, objects, abandoned, unheard, raced, calls>>

DeleteObject(u) ==
  /\ call[u].pc = "compensating"
  /\ objects' = objects \ {call[u].asset}
  /\ call' = [call EXCEPT ![u] = Idle]
  /\ UNCHANGED <<profiles, assets, abandoned, unheard, raced, calls>>

Return(u) ==
  /\ call[u].pc = "committed"
  /\ call' = [call EXCEPT ![u] = Idle]
  /\ UNCHANGED <<profiles, assets, objects, abandoned, unheard, raced, calls>>

\* The process dies between the put and the commit, or the object cannot be deleted:
\* there is no sweeper.
Abandon(u) ==
  /\ call[u].pc \in {"stored", "compensating"}
  /\ abandoned' = abandoned \cup {call[u].asset}
  /\ call' = [call EXCEPT ![u] = Idle]
  /\ UNCHANGED <<profiles, assets, objects, unheard, raced, calls>>

\* resolve_resource: a managed asset is reached through a handle, which needs the object.
TemporaryAccess(a) == IF a \in objects THEN "temporary_handle" ELSE "object_not_found"

\* How a publish adapter reaches an asset.
Delivery(a) ==
  IF assets[a].mode = "CLIENT_PUBLIC_URL" THEN "external_registered" ELSE TemporaryAccess(a)

Ask(u) ==
  \/ CreateProfile(u) \/ ActivateProfile(u) \/ DisableProfile(u) \/ SetDefaultProfile(u)
  \/ StoreManagedMedia(u) \/ RegisterPublicUrl(u)

Continue(u) ==
  \/ ReadDefault(u) \/ CommitProfile(u) \/ RefuseProfile(u)
  \/ PutObject(u) \/ CommitAsset(u) \/ LoseAcknowledgement(u) \/ Raise(u)
  \/ DeleteObject(u) \/ Return(u) \/ Abandon(u)

Next == \E u \in Users : Ask(u) \/ Continue(u)

Spec == Init /\ [][Next]_vars

-----------------------------------------------------------------------------
(* Correctness.                                                            *)

\* The storage and the table agree: a stored asset can be delivered unless the request
\* that stored it was told its commit had failed, and an object that no row names
\* belongs to a request under way or to one that died or could not clean up.  Whatever
\* happens to the profiles meanwhile, and whichever of put, commit, refresh and delete
\* fails.
ObjectsAccounted ==
  /\ \A a \in Assets : assets[a] # Absent /\ a \notin unheard => Delivery(a) # "object_not_found"
  /\ \A a \in objects :
       \/ assets[a] # Absent
       \/ a \in abandoned
       \/ \E u \in Users : call[u].pc \in {"stored", "compensating"} /\ call[u].asset = a

\* A tenant that has a default profile keeps one, and it is active, as long as no two
\* requests that choose one overtake each other.
DefaultKept ==
  [][Defaults # {} /\ ~raced' => \E p \in Profiles : IsDefault(p)' /\ IsActive(p)']_vars
=============================================================================
