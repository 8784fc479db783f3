--------------------------- MODULE EditorialGuides ----------------------------
(***************************************************************************)
(* The marketing guides of a tenant, of which one is active and the        *)
(* replaced ones are kept as they were, and its directory of rubrics.      *)
(*                                                                         *)
(* list_active_guides_for_update locks nothing: what keeps two activations *)
(* apart is the partial unique index.  Texts are a stamp, the number of    *)
(* the request that wrote them.                                            *)
(***************************************************************************)
EXTENDS Naturals

CONSTANTS Editors,   \* requests that may be under way at the same time
          MaxGuides, \* bound: guide versions
          Codes,     \* codes of rubrics
          Defaults,  \* DEFAULT_RUBRIC_SEED
          MaxCalls   \* bound: requests in a behaviour

VARIABLES guides,    \* rows of marketing_guides, by version
          rubrics,   \* rows of marketing_rubrics: the status of each
          call,      \* what each request has read and is about to write
          overtaken, \* guides on which one request has overtaken another
          calls      \* requests begun

vars == <<guides, rubrics, call, overtaken, calls>>

Versions == 1..MaxGuides
Absent == [status |-> "absent"]
Guides == [status : {"draft", "active", "superseded"}, text : 1..MaxCalls]
RubricStatuses == {"active", "inactive", "archived"}

Idle == [pc |-> "idle"]
\* text: the new text, 0 for none.  replaces: the active guides the request has seen.
GuideCalls ==
  [pc : {"read", "decided"}, on : Versions, new : BOOLEAN, activate : BOOLEAN,
   text : 0..MaxCalls, replaces : SUBSET Versions]
\* seen: a status that is read and not changed is not written.
RubricCalls ==
  [pc : {"status"}, code : Codes, seen : RubricStatuses, status : RubricStatuses]
  \cup [pc : {"insert"}, codes : SUBSET Codes, status : RubricStatuses]

TypeOK ==
  /\ guides \in [Versions -> Guides \cup {Absent}]
  /\ rubrics \in [Codes -> RubricStatuses \cup {"absent"}]
  /\ \A u \in Editors : call[u] \in {Idle} \cup GuideCalls \cup RubricCalls
  /\ overtaken \subseteq Versions
  /\ calls \in 0..MaxCalls

Init ==
  /\ guides = [v \in Versions |-> Absent]
  /\ rubrics = [k \in Codes |-> "absent"]
  /\ call = [u \in Editors |-> Idle]
  /\ overtaken = {}
  /\ calls = 0

Exists(v) == guides[v] # Absent
ActiveIn(table) == {v \in Versions : table[v].status = "active"}
Active == ActiveIn(guides)

Begin(u, request) ==
  /\ call[u] = Idle
  /\ calls < MaxCalls
  /\ calls' = calls + 1
  /\ call' = [call EXCEPT ![u] = request]
  /\ UNCHANGED <<guides, rubrics, overtaken>>

-----------------------------------------------------------------------------
(* Guides.                                                                 *)

\* v is max_guide_version + 1: below it are the versions up to the last one there is.
NextVersion(v) == \A w \in Versions : w < v <=> \E last \in w .. MaxGuides : Exists(last)

CreateDraft(u) ==
  \E activate \in BOOLEAN, v \in Versions :
    /\ NextVersion(v)
    /\ Begin(u, [pc |-> IF activate THEN "read" ELSE "decided", on |-> v,
                 new |-> TRUE, activate |-> activate, text |-> calls + 1, replaces |-> {}])

\* guide_superseded_immutable is raised for what was read.
UpdateGuide(u) ==
  \E v \in Versions :
    /\ Exists(v) /\ guides[v].status # "superseded"
    /\ Begin(u, [pc |-> "decided", on |-> v, new |-> FALSE, activate |-> FALSE,
                 text |-> calls + 1, replaces |-> {}])

\* A guide that is read as active is left alone.
ActivateGuide(u) ==
  \E v \in Versions :
    /\ guides[v].status = "draft"
    /\ Begin(u, [pc |-> "read", on |-> v, new |-> FALSE, activate |-> TRUE,
                 text |-> 0, replaces |-> {}])

ListActiveGuides(u) ==
  /\ call[u].pc = "read"
  /\ call' = [call EXCEPT ![u].pc = "decided", ![u].replaces = Active \ {call[u].on}]
  /\ UNCHANGED <<guides, rubrics, overtaken, calls>>

Written(r) ==
  [v \in Versions |->
     IF v = r.on /\ r.new
       THEN [status |-> IF r.activate THEN "active" ELSE "draft", text |-> r.text]
     ELSE IF v = r.on
       THEN [status |-> IF r.activate THEN "active" ELSE guides[v].status,
             text |-> IF r.text = 0 THEN guides[v].text ELSE r.text]
     ELSE IF v \in r.replaces THEN [guides[v] EXCEPT !.status = "superseded"]
     ELSE guides[v]]

\* Mutant: without the partial unique index.
Admitted_Any(r) == r.new => ~Exists(r.on)

\* The unique constraint on the version and the partial unique index on active guides.
Admitted(r) ==
  /\ r.new => ~Exists(r.on)
  /\ \A v, w \in ActiveIn(Written(r)) : v = w

Touches(r) == IF r \in GuideCalls THEN {r.on} \cup r.replaces ELSE {}

CommitGuide(u) ==
  LET r == call[u]
      late == UNION {Touches(call[t]) : t \in Editors \ {u}}
  IN /\ r \in GuideCalls /\ r.pc = "decided"
     /\ Admitted(r)
     /\ guides' = Written(r)
     /\ overtaken' = overtaken \cup (Touches(r) \cap late)
     /\ call' = [call EXCEPT ![u] = Idle]
     /\ UNCHANGED <<rubrics, calls>>

-----------------------------------------------------------------------------
(* Rubrics.                                                                *)

CreateRubric(u) ==
  \E k \in Codes, status \in RubricStatuses :
    /\ rubrics[k] = "absent"
    /\ Begin(u, [pc |-> "insert", codes |-> {k}, status |-> status])

\* activate, deactivate, archive, or a PATCH with a status.
SetRubricStatus(u) ==
  \E k \in Codes, status \in RubricStatuses :
    /\ rubrics[k] # "absent"
    /\ Begin(u, [pc |-> "status", code |-> k, seen |-> rubrics[k], status |-> status])

\* Forced or not, the statuses of the rubrics that exist are left alone.
SeedDefaults(u) ==
  Begin(u, [pc |-> "insert", codes |-> {k \in Defaults : rubrics[k] = "absent"},
            status |-> "active"])

CommitRubric(u) ==
  LET r == call[u] IN
  /\ r.pc = "status"
  /\ rubrics' = [rubrics EXCEPT ![r.code] = IF r.seen = r.status THEN @ ELSE r.status]
  /\ call' = [call EXCEPT ![u] = Idle]
  /\ UNCHANGED <<guides, overtaken, calls>>

\* A code that somebody else inserted meanwhile refuses the whole seed.
CommitInsert(u) ==
  LET r == call[u] IN
  /\ r.pc = "insert"
  /\ \A k \in r.codes : rubrics[k] = "absent"
  /\ rubrics' = [k \in Codes |-> IF k \in r.codes THEN r.status ELSE rubrics[k]]
  /\ call' = [call EXCEPT ![u] = Idle]
  /\ UNCHANGED <<guides, overtaken, calls>>

\* A conflict or another failure: everything flushed is rolled back.
Refuse(u) ==
  /\ call[u] # Idle
  /\ call' = [call EXCEPT ![u] = Idle]
  /\ UNCHANGED <<guides, rubrics, overtaken, calls>>

Ask(u) ==
  \/ CreateDraft(u) \/ UpdateGuide(u) \/ ActivateGuide(u)
  \/ CreateRubric(u) \/ SetRubricStatus(u) \/ SeedDefaults(u)

Continue(u) ==
  ListActiveGuides(u) \/ CommitGuide(u) \/ CommitRubric(u) \/ CommitInsert(u) \/ Refuse(u)

Next == \E u \in Editors : Ask(u) \/ Continue(u)

Spec == Init /\ [][Next]_vars

-----------------------------------------------------------------------------
(* Correctness.                                                            *)

\* A tenant that has an active guide has exactly one from then on, however activations
\* overlap, and a superseded guide keeps its status and its text, unless a request read
\* it before it was superseded and wrote it after.
GuideHistoryKept ==
  [][/\ Active # {} => \E v \in Versions : Active' = {v}
     /\ \A v \in Versions \ overtaken' :
          guides[v].status = "superseded" => guides'[v] = guides[v]]_vars
=============================================================================
