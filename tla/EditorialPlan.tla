----------------------------- MODULE EditorialPlan -----------------------------
(***************************************************************************)
(* From a content plan to publication packs: plans and their lines are     *)
(* drafted or imported, approved, turned into topics, and topics are taken *)
(* into packs.  No request locks what it reads; its commit writes the      *)
(* columns it changed, and inserts under the unique constraints.           *)
(* Left out: what can only refuse a request (the rubric of a line, the     *)
(* status a topic is given by hand, the slug of a pack), and topics marked *)
(* reusable, which may be taken any number of times.                       *)
(***************************************************************************)
EXTENDS Integers, FiniteSets

CONSTANTS Editors, Plans,
          Lines,     \* bound: slots for the lines of a plan
          Topics,    \* bound: topics that can be created
          Packs,     \* bound: packs that can be created
          Days,      \* bound: days of the calendar
          Periods,   \* bound: first and last day a plan may be given
          NoTopic, NoLine

ASSUME EditorialAssumption ==
  /\ Days \subseteq Nat \ {0} /\ Periods \subseteq {d \in Days \X Days : d[1] <= d[2]}
  /\ 1 \in Days /\ NoTopic \notin Topics /\ NoLine \notin (Plans \X Lines) \cup Lines

VARIABLES plans,   \* committed plans with their lines
          topics,  \* committed topics, and the line each was made from
          packs,   \* committed packs that are linked to a topic and not archived
          req      \* what the request of each editor has read and is about to write

vars == <<plans, topics, packs, req>>

PlanRows == [status : {"absent", "draft", "approved", "archived"}, first : Days, last : Days]

LineRows ==
  [status : {"absent", "draft", "approved", "topic_created", "cancelled"}, day : Days,
   topic : Topics \cup {NoTopic}]

Aggregates == [row : PlanRows, lines : [Lines -> LineRows]]

\* disturbed: a request has written the plan over a change it had not read.
PlanStates == [agg : Aggregates, disturbed : BOOLEAN]

TopicRows == [status : {"absent", "approved", "used"}, line : (Plans \X Lines) \cup {NoLine}]

\* unseen: the packs of the topic that were there when this one came, and that whoever
\* made it had not looked for, or had looked for before they came.
PackRows == [topic : Topics \cup {NoTopic}, unseen : SUBSET Packs]

Idle == [pc |-> "idle"]
Requests ==
  {Idle}
  \cup [pc : {"plan"}, plan : Plans, seen : Aggregates, new : Aggregates, line : Lines \cup {NoLine},
        topic : Topics \cup {NoTopic}, fresh : BOOLEAN]
  \cup [pc : {"take"}, topic : Topics, unseen : SUBSET Packs]

TypeOK ==
  /\ plans \in [Plans -> PlanStates]
  /\ topics \in [Topics -> TopicRows]
  /\ packs \in [Packs -> PackRows]
  /\ req \in [Editors -> Requests]

NoLineRow == [status |-> "absent", day |-> 1, topic |-> NoTopic]
NoPlan == [row |-> [status |-> "absent", first |-> 1, last |-> 1], lines |-> [l \in Lines |-> NoLineRow]]
NoPack == [topic |-> NoTopic, unseen |-> {}]

Init ==
  /\ plans = [p \in Plans |-> [agg |-> NoPlan, disturbed |-> FALSE]]
  /\ topics = [t \in Topics |-> [status |-> "absent", line |-> NoLine]]
  /\ packs = [k \in Packs |-> NoPack]
  /\ req = [e \in Editors |-> Idle]

-----------------------------------------------------------------------------
(* Requests on a plan.                                                     *)

\* A request that has read plan p and decided what to write; topic is one it inserts.
Decide(e, p, new, line, topic) ==
  /\ req[e] = Idle
  /\ req' = [req EXCEPT ![e] = [pc |-> "plan", plan |-> p, seen |-> plans[p].agg, new |-> new,
                                line |-> line, topic |-> topic, fresh |-> TRUE]]
  /\ UNCHANGED <<plans, topics, packs>>

Edit(e, p, new) == Decide(e, p, new, NoLine, NoTopic)

\* The plan and its lines, as a request reads them.
Agg(p) == plans[p].agg
IsDraft(p) == Agg(p).row.status = "draft"
Within(day, row) == day \in row.first .. row.last
Open(line) == line.status \notin {"absent", "cancelled"}

NewRow(d) == [status |-> "draft", first |-> d[1], last |-> d[2]]

CreatePlan(e) ==
  \E p \in Plans, d \in Periods :
    Agg(p).row.status = "absent" /\ Edit(e, p, [NoPlan EXCEPT !.row = NewRow(d)])

\* PlanDocument: a document has lines, and their dates lie in its period; 0 for no line.
Documents(d) ==
  {days \in [Lines -> Days \cup {0}] :
     /\ \E l \in Lines : days[l] # 0
     /\ \A l \in Lines : days[l] = 0 \/ Within(days[l], NewRow(d))}

\* commit of an import: one transaction inserts the plan and its lines.  Importing the
\* document again finds the plan by its fingerprint and changes nothing.
ImportPlan(e) ==
  \E p \in Plans, d \in Periods : \E days \in Documents(d) :
    /\ Agg(p).row.status = "absent"
    /\ Edit(e, p, [row |-> NewRow(d),
                   lines |-> [l \in Lines |-> IF days[l] = 0 THEN NoLineRow
                                              ELSE [NoLineRow EXCEPT !.status = "draft",
                                                                     !.day = days[l]]]])

UpdatePlan(e) ==
  \E p \in Plans, d \in Periods :
    LET new == [Agg(p) EXCEPT !.row.first = d[1], !.row.last = d[2]] IN
      /\ IsDraft(p)
      /\ \A l \in Lines : Open(new.lines[l]) => Within(new.lines[l].day, new.row)
      /\ Edit(e, p, new)

ApprovePlan(e) ==
  \E p \in Plans :
    LET open == {l \in Lines : Open(Agg(p).lines[l])} IN
      /\ IsDraft(p) /\ open # {}
      /\ \A l \in open : Agg(p).lines[l].status \in {"draft", "approved"}
      /\ Edit(e, p, [Agg(p) EXCEPT !.row.status = "approved",
                                   !.lines = [l \in Lines |-> IF l \in open
                                                THEN [@[l] EXCEPT !.status = "approved"] ELSE @[l]]])

\* An archived plan is left as it is.
ArchivePlan(e) ==
  \E p \in Plans :
    /\ Agg(p).row.status # "absent"
    /\ Edit(e, p, [Agg(p) EXCEPT !.row.status = "archived"])

CreateLine(e) ==
  \E p \in Plans, l \in Lines, day \in Days :
    /\ IsDraft(p) /\ Agg(p).lines[l].status = "absent" /\ Within(day, Agg(p).row)
    /\ Edit(e, p, [Agg(p) EXCEPT !.lines[l].status = "draft", !.lines[l].day = day])

UpdateLine(e) ==
  \E p \in Plans, l \in Lines, day \in Days :
    /\ IsDraft(p) /\ Agg(p).lines[l].status = "draft" /\ Within(day, Agg(p).row)
    /\ Edit(e, p, [Agg(p) EXCEPT !.lines[l].day = day])

CancelLine(e) ==
  \E p \in Plans, l \in Lines :
    /\ IsDraft(p) /\ Agg(p).lines[l].status = "draft"
    /\ Edit(e, p, [Agg(p) EXCEPT !.lines[l].status = "cancelled"])

\* Mutant: create_topic_from_item does not look whether the line has its topic already.
CreateTopic_Again(e) ==
  \E p \in Plans, l \in Lines, t \in Topics :
    /\ Agg(p).row.status = "approved" /\ Agg(p).lines[l].status \in {"approved", "topic_created"}
    /\ topics[t].status = "absent"
    /\ Decide(e, p, [Agg(p) EXCEPT !.lines[l].status = "topic_created", !.lines[l].topic = t], l, t)

\* create_topic_from_item; a repeated call repairs the status of the line at most.
CreateTopic(e) ==
  \E p \in Plans, l \in Lines :
    LET line == Agg(p).lines[l] IN
      /\ Agg(p).row.status = "approved"
      /\ \/ /\ line.topic # NoTopic /\ line.status # "topic_created"
            /\ Edit(e, p, [Agg(p) EXCEPT !.lines[l].status = "topic_created"])
         \/ /\ line.topic = NoTopic /\ line.status = "approved"
            /\ \E t \in Topics :
                 /\ topics[t].status = "absent"
                 /\ Decide(e, p, [Agg(p) EXCEPT !.lines[l].status = "topic_created",
                                                !.lines[l].topic = t], l, t)

\* The UPDATEs name only the columns that differ from what the session loaded.
Merged(now, seen, new) == [f \in DOMAIN now |-> IF new[f] = seen[f] THEN now[f] ELSE new[f]]

CommitPlan(e) ==
  /\ req[e].pc = "plan"
  /\ LET r == req[e]
         now == Agg(r.plan)
         row == Merged(now.row, r.seen.row, r.new.row)
         inserted == {l \in Lines : r.seen.lines[l].status = "absent" /\ r.new.lines[l].status # "absent"}
     IN /\ r.seen.row.status = "absent" => now.row.status = "absent"
        /\ \A l \in inserted : now.lines[l].status = "absent"
        /\ row.first <= row.last
        /\ plans' = [plans EXCEPT ![r.plan] =
             [agg |-> [row |-> row,
                       lines |-> [l \in Lines |-> Merged(now.lines[l], r.seen.lines[l], r.new.lines[l])]],
              disturbed |-> @.disturbed \/ ~r.fresh]]
        /\ r.topic # NoTopic => topics[r.topic].status = "absent"
        /\ topics' = IF r.topic = NoTopic THEN topics
                     ELSE [topics EXCEPT ![r.topic] = [status |-> "approved", line |-> <<r.plan, r.line>>]]
        /\ req' = [x \in Editors |-> IF x = e THEN Idle
                                     ELSE IF req[x].pc = "plan" /\ req[x].plan = r.plan
                                            THEN [req[x] EXCEPT !.fresh = FALSE] ELSE req[x]]
  /\ UNCHANGED packs

-----------------------------------------------------------------------------
(* Topics and packs.                                                       *)

Live(t) == {k \in Packs : packs[k].topic = t}

\* Mutant: a topic is taken although a pack of it is active.
TakeTopic_Taken(e) ==
  \E t \in Topics :
    /\ req[e] = Idle /\ topics[t].status = "approved"
    /\ req' = [req EXCEPT ![e] = [pc |-> "take", topic |-> t, unseen |-> {}]]
    /\ UNCHANGED <<plans, topics, packs>>

\* take_topic and _assert_take_allowed, up to the insert of the pack.
TakeTopic(e) ==
  \E t \in Topics :
    /\ req[e] = Idle /\ topics[t].status = "approved" /\ Live(t) = {}
    /\ req' = [req EXCEPT ![e] = [pc |-> "take", topic |-> t, unseen |-> {}]]
    /\ UNCHANGED <<plans, topics, packs>>

\* The requests once pack k of the topic is there: those about to take it looked before.
Overlooking(k, t) ==
  [x \in Editors |-> IF req[x].pc = "take" /\ req[x].topic = t
                     THEN [req[x] EXCEPT !.unseen = @ \cup {k}] ELSE req[x]]

\* create_draft_pack_with_texts inserts the pack; nothing looks at the others again.
CommitTake(e) ==
  \E k \in Packs :
    /\ req[e].pc = "take" /\ packs[k] = NoPack
    /\ packs' = [packs EXCEPT ![k] = [topic |-> req[e].topic, unseen |-> req[e].unseen]]
    /\ req' = [Overlooking(k, req[e].topic) EXCEPT ![e] = Idle]
    /\ UNCHANGED <<plans, topics>>

\* create_pack or a PATCH links a pack to a topic, whatever other packs it has; a PATCH or
\* an edit of its content brings an archived pack back.
PackByHand(t) ==
  /\ topics[t].status # "absent"
  /\ \E k \in Packs :
       /\ packs[k] = NoPack /\ packs' = [packs EXCEPT ![k] = [topic |-> t, unseen |-> Live(t)]]
       /\ req' = Overlooking(k, t)
  /\ UNCHANGED <<plans, topics>>

\* A PATCH to archived; from then on the pack counts for nothing.
ArchivePack(k) ==
  /\ packs[k] # NoPack
  /\ packs' = [j \in Packs |-> IF j = k THEN NoPack ELSE [packs[j] EXCEPT !.unseen = @ \ {k}]]
  /\ req' = [x \in Editors |-> IF req[x].pc = "take" THEN [req[x] EXCEPT !.unseen = @ \ {k}]
                               ELSE req[x]]
  /\ UNCHANGED <<plans, topics>>

\* A topic that is not reusable is used once and for all.
MarkUsed(t) ==
  /\ topics[t].status # "absent"
  /\ topics' = [topics EXCEPT ![t].status = "used"]
  /\ UNCHANGED <<plans, packs, req>>

\* A refused check, a violated constraint or a lost connection: rolled back.
Fail(e) ==
  /\ req[e] # Idle /\ req' = [req EXCEPT ![e] = Idle]
  /\ UNCHANGED <<plans, topics, packs>>

Next ==
  \/ \E e \in Editors :
       \/ CreatePlan(e) \/ ImportPlan(e) \/ UpdatePlan(e) \/ ApprovePlan(e) \/ ArchivePlan(e)
       \/ CreateLine(e) \/ UpdateLine(e) \/ CancelLine(e) \/ CreateTopic(e) \/ CommitPlan(e)
       \/ TakeTopic(e) \/ CommitTake(e) \/ Fail(e)
  \/ \E t \in Topics : PackByHand(t) \/ MarkUsed(t)
  \/ \E k \in Packs : ArchivePack(k)

Spec == Init /\ [][Next]_vars

-----------------------------------------------------------------------------
(* Correctness.                                                            *)

TopicsOf(p, l) == {t \in Topics : topics[t].line = <<p, l>>}

\* A plan that no overlapping requests have written is coherent: every open line lies in
\* the period, an approved plan has open lines and no draft among them, and a line has a
\* topic exactly when one was created from it, and then one only.
PlanCoherent ==
  \A p \in Plans : ~plans[p].disturbed =>
    LET plan == Agg(p) IN
      /\ \A l \in Lines : Open(plan.lines[l]) => Within(plan.lines[l].day, plan.row)
      /\ plan.row.status = "approved" =>
           /\ \E l \in Lines : Open(plan.lines[l])
           /\ \A l \in Lines : plan.lines[l].status # "draft"
      /\ \A l \in Lines :
           /\ plan.lines[l].topic # NoTopic <=> plan.lines[l].status = "topic_created"
           /\ TopicsOf(p, l) \subseteq {plan.lines[l].topic}

\* From end to end: a line gets a second live pack only from somebody who did not know of
\* the first: a take that had looked before the first was committed, for nothing looks
\* again at the insert, or a pack linked by hand, for which nothing looks at all.  Takes
\* of one topic that do not overlap never leave two.  (Unless requests overlapped on the plan.)
SecondPackOverlooked ==
  \A p \in Plans, l \in Lines : ~plans[p].disturbed =>
    LET live == {k \in Packs : packs[k].topic \in TopicsOf(p, l)}
    IN  \A j, k \in live : j # k => j \in packs[k].unseen \/ k \in packs[j].unseen
=============================================================================
