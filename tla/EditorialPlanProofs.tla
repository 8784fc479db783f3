--------------------------- MODULE EditorialPlanProofs ---------------------------
(***************************************************************************)
(* Theorems about EditorialPlan, for any editors, plans, lines, topics,    *)
(* packs and days.                                                         *)
(*                                                                         *)
(* What a request writes follows from what it has read: if that was sound, *)
(* so is what it writes.  A request is fresh as long as nobody has         *)
(* committed since it read, so a plan that only fresh requests have        *)
(* written is what the last of them decided, without the columns of two    *)
(* requests being mixed.                                                   *)
(***************************************************************************)
EXTENDS EditorialPlan, FiniteSetTheorems, TLAPS

\* A plan with its lines, as one request may leave it.
Sound(plan) ==
  /\ \A l \in Lines : Open(plan.lines[l]) => Within(plan.lines[l].day, plan.row)
  /\ plan.row.status = "approved" =>
       /\ \E l \in Lines : Open(plan.lines[l])
       /\ \A l \in Lines : plan.lines[l].status # "draft"
  /\ \A l \in Lines : plan.lines[l].topic # NoTopic <=> plan.lines[l].status = "topic_created"
  /\ plan.row.status = "absent" => \A l \in Lines : plan.lines[l].status = "absent"

\* What a request that inserts a topic, if it does, may write over what it has read.
Follows(seen, new, line, topic) ==
  /\ topic # NoTopic => line \in Lines
  /\ Sound(seen) =>
       /\ Sound(new)
       /\ topic # NoTopic => seen.lines[line].topic = NoTopic
       /\ \A l \in Lines :
            new.lines[l].topic = IF topic # NoTopic /\ l = line THEN topic ELSE seen.lines[l].topic

Planned ==
  \A e \in Editors : req[e].pc = "plan" =>
    /\ Follows(req[e].seen, req[e].new, req[e].line, req[e].topic)
    /\ req[e].fresh => req[e].seen = Agg(req[e].plan)

Coherent ==
  \A p \in Plans : ~plans[p].disturbed =>
    /\ Sound(Agg(p))
    /\ \A l \in Lines : TopicsOf(p, l) \subseteq {Agg(p).lines[l].topic}

PlanInv == TypeOK /\ Planned /\ Coherent

\* A request that is about to take a topic has overlooked every live pack of it, and of two
\* live packs one was overlooked by whoever made the other.
Overlooked(j, k) == j \in packs[k].unseen \/ k \in packs[j].unseen

Taken ==
  /\ \A e \in Editors : req[e].pc = "take" => Live(req[e].topic) \subseteq req[e].unseen
  /\ \A t \in Topics : \A j, k \in Live(t) : j # k => Overlooked(j, k)

-----------------------------------------------------------------------------
(* Merging columns.                                                        *)

LEMMA MergedRow ==
  ASSUME NEW now \in PlanRows, NEW seen \in PlanRows, NEW new \in PlanRows
  PROVE  /\ Merged(now, seen, new) \in PlanRows
         /\ seen = now => Merged(now, seen, new) = new
BY DEF Merged, PlanRows

LEMMA MergedLine ==
  ASSUME NEW now \in LineRows, NEW seen \in LineRows, NEW new \in LineRows
  PROVE  /\ Merged(now, seen, new) \in LineRows
         /\ seen = now => Merged(now, seen, new) = new
BY DEF Merged, LineRows

LEMMA AggregateFields ==
  ASSUME NEW plan \in Aggregates
  PROVE  /\ plan.row \in PlanRows /\ plan.lines \in [Lines -> LineRows]
         /\ plan = [row |-> plan.row, lines |-> plan.lines]
         /\ \A l \in Lines : plan.lines[l] \in LineRows
BY DEF Aggregates

LEMMA RequestFields ==
  ASSUME TypeOK, NEW e \in Editors
  PROVE  /\ req[e] \in Requests
         /\ req[e].pc = "plan" =>
              /\ req[e].plan \in Plans /\ req[e].seen \in Aggregates /\ req[e].new \in Aggregates
              /\ req[e].line \in Lines \cup {NoLine} /\ req[e].topic \in Topics \cup {NoTopic}
              /\ req[e].fresh \in BOOLEAN
         /\ req[e].pc = "take" => req[e].topic \in Topics /\ req[e].unseen \in SUBSET Packs
<1>1. req[e] \in Requests
  BY DEF TypeOK
<1>. QED BY <1>1 DEF Requests, Idle

LEMMA AggTyped ==
  ASSUME TypeOK, NEW p \in Plans
  PROVE  Agg(p) \in Aggregates /\ plans[p].disturbed \in BOOLEAN
BY DEF TypeOK, PlanStates, Agg

LEMMA NoPlanTyped ==
  /\ NoLineRow \in LineRows /\ NoPlan \in Aggregates /\ Sound(NoPlan)
  /\ \A d \in Periods : NewRow(d) \in PlanRows /\ d[1] \in Days /\ d[2] \in Days
<1>1. NoLineRow \in LineRows
  BY EditorialAssumption DEF NoLineRow, LineRows
<1>2. NoPlan \in Aggregates
  BY <1>1, EditorialAssumption DEF NoPlan, Aggregates, PlanRows
<1>3. Sound(NoPlan)
  BY DEF Sound, NoPlan, NoLineRow, Open
<1>4. \A d \in Periods : NewRow(d) \in PlanRows /\ d[1] \in Days /\ d[2] \in Days
  BY EditorialAssumption DEF NewRow, PlanRows
<1>. QED BY <1>1, <1>2, <1>3, <1>4
-----------------------------------------------------------------------------
(* What requests decide.                                                   *)

Decides(e) ==
  \E p \in Plans, new \in Aggregates, line \in Lines \cup {NoLine}, topic \in Topics \cup {NoTopic} :
    Decide(e, p, new, line, topic) /\ Follows(Agg(p), new, line, topic)

LEMMA EditDecides ==
  ASSUME NEW e \in Editors, NEW p \in Plans, NEW new \in Aggregates, Edit(e, p, new),
         Sound(Agg(p)) =>
           Sound(new) /\ \A l \in Lines : new.lines[l].topic = Agg(p).lines[l].topic
  PROVE  Decides(e)
<1>1. Follows(Agg(p), new, NoLine, NoTopic)
  BY DEF Follows
<1>. QED BY <1>1 DEF Edit, Decides

LEMMA CreatePlanDecides ==
  ASSUME TypeOK, NEW e \in Editors, CreatePlan(e)
  PROVE  Decides(e)
<1>1. PICK p \in Plans, d \in Periods :
        Agg(p).row.status = "absent" /\ Edit(e, p, [NoPlan EXCEPT !.row = NewRow(d)])
  BY DEF CreatePlan
<1>. DEFINE new == [NoPlan EXCEPT !.row = NewRow(d)]
<1>2. /\ new.row = NewRow(d) /\ new.lines = [l \in Lines |-> NoLineRow]
      /\ new \in Aggregates
  BY NoPlanTyped DEF NoPlan, Aggregates
<1>3. Sound(new)
  BY <1>2 DEF Sound, NoLineRow, Open, NewRow
<1>4. Sound(Agg(p)) => \A l \in Lines : Agg(p).lines[l].topic = NoTopic
  BY <1>1 DEF Sound
<1>5. \A l \in Lines : new.lines[l].topic = NoTopic
  BY <1>2 DEF NoLineRow
<1>. QED BY <1>1, <1>2, <1>3, <1>4, <1>5, EditDecides

LEMMA ImportPlanDecides ==
  ASSUME TypeOK, NEW e \in Editors, ImportPlan(e)
  PROVE  Decides(e)
<1>. DEFINE Line(day) == IF day = 0 THEN NoLineRow
                         ELSE [NoLineRow EXCEPT !.status = "draft", !.day = day]
            New(d, days) == [row |-> NewRow(d), lines |-> [l \in Lines |-> Line(days[l])]]
<1>7. PICK p \in Plans, d \in Periods :
        \E days \in Documents(d) : Agg(p).row.status = "absent" /\ Edit(e, p, New(d, days))
  BY DEF ImportPlan
<1>1. PICK days \in Documents(d) : Agg(p).row.status = "absent" /\ Edit(e, p, New(d, days))
  BY <1>7
<1>2. ASSUME NEW l \in Lines
      PROVE  /\ days[l] = 0 \/ Within(days[l], NewRow(d))
             /\ Line(days[l]) \in LineRows /\ Line(days[l]).topic = NoTopic
             /\ Line(days[l]).status = IF days[l] = 0 THEN "absent" ELSE "draft"
             /\ days[l] # 0 => Line(days[l]).day = days[l]
  BY <1>1, NoPlanTyped DEF Documents, NoLineRow, LineRows
<1>3. New(d, days) \in Aggregates
  BY <1>2, NoPlanTyped DEF Aggregates
<1>4. Sound(New(d, days))
  <2>1. New(d, days).row = NewRow(d) /\ \A l \in Lines : New(d, days).lines[l] = Line(days[l])
    OBVIOUS
  <2>2. NewRow(d).status = "draft"
    BY DEF NewRow
  <2>. HIDE DEF New, Line
  <2>. QED BY <1>2, <2>1, <2>2 DEF Sound, Open
<1>5. Sound(Agg(p)) => \A l \in Lines : Agg(p).lines[l].topic = NoTopic
  BY <1>1 DEF Sound
<1>6. \A l \in Lines : New(d, days).lines[l].topic = NoTopic
  BY <1>2
<1>. QED BY <1>1, <1>3, <1>4, <1>5, <1>6, EditDecides

LEMMA UpdatePlanDecides ==
  ASSUME TypeOK, NEW e \in Editors, UpdatePlan(e)
  PROVE  Decides(e)
<1>. DEFINE New(p, d) == [Agg(p) EXCEPT !.row.first = d[1], !.row.last = d[2]]
<1>1. PICK p \in Plans, d \in Periods :
        /\ IsDraft(p)
        /\ \A l \in Lines : Open(New(p, d).lines[l]) => Within(New(p, d).lines[l].day, New(p, d).row)
        /\ Edit(e, p, New(p, d))
  BY DEF UpdatePlan
<1>2. /\ New(p, d) \in Aggregates
      /\ New(p, d).lines = Agg(p).lines /\ New(p, d).row.status = "draft"
  BY <1>1, NoPlanTyped, AggTyped DEF Aggregates, PlanRows, IsDraft
<1>3. Sound(Agg(p)) => Sound(New(p, d))
  BY <1>1, <1>2 DEF Sound
<1>. QED BY <1>1, <1>2, <1>3, EditDecides

LEMMA ApprovePlanDecides ==
  ASSUME TypeOK, NEW e \in Editors, ApprovePlan(e)
  PROVE  Decides(e)
<1>. DEFINE IsOpen(p, l) == l \in {x \in Lines : Open(Agg(p).lines[x])}
            New(p) == [Agg(p) EXCEPT !.row.status = "approved",
                         !.lines = [l \in Lines |-> IF IsOpen(p, l)
                                      THEN [@[l] EXCEPT !.status = "approved"] ELSE @[l]]]
<1>1. PICK p \in Plans :
        /\ \E l \in Lines : IsOpen(p, l)
        /\ \A l \in Lines : IsOpen(p, l) => Agg(p).lines[l].status \in {"draft", "approved"}
        /\ Edit(e, p, New(p))
  BY DEF ApprovePlan
<1>2. Agg(p) \in Aggregates /\ Agg(p).row \in PlanRows
  BY AggTyped, AggregateFields
<1>3. New(p).row = [Agg(p).row EXCEPT !.status = "approved"]
  BY <1>2 DEF Aggregates
<1>4. New(p).lines = [l \in Lines |-> IF IsOpen(p, l)
                        THEN [Agg(p).lines[l] EXCEPT !.status = "approved"] ELSE Agg(p).lines[l]]
  BY <1>2 DEF Aggregates
<1>5. New(p).row \in PlanRows /\ New(p).row.status = "approved"
      /\ New(p).row.first = Agg(p).row.first /\ New(p).row.last = Agg(p).row.last
  BY <1>2, <1>3 DEF PlanRows
<1>6. ASSUME NEW l \in Lines
      PROVE  /\ New(p).lines[l] \in LineRows
             /\ New(p).lines[l].day = Agg(p).lines[l].day
             /\ New(p).lines[l].topic = Agg(p).lines[l].topic
             /\ New(p).lines[l].status = IF IsOpen(p, l) THEN "approved" ELSE Agg(p).lines[l].status
  <2>1. Agg(p).lines[l] \in LineRows
    BY <1>2, AggregateFields
  <2>2. New(p).lines[l] = IF IsOpen(p, l) THEN [Agg(p).lines[l] EXCEPT !.status = "approved"]
                          ELSE Agg(p).lines[l]
    BY <1>4
  <2>. HIDE DEF New, IsOpen
  <2>. QED BY <2>1, <2>2 DEF LineRows
<1>7. New(p) \in Aggregates
  BY <1>2, <1>4, <1>5, <1>6 DEF Aggregates
<1>8. ASSUME Sound(Agg(p)) PROVE Sound(New(p))
  <2>1. \A l \in Lines : IsOpen(p, l) <=> Open(New(p).lines[l])
    BY <1>6 DEF Open
  <2>2. \A l \in Lines : Open(New(p).lines[l]) => Within(New(p).lines[l].day, New(p).row)
    BY <1>5, <1>6, <1>8, <2>1 DEF Sound, Within
  <2>3. /\ \E l \in Lines : Open(New(p).lines[l])
        /\ \A l \in Lines : New(p).lines[l].status # "draft"
    BY <1>1, <1>6, <2>1 DEF Open
  <2>4. \A l \in Lines :
          New(p).lines[l].topic # NoTopic <=> New(p).lines[l].status = "topic_created"
    BY <1>1, <1>6, <1>8 DEF Sound
  <2>. HIDE DEF New, IsOpen
  <2>. QED BY <1>5, <2>2, <2>3, <2>4 DEF Sound
<1>. HIDE DEF New, IsOpen
<1>. QED BY <1>1, <1>6, <1>7, <1>8, EditDecides

LEMMA ArchivePlanDecides ==
  ASSUME TypeOK, NEW e \in Editors, ArchivePlan(e)
  PROVE  Decides(e)
<1>1. PICK p \in Plans : Edit(e, p, [Agg(p) EXCEPT !.row.status = "archived"])
  BY DEF ArchivePlan
<1>. DEFINE new == [Agg(p) EXCEPT !.row.status = "archived"]
<1>2. /\ new \in Aggregates /\ new.lines = Agg(p).lines /\ new.row.status = "archived"
      /\ new.row.first = Agg(p).row.first /\ new.row.last = Agg(p).row.last
  BY AggTyped DEF Aggregates, PlanRows
<1>. HIDE DEF new
<1>3. Sound(Agg(p)) => Sound(new)
  BY <1>2 DEF Sound, Within
<1>. QED BY <1>1, <1>2, <1>3, EditDecides DEF new
\* A request that changes the day or the status of one line that is absent or a draft.
LEMMA LineDecides ==
  ASSUME TypeOK, NEW e \in Editors, NEW p \in Plans, NEW l \in Lines, NEW new,
         Edit(e, p, new), IsDraft(p),
         NEW to \in LineRows, new = [Agg(p) EXCEPT !.lines[l] = to],
         Agg(p).lines[l].status \in {"absent", "draft"}, to.status \in {"draft", "cancelled"},
         to.topic = Agg(p).lines[l].topic, Open(to) => Within(to.day, Agg(p).row)
  PROVE  Decides(e)
<1>1. Agg(p) \in Aggregates
  BY AggTyped
<1>2. /\ new \in Aggregates /\ new.row = Agg(p).row
      /\ \A x \in Lines : new.lines[x] = IF x = l THEN to ELSE Agg(p).lines[x]
  BY <1>1 DEF Aggregates
<1>3. Sound(Agg(p)) => Sound(new)
  BY <1>2 DEF Sound, IsDraft
<1>. QED BY <1>2, <1>3, EditDecides

LEMMA LinesDecide ==
  ASSUME TypeOK, NEW e \in Editors, CreateLine(e) \/ UpdateLine(e) \/ CancelLine(e)
  PROVE  Decides(e)
<1>1. PICK p \in Plans, l \in Lines, to \in LineRows :
        /\ Edit(e, p, [Agg(p) EXCEPT !.lines[l] = to]) /\ IsDraft(p)
        /\ Agg(p).lines[l].status \in {"absent", "draft"} /\ to.status \in {"draft", "cancelled"}
        /\ to.topic = Agg(p).lines[l].topic
        /\ Open(to) => Within(to.day, Agg(p).row)
  <2>1. CASE CreateLine(e)
    <3>1. PICK p \in Plans, l \in Lines, day \in Days :
            /\ IsDraft(p) /\ Agg(p).lines[l].status = "absent" /\ Within(day, Agg(p).row)
            /\ Edit(e, p, [Agg(p) EXCEPT !.lines[l].status = "draft", !.lines[l].day = day])
      BY <2>1 DEF CreateLine
    <3>. DEFINE to == [Agg(p).lines[l] EXCEPT !.status = "draft", !.day = day]
    <3>4. Agg(p).lines[l] \in LineRows
      BY AggTyped, AggregateFields
    <3>2. to \in LineRows /\ to.status = "draft" /\ to.topic = Agg(p).lines[l].topic /\ to.day = day
      BY <3>4 DEF LineRows
    <3>3. [Agg(p) EXCEPT !.lines[l].status = "draft", !.lines[l].day = day]
            = [Agg(p) EXCEPT !.lines[l] = to]
      BY AggTyped DEF Aggregates, LineRows
    <3>. HIDE DEF to
    <3>. QED BY <3>1, <3>2, <3>3
  <2>2. CASE UpdateLine(e)
    <3>1. PICK p \in Plans, l \in Lines, day \in Days :
            /\ IsDraft(p) /\ Agg(p).lines[l].status = "draft" /\ Within(day, Agg(p).row)
            /\ Edit(e, p, [Agg(p) EXCEPT !.lines[l].day = day])
      BY <2>2 DEF UpdateLine
    <3>. DEFINE to == [Agg(p).lines[l] EXCEPT !.day = day]
    <3>2. to \in LineRows /\ to.status = "draft" /\ to.topic = Agg(p).lines[l].topic /\ to.day = day
      BY <3>1, AggTyped, AggregateFields DEF LineRows
    <3>3. [Agg(p) EXCEPT !.lines[l].day = day] = [Agg(p) EXCEPT !.lines[l] = to]
      BY AggTyped DEF Aggregates, LineRows
    <3>. HIDE DEF to
    <3>. QED BY <3>1, <3>2, <3>3
  <2>3. CASE CancelLine(e)
    <3>1. PICK p \in Plans, l \in Lines :
            /\ IsDraft(p) /\ Agg(p).lines[l].status = "draft"
            /\ Edit(e, p, [Agg(p) EXCEPT !.lines[l].status = "cancelled"])
      BY <2>3 DEF CancelLine
    <3>. DEFINE to == [Agg(p).lines[l] EXCEPT !.status = "cancelled"]
    <3>2. to \in LineRows /\ to.status = "cancelled" /\ to.topic = Agg(p).lines[l].topic
      BY AggTyped, AggregateFields DEF LineRows
    <3>3. [Agg(p) EXCEPT !.lines[l].status = "cancelled"] = [Agg(p) EXCEPT !.lines[l] = to]
      BY AggTyped DEF Aggregates, LineRows
    <3>4. ~Open(to)
      BY <3>2 DEF Open
    <3>. HIDE DEF to
    <3>. QED BY <3>1, <3>2, <3>3, <3>4
  <2>. QED BY <2>1, <2>2, <2>3
<1>. QED BY <1>1, LineDecides

LEMMA CreateTopicDecides ==
  ASSUME TypeOK, NEW e \in Editors, CreateTopic(e)
  PROVE  Decides(e)
<1>. DEFINE Line(p, l) == Agg(p).lines[l]
<1>1. PICK p \in Plans, l \in Lines :
        /\ Agg(p).row.status = "approved"
        /\ \/ /\ Line(p, l).topic # NoTopic /\ Line(p, l).status # "topic_created"
              /\ Edit(e, p, [Agg(p) EXCEPT !.lines[l].status = "topic_created"])
           \/ /\ Line(p, l).topic = NoTopic /\ Line(p, l).status = "approved"
              /\ \E t \in Topics :
                   /\ topics[t].status = "absent"
                   /\ Decide(e, p, [Agg(p) EXCEPT !.lines[l].status = "topic_created",
                                                  !.lines[l].topic = t], l, t)
  BY DEF CreateTopic
<1>2. Agg(p) \in Aggregates /\ Agg(p).lines[l] \in LineRows
  BY AggTyped, AggregateFields
<1>3. CASE Line(p, l).topic # NoTopic /\ Line(p, l).status # "topic_created"
  <2>1. [Agg(p) EXCEPT !.lines[l].status = "topic_created"] \in Aggregates
    BY <1>2 DEF Aggregates, LineRows
  <2>2. ~Sound(Agg(p))
    BY <1>3 DEF Sound
  <2>. QED BY <1>1, <1>3, <2>1, <2>2, EditDecides
<1>4. CASE Line(p, l).topic = NoTopic /\ Line(p, l).status = "approved"
  <2>1. PICK t \in Topics :
          Decide(e, p, [Agg(p) EXCEPT !.lines[l].status = "topic_created", !.lines[l].topic = t], l, t)
    BY <1>1, <1>4
  <2>. DEFINE to == [Agg(p).lines[l] EXCEPT !.status = "topic_created", !.topic = t]
              new == [Agg(p) EXCEPT !.lines[l] = to]
  <2>2. /\ to \in LineRows /\ to.status = "topic_created" /\ to.topic = t
        /\ to.day = Agg(p).lines[l].day
    BY <1>2 DEF LineRows
  <2>3. [Agg(p) EXCEPT !.lines[l].status = "topic_created", !.lines[l].topic = t] = new
    BY <1>2 DEF Aggregates, LineRows
  <2>. HIDE DEF to
  <2>4. /\ new \in Aggregates /\ new.row = Agg(p).row
        /\ \A x \in Lines : new.lines[x] = IF x = l THEN to ELSE Agg(p).lines[x]
    BY <1>2, <2>2 DEF Aggregates
  <2>5. t # NoTopic
    BY EditorialAssumption
  <2>. HIDE DEF new
  <2>6. Sound(Agg(p)) => Sound(new)
    <3>1. SUFFICES ASSUME Sound(Agg(p)) PROVE Sound(new)
      OBVIOUS
    <3>2. Open(Agg(p).lines[l]) /\ Open(to)
      BY <1>4, <2>2 DEF Open
    <3>. QED BY <1>1, <2>2, <2>4, <2>5, <3>1, <3>2 DEF Sound
  <2>7. Follows(Agg(p), new, l, t)
    BY <1>4, <2>2, <2>4, <2>5, <2>6 DEF Follows
  <2>. QED BY <2>1, <2>3, <2>4, <2>7 DEF Decides
<1>. QED BY <1>1, <1>3, <1>4

\* A decision changes nothing but the request that takes it.
LEMMA DecisionKeeps ==
  ASSUME PlanInv, NEW e \in Editors, Decides(e)
  PROVE  /\ PlanInv' /\ UNCHANGED <<plans, topics, packs>>
         /\ \A x \in Editors : req'[x].pc = "take" => req'[x] = req[x]
<1>1. PICK p \in Plans, new \in Aggregates, line \in Lines \cup {NoLine}, topic \in Topics \cup {NoTopic} :
        Decide(e, p, new, line, topic) /\ Follows(Agg(p), new, line, topic)
  BY DEF Decides
<1>. DEFINE r == [pc |-> "plan", plan |-> p, seen |-> plans[p].agg, new |-> new,
                  line |-> line, topic |-> topic, fresh |-> TRUE]
<1>2. req' = [req EXCEPT ![e] = r] /\ UNCHANGED <<plans, topics, packs>>
  BY <1>1 DEF Decide
<1>3. r \in Requests
  BY AggTyped DEF Requests, Agg, PlanInv
<1>4. r.pc = "plan" /\ r.seen = Agg(p) /\ r.plan = p /\ r.new = new /\ r.line = line /\ r.topic = topic
  BY DEF Agg
<1>. HIDE DEF r
<1>5. TypeOK'
  BY <1>2, <1>3 DEF TypeOK, PlanInv
<1>6. Coherent'
  BY <1>2 DEF PlanInv, Coherent, Agg, TopicsOf
<1>7. \A x \in Editors : req'[x] = IF x = e THEN r ELSE req[x]
  BY <1>2 DEF PlanInv, TypeOK
<1>8. Planned'
  BY <1>1, <1>2, <1>4, <1>7 DEF PlanInv, Planned, Agg
<1>. QED BY <1>2, <1>4, <1>5, <1>6, <1>7, <1>8 DEF PlanInv
-----------------------------------------------------------------------------
(* Commits of plans.                                                       *)

\* Requests that are ended or overtaken stay what they were, but for being fresh.
Aged(x) ==
  /\ req'[x].pc \in {req[x].pc, "idle"} /\ req'[x] \in Requests
  /\ req'[x].pc = "plan" =>
       /\ req'[x].plan = req[x].plan /\ req'[x].seen = req[x].seen /\ req'[x].new = req[x].new
       /\ req'[x].line = req[x].line /\ req'[x].topic = req[x].topic
       /\ req'[x].fresh => req[x].fresh
  /\ req'[x].pc = "take" => req'[x] = req[x]

LEMMA Ageing ==
  ASSUME TypeOK, NEW x \in Editors, req[x].pc # "idle",
         req'[x] \in {Idle, req[x], [req[x] EXCEPT !.fresh = FALSE]}
  PROVE  Aged(x)
<1>1. req[x] \in Requests
  BY DEF TypeOK
<1>2. CASE req'[x] = Idle
  BY <1>2 DEF Aged, Idle, Requests
<1>3. CASE req'[x] = req[x]
  BY <1>1, <1>3 DEF Aged
<1>4. CASE req'[x] = [req[x] EXCEPT !.fresh = FALSE]
  <2>1. CASE req[x].pc = "plan"
    BY <1>1, <1>4, <2>1 DEF Aged, Idle, Requests
  <2>2. CASE req[x].pc = "take"
    BY <1>1, <1>4, <2>2 DEF Aged, Idle, Requests
  <2>. QED BY <1>1, <2>1, <2>2 DEF Requests, Idle
<1>. QED BY <1>2, <1>3, <1>4

\* What a commit writes, and when it is what the request had decided.
Written(r) ==
  [row |-> Merged(Agg(r.plan).row, r.seen.row, r.new.row),
   lines |-> [l \in Lines |-> Merged(Agg(r.plan).lines[l], r.seen.lines[l], r.new.lines[l])]]

LEMMA Writes ==
  ASSUME TypeOK, NEW e \in Editors, req[e].pc = "plan"
  PROVE  /\ Written(req[e]) \in Aggregates
         /\ req[e].seen = Agg(req[e].plan) => Written(req[e]) = req[e].new
<1>. DEFINE r == req[e]
<1>1. r.plan \in Plans /\ r.seen \in Aggregates /\ r.new \in Aggregates /\ Agg(r.plan) \in Aggregates
  BY RequestFields, AggTyped
<1>2. /\ Agg(r.plan).row \in PlanRows /\ r.seen.row \in PlanRows /\ r.new.row \in PlanRows
      /\ \A l \in Lines : /\ Agg(r.plan).lines[l] \in LineRows /\ r.seen.lines[l] \in LineRows
                          /\ r.new.lines[l] \in LineRows
      /\ r.new = [row |-> r.new.row, lines |-> r.new.lines] /\ r.new.lines \in [Lines -> LineRows]
  BY <1>1, AggregateFields
<1>. HIDE DEF r
<1>3. /\ Merged(Agg(r.plan).row, r.seen.row, r.new.row) \in PlanRows
      /\ \A l \in Lines : Merged(Agg(r.plan).lines[l], r.seen.lines[l], r.new.lines[l]) \in LineRows
  BY <1>2, MergedRow, MergedLine
<1>4. ASSUME r.seen = Agg(r.plan)
      PROVE  /\ Merged(Agg(r.plan).row, r.seen.row, r.new.row) = r.new.row
             /\ \A l \in Lines : Merged(Agg(r.plan).lines[l], r.seen.lines[l], r.new.lines[l])
                                   = r.new.lines[l]
  BY <1>2, <1>4, MergedRow, MergedLine
<1>5. Written(r) \in Aggregates
  BY <1>3 DEF Written, Aggregates
<1>6. r.seen = Agg(r.plan) => Written(r) = r.new
  <2>1. r.seen = Agg(r.plan) => [l \in Lines |-> r.new.lines[l]] = r.new.lines
    BY <1>2
  <2>. QED BY <1>2, <1>4, <2>1 DEF Written
<1>. QED BY <1>5, <1>6 DEF r

\* The change of a commit, with everybody else's requests on the plan overtaken.
Commits(e) ==
  LET r == req[e] IN
    /\ req[e].pc = "plan"
    /\ plans' = [plans EXCEPT ![r.plan] =
                   [agg |-> Written(r), disturbed |-> plans[r.plan].disturbed \/ ~r.fresh]]
    /\ topics' = IF r.topic = NoTopic THEN topics
                 ELSE [topics EXCEPT ![r.topic] = [status |-> "approved", line |-> <<r.plan, r.line>>]]
    /\ packs' = packs
    /\ req' = [x \in Editors |->
                 IF x = e THEN Idle
                 ELSE IF req[x].pc = "plan" /\ req[x].plan = r.plan
                        THEN [req[x] EXCEPT !.fresh = FALSE] ELSE req[x]]

LEMMA CommitShape ==
  ASSUME NEW e \in Editors, CommitPlan(e)
  PROVE  Commits(e)
BY DEF CommitPlan, Commits, Written

LEMMA CommitPlanKeeps ==
  ASSUME PlanInv, NEW e \in Editors, CommitPlan(e)
  PROVE  /\ PlanInv' /\ packs' = packs
         /\ \A x \in Editors : req'[x].pc = "take" => req'[x] = req[x]
<1>. DEFINE r == req[e]
<1>1. Commits(e) /\ TypeOK
  BY CommitShape DEF PlanInv
<1>2. /\ r.plan \in Plans /\ r.seen \in Aggregates /\ r.new \in Aggregates
      /\ r.line \in Lines \cup {NoLine} /\ r.topic \in Topics \cup {NoTopic} /\ r.fresh \in BOOLEAN
      /\ Follows(r.seen, r.new, r.line, r.topic) /\ (r.fresh => r.seen = Agg(r.plan))
      /\ Written(r) \in Aggregates /\ (r.fresh => Written(r) = r.new)
  BY <1>1, RequestFields, Writes DEF Commits, PlanInv, Planned
<1>3. /\ plans' = [plans EXCEPT ![r.plan] =
                     [agg |-> Written(r), disturbed |-> plans[r.plan].disturbed \/ ~r.fresh]]
      /\ topics' = IF r.topic = NoTopic THEN topics
                   ELSE [topics EXCEPT ![r.topic] = [status |-> "approved", line |-> <<r.plan, r.line>>]]
      /\ packs' = packs
      /\ \A x \in Editors : req'[x] = IF x = e THEN Idle
                                      ELSE IF req[x].pc = "plan" /\ req[x].plan = r.plan
                                             THEN [req[x] EXCEPT !.fresh = FALSE] ELSE req[x]
      /\ req' = [x \in Editors |-> req'[x]]
  BY <1>1 DEF Commits
<1>. HIDE DEF r
<1>4. ASSUME NEW x \in Editors
      PROVE  /\ Aged(x)
             /\ req'[x].pc = "plan" /\ req'[x].fresh => req[x].plan # r.plan /\ req'[x] = req[x]
             /\ req'[x].pc = "take" => req'[x] = req[x]
  <2>1. CASE req[x].pc = "idle"
    <3>1. req[x] = Idle
      BY <1>1, <2>1 DEF TypeOK, Requests, Idle
    <3>. QED BY <1>3, <2>1, <3>1 DEF Aged, Idle, Requests
  <2>2. CASE req[x].pc # "idle"
    <3>1. req'[x] \in {Idle, req[x], [req[x] EXCEPT !.fresh = FALSE]}
      BY <1>3
    <3>2. Aged(x)
      BY <1>1, <2>2, <3>1, Ageing
    <3>3. req[x].pc = "plan" => ~[req[x] EXCEPT !.fresh = FALSE].fresh
      BY <1>1, RequestFields DEF Requests, Idle
    <3>4. Idle.pc = "idle" /\ [req[x] EXCEPT !.fresh = FALSE].pc = req[x].pc
      BY <1>1, RequestFields DEF Requests, Idle
    <3>. QED BY <1>3, <3>2, <3>3, <3>4
  <2>. QED BY <2>1, <2>2
<1>5. r.topic # NoTopic => r.line \in Lines
  BY <1>2 DEF Follows
<1>6. TypeOK'
  <2>1. plans' \in [Plans -> PlanStates]
    BY <1>1, <1>2, <1>3 DEF TypeOK, PlanStates
  <2>2. topics' \in [Topics -> TopicRows]
    BY <1>1, <1>2, <1>3, <1>5 DEF TypeOK, TopicRows
  <2>3. req' \in [Editors -> Requests]
    BY <1>3, <1>4 DEF Aged
  <2>. QED BY <1>1, <1>3, <2>1, <2>2, <2>3 DEF TypeOK
<1>7. \A p \in Plans : plans'[p] = IF p = r.plan
        THEN [agg |-> Written(r), disturbed |-> plans[r.plan].disturbed \/ ~r.fresh] ELSE plans[p]
  BY <1>1, <1>2, <1>3 DEF TypeOK
<1>8. Planned'
  <2>1. SUFFICES ASSUME NEW x \in Editors, req'[x].pc = "plan"
                 PROVE  /\ Follows(req'[x].seen, req'[x].new, req'[x].line, req'[x].topic)
                        /\ req'[x].fresh => req'[x].seen = plans'[req'[x].plan].agg
    BY DEF Planned, Agg
  <2>2. req[x].pc = "plan" /\ Follows(req[x].seen, req[x].new, req[x].line, req[x].topic)
        /\ req[x].plan \in Plans
    BY <1>1, <1>4, <2>1, RequestFields DEF Aged, PlanInv, Planned
  <2>3. Follows(req'[x].seen, req'[x].new, req'[x].line, req'[x].topic)
    BY <1>4, <2>1, <2>2 DEF Aged
  <2>4. ASSUME req'[x].fresh PROVE req'[x].seen = plans'[req'[x].plan].agg
    <3>1. req[x].plan # r.plan /\ req'[x] = req[x]
      BY <1>4, <2>1, <2>4
    <3>2. req[x].seen = Agg(req[x].plan)
      BY <2>2, <2>4, <3>1 DEF PlanInv, Planned
    <3>3. plans'[req[x].plan] = plans[req[x].plan]
      BY <1>7, <2>2, <3>1
    <3>. QED BY <3>1, <3>2, <3>3 DEF Agg
  <2>. QED BY <2>3, <2>4
<1>9. Coherent'
  <2>1. SUFFICES ASSUME NEW p \in Plans, ~plans'[p].disturbed
                 PROVE  /\ Sound(Agg(p)')
                        /\ \A l \in Lines : TopicsOf(p, l)' \subseteq {Agg(p)'.lines[l].topic}
    BY DEF Coherent
  <2>2. ASSUME NEW l \in Lines
        PROVE  TopicsOf(p, l)' \subseteq TopicsOf(p, l)
                 \cup (IF r.topic # NoTopic /\ p = r.plan /\ l = r.line THEN {r.topic} ELSE {})
    BY <1>1, <1>2, <1>3 DEF TopicsOf, TypeOK
  <2>3. CASE p # r.plan
    <3>1. Agg(p)' = Agg(p) /\ ~plans[p].disturbed
      BY <1>7, <2>1, <2>3 DEF Agg
    <3>. QED BY <2>2, <2>3, <3>1 DEF PlanInv, Coherent
  <2>4. CASE p = r.plan
    <3>5. plans'[p] = [agg |-> Written(r), disturbed |-> plans[r.plan].disturbed \/ ~r.fresh]
      BY <1>7, <2>4
    <3>6. plans'[p].agg = Written(r) /\ ~(plans[p].disturbed \/ ~r.fresh)
      <4>. DEFINE mark == plans[r.plan].disturbed \/ ~r.fresh
      <4>1. plans'[p] = [agg |-> Written(r), disturbed |-> mark]
        BY <3>5
      <4>. HIDE DEF mark
      <4>2. plans'[p].agg = Written(r) /\ plans'[p].disturbed = mark
        BY <4>1
      <4>3. ~mark
        BY <2>1, <4>2
      <4>. QED BY <2>4, <4>2, <4>3 DEF mark
    <3>1. ~plans[p].disturbed /\ r.fresh /\ Agg(p)' = Written(r)
      BY <1>2, <3>6 DEF Agg
    <3>2. Agg(p)' = r.new /\ r.seen = Agg(p)
      BY <1>2, <2>4, <3>1
    <3>3. Sound(r.seen) /\ \A l \in Lines : TopicsOf(p, l) \subseteq {r.seen.lines[l].topic}
      BY <3>1, <3>2 DEF PlanInv, Coherent
    <3>4. ASSUME NEW l \in Lines
          PROVE  TopicsOf(p, l)' \subseteq {r.new.lines[l].topic}
      <4>1. CASE r.topic # NoTopic /\ l = r.line
        <5>1. TopicsOf(p, l) = {}
          BY <1>2, <3>3, <4>1, EditorialAssumption DEF Follows, TopicsOf
        <5>. QED BY <1>2, <2>2, <3>3, <4>1, <5>1 DEF Follows
      <4>2. CASE ~(r.topic # NoTopic /\ l = r.line)
        BY <1>2, <2>2, <3>3, <4>2 DEF Follows
      <4>. QED BY <4>1, <4>2
    <3>. QED BY <1>2, <3>2, <3>3, <3>4 DEF Follows
  <2>. QED BY <2>3, <2>4
<1>. QED BY <1>3, <1>4, <1>6, <1>8, <1>9 DEF PlanInv
-----------------------------------------------------------------------------
(* Packs.                                                                  *)

\* Requests end, or are overtaken, and no plan is written.
LEMMA OthersKeepPlans ==
  ASSUME PlanInv, plans' = plans, packs' \in [Packs -> PackRows],
         req' \in [Editors -> Requests], topics' \in [Topics -> TopicRows],
         \A t \in Topics : topics'[t].line = topics[t].line,
         \A e \in Editors : req'[e].pc = "plan" => req'[e] = req[e]
  PROVE  PlanInv'
<1>1. TypeOK'
  BY DEF PlanInv, TypeOK
<1>2. Planned'
  BY DEF PlanInv, Planned, Agg
<1>3. Coherent'
  BY DEF PlanInv, Coherent, Agg, TopicsOf
<1>. QED BY <1>1, <1>2, <1>3 DEF PlanInv

\* What a take becomes when its unseen packs change.
LEMMA TakeFields ==
  ASSUME NEW r \in Requests, r.pc = "take", NEW missed \in SUBSET Packs
  PROVE  /\ r.topic \in Topics /\ r.unseen \in SUBSET Packs
         /\ [r EXCEPT !.unseen = missed] \in Requests
         /\ [r EXCEPT !.unseen = missed].pc = "take"
         /\ [r EXCEPT !.unseen = missed].topic = r.topic
         /\ [r EXCEPT !.unseen = missed].unseen = missed
<1>1. r \in [pc : {"take"}, topic : Topics, unseen : SUBSET Packs]
  BY DEF Requests, Idle
<1>2. [r EXCEPT !.unseen = missed] \in [pc : {"take"}, topic : Topics, unseen : SUBSET Packs]
  BY <1>1
<1>. QED BY <1>1, <1>2 DEF Requests

LEMMA TakeTopicKeeps ==
  ASSUME PlanInv, Taken, NEW e \in Editors, TakeTopic(e)
  PROVE  PlanInv' /\ Taken'
<1>1. PICK t \in Topics :
        /\ req[e] = Idle /\ topics[t].status = "approved" /\ Live(t) = {}
        /\ req' = [req EXCEPT ![e] = [pc |-> "take", topic |-> t, unseen |-> {}]]
        /\ UNCHANGED <<plans, topics, packs>>
  BY DEF TakeTopic
<1>. DEFINE r == [pc |-> "take", topic |-> t, unseen |-> {}]
<1>2. r \in Requests /\ r.pc = "take" /\ r.topic = t
  BY DEF Requests
<1>. HIDE DEF r
<1>3. \A x \in Editors : req'[x] = IF x = e THEN r ELSE req[x]
  BY <1>1 DEF PlanInv, TypeOK, r
<1>4. PlanInv'
  <2>1. req' \in [Editors -> Requests]
    BY <1>1, <1>2 DEF PlanInv, TypeOK, r
  <2>. QED BY <1>1, <1>2, <1>3, <2>1, OthersKeepPlans DEF PlanInv, TypeOK
<1>5. Taken'
  <2>1. ASSUME NEW x \in Editors, req'[x].pc = "take"
        PROVE  {j \in Packs : packs[j].topic = req'[x].topic} \subseteq req'[x].unseen
    <3>1. CASE x = e
      BY <1>1, <1>2, <1>3, <3>1 DEF Live
    <3>2. CASE x # e
      BY <1>3, <2>1, <3>2 DEF Taken, Live
    <3>. QED BY <3>1, <3>2
  <2>. QED BY <1>1, <2>1 DEF Taken, Live, Overlooked
<1>. QED BY <1>4, <1>5

\* A pack comes to a topic: whoever made it has overlooked the live packs of the topic, and
\* the requests about to take the topic have now overlooked this one.
LEMMA AddPack ==
  ASSUME PlanInv, Taken, NEW t \in Topics, NEW k \in Packs, NEW missed \in SUBSET Packs,
         packs[k] = NoPack, packs' = [packs EXCEPT ![k] = [topic |-> t, unseen |-> missed]],
         UNCHANGED <<plans, topics>>,
         Live(t) \subseteq missed,
         req' \in [Editors -> Requests],
         \A x \in Editors : req'[x] = Idle \/ req'[x] = Overlooking(k, t)[x]
  PROVE  PlanInv' /\ Taken'
<1>1. packs' \in [Packs -> PackRows]
  BY DEF PlanInv, TypeOK, PackRows
<1>2. \A j \in Packs : packs'[j] = IF j = k THEN [topic |-> t, unseen |-> missed] ELSE packs[j]
  BY DEF PlanInv, TypeOK
<1>3. \A u \in Topics : Live(u)' = IF u = t THEN Live(u) \cup {k} ELSE Live(u)
  BY <1>2, EditorialAssumption DEF Live, NoPack
<1>4. ASSUME NEW x \in Editors
      PROVE  /\ req'[x].pc = "plan" => req'[x] = req[x]
             /\ req'[x].pc = "take" =>
                  /\ req[x].pc = "take" /\ req'[x].topic = req[x].topic /\ req[x].topic \in Topics
                  /\ req'[x].unseen = IF req[x].topic = t THEN req[x].unseen \cup {k}
                                      ELSE req[x].unseen
  <2>1. CASE req'[x] = Idle
    BY <2>1 DEF Idle
  <2>2. CASE req'[x] = Overlooking(k, t)[x] /\ req[x].pc = "take" /\ req[x].topic = t
    <3>1. req[x] \in Requests /\ req[x].unseen \in SUBSET Packs
      BY <2>2, RequestFields DEF PlanInv
    <3>2. PICK more \in SUBSET Packs : more = req[x].unseen \cup {k}
      BY <3>1
    <3>3. req'[x] = [req[x] EXCEPT !.unseen = more]
      BY <2>2, <3>2 DEF Overlooking
    <3>4. /\ [req[x] EXCEPT !.unseen = more] \in Requests
          /\ [req[x] EXCEPT !.unseen = more].pc = "take"
          /\ [req[x] EXCEPT !.unseen = more].topic = req[x].topic
          /\ [req[x] EXCEPT !.unseen = more].unseen = more
          /\ req[x].topic \in Topics
      BY <2>2, <3>1, TakeFields
    <3>. QED BY <2>2, <3>2, <3>3, <3>4
  <2>3. CASE req'[x] = Overlooking(k, t)[x] /\ ~(req[x].pc = "take" /\ req[x].topic = t)
    <3>1. req'[x] = req[x]
      BY <2>3 DEF Overlooking
    <3>. QED BY <2>3, <3>1, RequestFields DEF PlanInv
  <2>. QED BY <2>1, <2>2, <2>3
<1>5. PlanInv'
  BY <1>1, <1>4, OthersKeepPlans DEF PlanInv, TypeOK
<1>6. ASSUME NEW x \in Editors, req'[x].pc = "take"
      PROVE  {j \in Packs : packs'[j].topic = req'[x].topic} \subseteq req'[x].unseen
  <2>1. Live(req[x].topic) \subseteq req[x].unseen
    BY <1>4, <1>6 DEF Taken
  <2>2. {j \in Packs : packs'[j].topic = req[x].topic} =
          IF req[x].topic = t THEN Live(req[x].topic) \cup {k} ELSE Live(req[x].topic)
    BY <1>3, <1>4, <1>6 DEF Live
  <2>3. /\ req'[x].topic = req[x].topic
        /\ req'[x].unseen = IF req[x].topic = t THEN req[x].unseen \cup {k} ELSE req[x].unseen
    BY <1>4, <1>6
  <2>4. CASE req[x].topic = t
    BY <2>1, <2>2, <2>3, <2>4
  <2>5. CASE req[x].topic # t
    BY <2>1, <2>2, <2>3, <2>5
  <2>. QED BY <2>4, <2>5
<1>7. ASSUME NEW u \in Topics, NEW i \in Live(u)', NEW j \in Live(u)', i # j
      PROVE  j \in packs'[i].unseen \/ i \in packs'[j].unseen
  <2>1. CASE i # k /\ j # k
    <3>1. i \in Live(u) /\ j \in Live(u) /\ i \in Packs /\ j \in Packs
      BY <1>3, <2>1 DEF Live
    <3>. QED BY <1>2, <1>7, <2>1, <3>1 DEF Taken, Overlooked
  <2>2. CASE i = k \/ j = k
    <3>1. packs'[k].unseen = missed /\ packs'[k].topic = t
      BY <1>2
    <3>2. u = t
      BY <2>2, <3>1 DEF Live
    <3>3. i = k => j \in Live(t)
      BY <1>3, <1>7, <3>2
    <3>4. j = k => i \in Live(t)
      BY <1>3, <1>7, <3>2
    <3>. QED BY <2>2, <3>1, <3>3, <3>4
  <2>. QED BY <2>1, <2>2
<1>8. Taken'
  <2>1. \A u \in Topics : \A i, j \in Live(u)' : i # j => Overlooked(i, j)'
    BY <1>7 DEF Overlooked
  <2>. QED BY <1>6, <2>1 DEF Taken, Live
<1>. QED BY <1>5, <1>8

\* Requests that a pack overtakes are still requests.
LEMMA OverlookingTyped ==
  ASSUME TypeOK, NEW k \in Packs, NEW t \in Topics
  PROVE  Overlooking(k, t) \in [Editors -> Requests]
<1>1. ASSUME NEW x \in Editors
      PROVE  Overlooking(k, t)[x] \in Requests
  <2>1. CASE req[x].pc = "take" /\ req[x].topic = t
    <3>1. req[x] \in Requests /\ req[x].unseen \in SUBSET Packs
      BY <2>1, RequestFields
    <3>2. PICK missed \in SUBSET Packs : missed = req[x].unseen \cup {k}
      BY <3>1
    <3>3. Overlooking(k, t)[x] = [req[x] EXCEPT !.unseen = missed]
      BY <2>1, <3>2 DEF Overlooking
    <3>4. [req[x] EXCEPT !.unseen = missed] \in Requests
      BY <2>1, <3>1, TakeFields
    <3>. QED BY <3>3, <3>4
  <2>2. CASE ~(req[x].pc = "take" /\ req[x].topic = t)
    BY <2>2 DEF Overlooking, TypeOK
  <2>. QED BY <2>1, <2>2
<1>. QED BY <1>1 DEF Overlooking

LEMMA CommitTakeKeeps ==
  ASSUME PlanInv, Taken, NEW e \in Editors, CommitTake(e)
  PROVE  PlanInv' /\ Taken'
<1>1. PICK k \in Packs :
        /\ req[e].pc = "take" /\ packs[k] = NoPack
        /\ packs' = [packs EXCEPT ![k] = [topic |-> req[e].topic, unseen |-> req[e].unseen]]
        /\ req' = [Overlooking(k, req[e].topic) EXCEPT ![e] = Idle]
        /\ UNCHANGED <<plans, topics>>
  BY DEF CommitTake
<1>2. /\ req[e].topic \in Topics /\ req[e].unseen \in SUBSET Packs
      /\ Live(req[e].topic) \subseteq req[e].unseen
  BY <1>1, RequestFields DEF PlanInv, Taken
<1>3. Overlooking(k, req[e].topic) \in [Editors -> Requests]
  BY <1>2, OverlookingTyped DEF PlanInv
<1>4. /\ req' \in [Editors -> Requests]
      /\ \A x \in Editors : req'[x] = Idle \/ req'[x] = Overlooking(k, req[e].topic)[x]
  BY <1>1, <1>3 DEF Requests
<1>. QED BY <1>1, <1>2, <1>4, AddPack

LEMMA PackByHandKeeps ==
  ASSUME PlanInv, Taken, NEW t \in Topics, PackByHand(t)
  PROVE  PlanInv' /\ Taken'
<1>1. PICK k \in Packs :
        /\ packs[k] = NoPack /\ packs' = [packs EXCEPT ![k] = [topic |-> t, unseen |-> Live(t)]]
        /\ req' = Overlooking(k, t) /\ UNCHANGED <<plans, topics>>
  BY DEF PackByHand
<1>2. Live(t) \in SUBSET Packs /\ req' \in [Editors -> Requests]
  BY <1>1, OverlookingTyped DEF Live, PlanInv
<1>. QED BY <1>1, <1>2, AddPack

LEMMA ArchivePackKeeps ==
  ASSUME PlanInv, Taken, NEW k \in Packs, ArchivePack(k)
  PROVE  PlanInv' /\ Taken'
<1>1. /\ packs' = [j \in Packs |-> IF j = k THEN NoPack ELSE [packs[j] EXCEPT !.unseen = @ \ {k}]]
      /\ req' = [x \in Editors |-> IF req[x].pc = "take" THEN [req[x] EXCEPT !.unseen = @ \ {k}]
                                   ELSE req[x]]
      /\ UNCHANGED <<plans, topics>>
  BY DEF ArchivePack
<1>2. ASSUME NEW j \in Packs, j # k
      PROVE  /\ packs'[j] \in PackRows /\ packs'[j].topic = packs[j].topic
             /\ packs'[j].unseen = packs[j].unseen \ {k}
  BY <1>1, <1>2 DEF PlanInv, TypeOK, PackRows
<1>3. packs'[k] = NoPack /\ NoPack \in PackRows
  BY <1>1 DEF NoPack, PackRows
<1>4. packs' \in [Packs -> PackRows]
  BY <1>1, <1>2, <1>3
<1>5. ASSUME NEW x \in Editors
      PROVE  /\ req'[x] \in Requests /\ req'[x].pc = req[x].pc
             /\ req'[x].pc # "take" => req'[x] = req[x]
             /\ req'[x].pc = "take" => /\ req'[x].topic = req[x].topic /\ req[x].topic \in Topics
                                       /\ req'[x].unseen = req[x].unseen \ {k}
  <2>1. CASE req[x].pc = "take"
    <3>1. req[x] \in Requests /\ req[x].unseen \in SUBSET Packs
      BY <2>1, RequestFields DEF PlanInv
    <3>2. PICK missed \in SUBSET Packs : missed = req[x].unseen \ {k}
      BY <3>1
    <3>3. req'[x] = [req[x] EXCEPT !.unseen = missed]
      BY <1>1, <2>1, <3>2
    <3>4. /\ [req[x] EXCEPT !.unseen = missed] \in Requests
          /\ [req[x] EXCEPT !.unseen = missed].pc = "take"
          /\ [req[x] EXCEPT !.unseen = missed].topic = req[x].topic
          /\ [req[x] EXCEPT !.unseen = missed].unseen = missed
          /\ req[x].topic \in Topics
      BY <2>1, <3>1, TakeFields
    <3>. QED BY <2>1, <3>2, <3>3, <3>4
  <2>2. CASE req[x].pc # "take"
    BY <1>1, <2>2 DEF PlanInv, TypeOK
  <2>. QED BY <2>1, <2>2
<1>6. req' \in [Editors -> Requests]
  BY <1>1, <1>5
<1>7. PlanInv'
  BY <1>1, <1>4, <1>5, <1>6, OthersKeepPlans DEF PlanInv, TypeOK
<1>8. \A t \in Topics : Live(t)' = Live(t) \ {k}
  BY <1>2, <1>3, EditorialAssumption DEF Live, NoPack
<1>9. ASSUME NEW x \in Editors, req'[x].pc = "take"
      PROVE  {j \in Packs : packs'[j].topic = req'[x].topic} \subseteq req'[x].unseen
  <2>1. Live(req[x].topic) \subseteq req[x].unseen
    BY <1>5, <1>9 DEF Taken
  <2>2. {j \in Packs : packs'[j].topic = req[x].topic} = Live(req[x].topic) \ {k}
    BY <1>5, <1>8, <1>9 DEF Live
  <2>. QED BY <1>5, <1>9, <2>1, <2>2
<1>10. ASSUME NEW t \in Topics, NEW i \in Live(t)', NEW j \in Live(t)', i # j
       PROVE  Overlooked(i, j)'
  <2>1. i \in Live(t) /\ j \in Live(t) /\ i # k /\ j # k
    BY <1>8
  <2>2. i \in Packs /\ j \in Packs
    BY <2>1 DEF Live
  <2>3. Overlooked(i, j)
    BY <1>10, <2>1 DEF Taken
  <2>. QED BY <1>2, <2>1, <2>2, <2>3 DEF Overlooked
<1>. QED BY <1>7, <1>9, <1>10 DEF Taken, Live

\* Using up a topic and failing.
LEMMA RestKeeps ==
  ASSUME PlanInv, Taken,
         \/ \E t \in Topics : MarkUsed(t)
         \/ \E e \in Editors : Fail(e)
         \/ UNCHANGED vars
  PROVE  PlanInv' /\ Taken'
<1>1. /\ plans' = plans /\ packs' = packs /\ topics' \in [Topics -> TopicRows]
      /\ \A t \in Topics : topics'[t].line = topics[t].line
      /\ req' \in [Editors -> Requests]
      /\ \A e \in Editors : req'[e] \in {Idle, req[e]}
  <2>1. TypeOK /\ Idle \in Requests
    BY DEF PlanInv, Requests
  <2>2. ASSUME NEW t \in Topics, MarkUsed(t) PROVE <1>1!:
    BY <2>1, <2>2 DEF MarkUsed, TypeOK, TopicRows
  <2>3. ASSUME NEW e \in Editors, Fail(e) PROVE <1>1!:
    BY <2>1, <2>3 DEF Fail, TypeOK
  <2>4. CASE UNCHANGED vars
    BY <2>1, <2>4 DEF vars, TypeOK
  <2>. QED BY <2>2, <2>3, <2>4
<1>2. PlanInv'
  BY <1>1, OthersKeepPlans DEF Idle, PlanInv, TypeOK
<1>3. Taken'
  <2>1. \A e \in Editors : req'[e].pc = "take" => req'[e] = req[e]
    BY <1>1 DEF Idle
  <2>. QED BY <1>1, <2>1 DEF Taken, Live, Overlooked
<1>. QED BY <1>2, <1>3

-----------------------------------------------------------------------------
(* Theorems.                                                               *)

LEMMA Induction == Spec => [](PlanInv /\ Taken)
<1>1. Init => PlanInv /\ Taken
  <2>. SUFFICES ASSUME Init PROVE PlanInv /\ Taken
    OBVIOUS
  <2>1. \A p \in Plans : plans[p] = [agg |-> NoPlan, disturbed |-> FALSE]
    BY DEF Init
  <2>2. TypeOK
    BY NoPlanTyped DEF Init, TypeOK, PlanStates, TopicRows, PackRows, NoPack, Requests
  <2>3. \A p \in Plans, l \in Lines : TopicsOf(p, l) = {}
    <3>1. \A t \in Topics : topics[t].line = NoLine
      BY DEF Init
    <3>2. \A p \in Plans, l \in Lines : <<p, l>> \in (Plans \X Lines)
      OBVIOUS
    <3>3. NoLine \notin (Plans \X Lines)
      BY EditorialAssumption
    <3>. QED BY <3>1, <3>2, <3>3 DEF TopicsOf
  <2>4. Coherent
    BY <2>1, <2>3, NoPlanTyped DEF Coherent, Agg
  <2>5. \A t \in Topics : Live(t) = {}
    BY EditorialAssumption DEF Init, Live, NoPack
  <2>. QED BY <2>2, <2>4, <2>5 DEF Init, PlanInv, Planned, Taken, Idle
<1>2. PlanInv /\ Taken /\ [Next]_vars => PlanInv' /\ Taken'
  <2>. SUFFICES ASSUME PlanInv, Taken, [Next]_vars PROVE PlanInv' /\ Taken'
    OBVIOUS
  <2>1. ASSUME NEW e \in Editors, Decides(e) \/ CommitPlan(e) PROVE PlanInv' /\ Taken'
    <3>1. PlanInv' /\ packs' = packs /\ \A x \in Editors : req'[x].pc = "take" => req'[x] = req[x]
      BY <2>1, DecisionKeeps, CommitPlanKeeps
    <3>. QED BY <3>1 DEF Taken, Live, Overlooked
  <2>2. ASSUME NEW e \in Editors,
               CreatePlan(e) \/ ImportPlan(e) \/ UpdatePlan(e) \/ ApprovePlan(e) \/ ArchivePlan(e)
               \/ CreateLine(e) \/ UpdateLine(e) \/ CancelLine(e) \/ CreateTopic(e)
        PROVE  Decides(e)
    BY <2>2, CreatePlanDecides, ImportPlanDecides, UpdatePlanDecides, ApprovePlanDecides,
       ArchivePlanDecides, LinesDecide, CreateTopicDecides DEF PlanInv
  <2>3. ASSUME NEW e \in Editors, TakeTopic(e) \/ CommitTake(e) PROVE PlanInv' /\ Taken'
    BY <2>3, TakeTopicKeeps, CommitTakeKeeps
  <2>. QED BY <2>1, <2>2, <2>3, PackByHandKeeps, ArchivePackKeeps, RestKeeps DEF Next
<1>. QED BY <1>1, <1>2, PTL DEF Spec

\* Plans, topics, packs and requests keep their types (the rows of the editorial tables).
THEOREM TypeInvariant == Spec => []TypeOK
<1>1. PlanInv => TypeOK
  BY DEF PlanInv
<1>. QED BY <1>1, Induction, PTL

\* A plan that no two overlapping requests have written keeps its open lines in its period,
\* has no draft lines once it is approved, and has one topic for each line that one was
\* created from (update_plan, approve_plan, create_topic_from_item).
THEOREM PlansStayCoherent == Spec => []PlanCoherent
<1>1. PlanInv => PlanCoherent
  BY DEF PlanInv, Coherent, PlanCoherent, Sound
<1>. QED BY <1>1, Induction, PTL

\* A line of such a plan has a second live pack only if whoever made one of the two had
\* overlooked the other: a take that had looked before it came, or a link by hand
\* (create_topic_from_item, _assert_take_allowed, create_draft_pack_with_texts).
THEOREM SecondPacksAreOverlooked == Spec => []SecondPackOverlooked
<1>1. ASSUME PlanInv, Taken PROVE SecondPackOverlooked
  <2>1. SUFFICES ASSUME NEW p \in Plans, NEW l \in Lines, ~plans[p].disturbed,
                        NEW j \in Packs, NEW k \in Packs, j # k,
                        packs[j].topic \in TopicsOf(p, l), packs[k].topic \in TopicsOf(p, l)
                 PROVE  Overlooked(j, k)
    BY DEF SecondPackOverlooked, Overlooked
  <2>2. packs[j].topic = packs[k].topic /\ packs[j].topic \in Topics
    BY <1>1, <2>1 DEF PlanInv, Coherent, TopicsOf
  <2>. QED BY <1>1, <2>1, <2>2 DEF Taken, Live
<1>. QED BY <1>1, Induction, PTL
=============================================================================
