------------------------ MODULE MarketingServicesProofs ------------------------
(***************************************************************************)
(* Proofs about the marketing services, for any editors, packs, channels,  *)
(* profiles, assets, destinations, guides and bounds.                      *)
(*                                                                         *)
(* The approval of packs comes first.  A request that no commit on its     *)
(* pack has overtaken writes exactly the row it decided on, so the gate    *)
(* can be checked where the request decides; a request that was overtaken  *)
(* marks the pack.                                                         *)
(***************************************************************************)
EXTENDS MarketingServices, TLAPS

Columns == {"status", "preflight", "approval", "linked"}

\* What a request may have decided, compared with the row it read: a change of content
\* resets, a preflight that passed says so, and anything else leaves a pack short of
\* approval, or the three columns of the gate alone, or approves a pack that is ready.
Sound(r) ==
  /\ r.edit.kind \in {"text", "media"} => r.new.status = "draft"
  /\ r.edit.kind = "examine" =>
       r.new.status = "ready_for_approval" /\ r.new.preflight = "passed"
  /\ r.edit.kind = "none" =>
       \/ r.new.status \notin {"ready_for_approval", "approved"}
       \/ /\ r.new.status = r.seen.status /\ r.new.preflight = r.seen.preflight
          /\ r.new.approval = r.seen.approval
       \/ /\ r.seen.status = "ready_for_approval" /\ r.seen.preflight = "passed"
          /\ r.new.status = "approved" /\ r.new.preflight = "passed"
          /\ r.new.approval = "approved"

\* A request that is fresh read the row that is there now.
Deciding ==
  \A e \in Editors : packCall[e] # Idle =>
    /\ packCall[e].fresh => packCall[e].seen = packs[packCall[e].pack].row
    /\ Sound(packCall[e])

IInv == PackTypeOK /\ Deciding /\ GatePassed

-----------------------------------------------------------------------------
(* Rows.                                                                   *)

\* The columns of the merged row come from the row decided on or from the present one.
LEMMA MergedRow ==
  ASSUME NEW now \in Rows, NEW seen \in Rows, NEW new \in Rows
  PROVE  /\ Merged(now, seen, new) \in Rows
         /\ now = seen => Merged(now, seen, new) = new
<1>. DEFINE m == Merged(now, seen, new)
<1>1. /\ DOMAIN now = Columns /\ DOMAIN new = Columns
      /\ now.status \in PackStatuses /\ new.status \in PackStatuses
      /\ now.preflight \in PreflightStatuses /\ new.preflight \in PreflightStatuses
      /\ now.approval \in ApprovalStatuses /\ new.approval \in ApprovalStatuses
      /\ now.linked \in BOOLEAN /\ new.linked \in BOOLEAN
  BY DEF Rows, Columns
<1>2. m = [f \in Columns |-> IF new[f] = seen[f] THEN now[f] ELSE new[f]]
  BY <1>1 DEF Merged
<1>3. m = [status |-> m.status, preflight |-> m.preflight, approval |-> m.approval,
           linked |-> m.linked]
  BY <1>2 DEF Columns
<1>4. /\ m.status \in PackStatuses /\ m.preflight \in PreflightStatuses
      /\ m.approval \in ApprovalStatuses /\ m.linked \in BOOLEAN
  BY <1>1, <1>2 DEF Columns
<1>5. m \in Rows
  BY <1>3, <1>4 DEF Rows
<1>6. ASSUME now = seen PROVE m = new
  <2>1. new = [f \in Columns |-> new[f]]
    BY <1>1 DEF Rows, Columns
  <2>. QED BY <1>2, <1>6, <2>1
<1>. QED BY <1>5, <1>6

\* The row of a pack is a row, and a reset of it is a draft.
LEMMA RowTyped ==
  ASSUME PackTypeOK, NEW p \in Packs
  PROVE  /\ packs[p] \in PackStates /\ packs[p].row \in Rows
         /\ packs[p].text \in [Channels -> TextValues]
         /\ ResetRow(packs[p].row) \in Rows /\ ResetRow(packs[p].row).status = "draft"
<1>1. packs[p] \in PackStates
  BY DEF PackTypeOK
<1>2. packs[p].row \in Rows /\ packs[p].text \in [Channels -> TextValues]
  BY <1>1 DEF PackStates
<1>. QED BY <1>1, <1>2 DEF ResetRow, Rows, PackStatuses, PreflightStatuses, ApprovalStatuses

-----------------------------------------------------------------------------
(* Requests that decide.                                                   *)

\* A decision changes no pack, and what it writes down satisfies the invariant.
LEMMA Asked ==
  ASSUME IInv, NEW e \in Editors, NEW p \in Packs, NEW new \in Rows, NEW edit \in EditsAsked,
         Sound([seen |-> packs[p].row, new |-> new, edit |-> edit]), Ask(e, p, new, edit)
  PROVE  IInv'
<1>. DEFINE r == [pc |-> "decided", pack |-> p, seen |-> packs[p].row, new |-> new,
                  edit |-> edit, fresh |-> TRUE]
<1>1. packs' = packs /\ topic' = topic /\ packCall' = [packCall EXCEPT ![e] = r]
  BY DEF Ask
<1>2. r \in PackRequests
  BY RowTyped DEF IInv, PackRequests
<1>3. PackTypeOK'
  BY <1>1, <1>2 DEF IInv, PackTypeOK
<1>4. Sound(r)
  BY DEF Sound
<1>5. Deciding'
  <2>. SUFFICES ASSUME NEW x \in Editors, packCall'[x] # Idle
                PROVE  /\ packCall'[x].fresh => packCall'[x].seen = packs[packCall'[x].pack].row
                       /\ Sound(packCall'[x])
    BY <1>1 DEF Deciding
  <2>1. CASE x = e
    BY <2>1, <1>1, <1>4 DEF IInv, PackTypeOK
  <2>2. CASE x # e
    BY <2>2, <1>1 DEF IInv, PackTypeOK, Deciding
  <2>. QED BY <2>1, <2>2
<1>6. GatePassed'
  BY <1>1 DEF IInv, GatePassed
<1>. QED BY <1>3, <1>5, <1>6 DEF IInv

LEMMA UpsertTextKeeps == ASSUME IInv, NEW e \in Editors, UpsertText(e) PROVE IInv'
<1>1. PICK p \in Packs, edit \in Edits :
        Ask(e, p, ResetRow(packs[p].row),
            [kind |-> "text", channel |-> edit[1], was |-> packs[p].text[edit[1]],
             text |-> edit[2]])
  BY DEF UpsertText
<1>2. edit[1] \in Channels /\ edit[2] \in TextValues
  BY ChannelAssumption DEF TextValues
<1>3. packs[p].text[edit[1]] \in TextValues
  BY <1>2, RowTyped DEF IInv
<1>4. [kind |-> "text", channel |-> edit[1], was |-> packs[p].text[edit[1]],
       text |-> edit[2]] \in EditsAsked
  BY <1>2, <1>3 DEF EditsAsked
<1>5. PackTypeOK
  BY DEF IInv
<1>6. ResetRow(packs[p].row) \in Rows /\ ResetRow(packs[p].row).status = "draft"
  BY <1>5, RowTyped
<1>. QED BY <1>1, <1>4, <1>6, Asked DEF Sound

LEMMA ChangeMediaKeeps == ASSUME IInv, NEW e \in Editors, ChangeMedia(e) PROVE IInv'
<1>1. PICK p \in Packs : Ask(e, p, ResetRow(packs[p].row), [kind |-> "media"])
  BY DEF ChangeMedia
<1>2. [kind |-> "media"] \in EditsAsked
  BY DEF EditsAsked
<1>3. PackTypeOK
  BY DEF IInv
<1>4. ResetRow(packs[p].row) \in Rows /\ ResetRow(packs[p].row).status = "draft"
  BY <1>3, RowTyped
<1>. QED BY <1>1, <1>2, <1>4, Asked DEF Sound

LEMMA RunPreflightKeeps == ASSUME IInv, NEW e \in Editors, RunPreflight(e) PROVE IInv'
<1>1. PICK p \in Packs, bad \in BOOLEAN :
        Ask(e, p, [packs[p].row EXCEPT
                     !.preflight = IF bad THEN "failed" ELSE "passed",
                     !.status = IF bad THEN "preflight_failed" ELSE "ready_for_approval"],
            [kind |-> IF bad THEN "none" ELSE "examine"])
  BY DEF RunPreflight, PreflightErrors, TopicErrors, AllTooShort
<1>. DEFINE new == [packs[p].row EXCEPT
                      !.preflight = IF bad THEN "failed" ELSE "passed",
                      !.status = IF bad THEN "preflight_failed" ELSE "ready_for_approval"]
            edit == [kind |-> IF bad THEN "none" ELSE "examine"]
<1>2. packs[p].row \in Rows
  BY RowTyped DEF IInv
<1>3. new \in Rows /\ edit \in EditsAsked
  BY <1>2 DEF Rows, PackStatuses, PreflightStatuses, EditsAsked
<1>4. Sound([seen |-> packs[p].row, new |-> new, edit |-> edit])
  BY <1>2 DEF Sound, Rows
<1>. QED BY <1>1, <1>3, <1>4, Asked

LEMMA ApprovePackKeeps == ASSUME IInv, NEW e \in Editors, ApprovePack(e) PROVE IInv'
<1>1. PICK p \in Packs :
        /\ packs[p].row.preflight = "passed" /\ packs[p].row.status = "ready_for_approval"
        /\ Ask(e, p, [packs[p].row EXCEPT !.approval = "approved", !.status = "approved"], NoEdit)
  BY DEF ApprovePack
<1>. DEFINE new == [packs[p].row EXCEPT !.approval = "approved", !.status = "approved"]
<1>2. packs[p].row \in Rows
  BY RowTyped DEF IInv
<1>3. new \in Rows /\ NoEdit \in EditsAsked
  BY <1>2 DEF Rows, PackStatuses, ApprovalStatuses, EditsAsked, NoEdit
<1>4. Sound([seen |-> packs[p].row, new |-> new, edit |-> NoEdit])
  BY <1>1, <1>2 DEF Sound, Rows, NoEdit
<1>. QED BY <1>1, <1>3, <1>4, Asked

LEMMA RejectPackKeeps == ASSUME IInv, NEW e \in Editors, RejectPack(e) PROVE IInv'
<1>1. PICK p \in Packs :
        Ask(e, p, [packs[p].row EXCEPT !.approval = "rejected", !.status = "draft"], NoEdit)
  BY DEF RejectPack
<1>. DEFINE new == [packs[p].row EXCEPT !.approval = "rejected", !.status = "draft"]
<1>2. packs[p].row \in Rows
  BY RowTyped DEF IInv
<1>3. new \in Rows /\ NoEdit \in EditsAsked
  BY <1>2 DEF Rows, PackStatuses, ApprovalStatuses, EditsAsked, NoEdit
<1>4. Sound([seen |-> packs[p].row, new |-> new, edit |-> NoEdit])
  BY <1>2 DEF Sound, Rows, NoEdit
<1>. QED BY <1>1, <1>3, <1>4, Asked

\* A PATCH gives no pack the statuses of the gate that it does not have already.
LEMMA UpdatePackKeeps == ASSUME IInv, NEW e \in Editors, UpdatePack(e) PROVE IInv'
<1>1. PICK p \in Packs, link \in BOOLEAN :
        \E status \in {"draft", "archived", packs[p].row.status} :
          Ask(e, p, [packs[p].row EXCEPT !.status = status, !.linked = packs[p].row.linked \/ link],
              NoEdit)
  BY DEF UpdatePack
<1>2. PICK status \in {"draft", "archived", packs[p].row.status} :
        Ask(e, p, [packs[p].row EXCEPT !.status = status, !.linked = packs[p].row.linked \/ link],
            NoEdit)
  BY <1>1
<1>. DEFINE new == [packs[p].row EXCEPT !.status = status, !.linked = packs[p].row.linked \/ link]
<1>3. packs[p].row \in Rows
  BY RowTyped DEF IInv
<1>4. new \in Rows /\ NoEdit \in EditsAsked
  BY <1>3 DEF Rows, PackStatuses, EditsAsked, NoEdit
<1>5. Sound([seen |-> packs[p].row, new |-> new, edit |-> NoEdit])
  BY <1>3 DEF Sound, Rows, NoEdit
<1>. QED BY <1>2, <1>4, <1>5, Asked

-----------------------------------------------------------------------------
(* The commit.                                                             *)

LEMMA CommitKeeps == ASSUME IInv, NEW e \in Editors, CommitPack(e) PROVE IInv'
<1>. DEFINE r == packCall[e]
            edit == r.edit
            old == packs[r.pack]
            content == edit.kind \in {"text", "media"}
            written == Merged(old.row, r.seen, r.new)
            saved == IF edit.kind = "text" /\ edit.text # edit.was
                     THEN [old.text EXCEPT ![edit.channel] = edit.text] ELSE old.text
            examined == IF edit.kind = "examine" THEN r.fresh ELSE old.examined /\ ~content
            disturbed == IF r.fresh THEN old.disturbed /\ ~content ELSE TRUE
            now == [old EXCEPT !.row = written, !.text = saved, !.examined = examined,
                               !.disturbed = disturbed]
<1>1. /\ r # Idle /\ packs' = [packs EXCEPT ![r.pack] = now]
      /\ packCall' = Overtake(e, r.pack) /\ topic' = topic
  BY DEF CommitPack, Idle
<1>2. /\ r.pack \in Packs /\ r.seen \in Rows /\ r.new \in Rows
      /\ edit \in EditsAsked /\ r.fresh \in BOOLEAN
  BY <1>1 DEF IInv, PackTypeOK, PackRequests
<1>3. old \in PackStates /\ old.row \in Rows /\ old.text \in [Channels -> TextValues]
  BY <1>2, RowTyped DEF IInv
<1>4. written \in Rows /\ (old.row = r.seen => written = r.new)
  BY <1>2, <1>3, MergedRow
<1>5. saved \in [Channels -> TextValues]
  BY <1>2, <1>3 DEF EditsAsked
<1>6. examined \in BOOLEAN /\ disturbed \in BOOLEAN
  BY <1>2, <1>3 DEF PackStates
<1>7. /\ now \in PackStates
      /\ now.row = written /\ now.examined = examined /\ now.disturbed = disturbed
  BY <1>3, <1>4, <1>5, <1>6 DEF PackStates
<1>8. \A x \in Editors :
        /\ packCall'[x] \in PackRequests
        /\ packCall'[x] # Idle =>
             /\ x # e /\ packCall[x] # Idle
             /\ packCall'[x].pack = packCall[x].pack /\ packCall'[x].seen = packCall[x].seen
             /\ packCall'[x].new = packCall[x].new /\ packCall'[x].edit = packCall[x].edit
             /\ packCall'[x].fresh => packCall[x].fresh /\ packCall[x].pack # r.pack
  BY <1>1 DEF IInv, PackTypeOK, PackRequests, Overtake, Idle
<1>9. PackTypeOK'
  <2>1. packCall' \in [Editors -> PackRequests]
    BY <1>1, <1>8 DEF Overtake
  <2>. QED BY <1>1, <1>2, <1>7, <2>1 DEF IInv, PackTypeOK
<1>10. Deciding'
  <2>. SUFFICES ASSUME NEW x \in Editors, packCall'[x] # Idle
                PROVE  /\ packCall'[x].fresh => packCall'[x].seen = packs'[packCall'[x].pack].row
                       /\ Sound(packCall'[x])
    BY DEF Deciding
  <2>1. Sound(packCall'[x])
    BY <1>8 DEF IInv, Deciding, Sound
  <2>2. ASSUME packCall'[x].fresh PROVE packCall'[x].seen = packs'[packCall'[x].pack].row
    BY <1>1, <1>2, <1>8, <2>2 DEF IInv, PackTypeOK, Deciding
  <2>. QED BY <2>1, <2>2
<1>11. GatePassed'
  <2>1. ASSUME ~disturbed, written.status \in {"ready_for_approval", "approved"}
        PROVE  /\ written.preflight = "passed" /\ examined
               /\ written.status = "approved" => written.approval = "approved"
    <3>1. r.fresh /\ old.row = r.seen /\ Sound(r)
      BY <1>1, <2>1 DEF IInv, Deciding
    <3>2. written = r.new
      BY <1>4, <3>1
    <3>3. ~content /\ ~old.disturbed
      BY <2>1, <3>1, <3>2 DEF Sound
    <3>4. CASE edit.kind = "examine"
      BY <3>1, <3>2, <3>4 DEF Sound
    <3>5. CASE edit.kind # "examine"
      <4>1. edit.kind = "none"
        BY <1>2, <3>3, <3>5 DEF EditsAsked
      <4>2. \/ /\ written.status = old.row.status /\ written.preflight = old.row.preflight
               /\ written.approval = old.row.approval
            \/ /\ old.row.status = "ready_for_approval"
               /\ written.preflight = "passed" /\ written.approval = "approved"
        BY <2>1, <3>1, <3>2, <4>1 DEF Sound
      <4>3. old.row.status \in {"ready_for_approval", "approved"}
        BY <2>1, <4>2
      <4>4. /\ old.row.preflight = "passed" /\ old.examined
            /\ old.row.status = "approved" => old.row.approval = "approved"
        BY <1>2, <3>3, <4>3 DEF IInv, GatePassed
      <4>5. examined
        BY <3>3, <3>5, <4>4
      <4>. QED BY <4>2, <4>4, <4>5
    <3>. QED BY <3>4, <3>5
  <2>2. \A p \in Packs : packs'[p] = IF p = r.pack THEN now ELSE packs[p]
    BY <1>1 DEF IInv, PackTypeOK
  <2>. QED BY <1>7, <2>1, <2>2, ZenonT(30) DEF IInv, GatePassed
<1>. QED BY <1>9, <1>10, <1>11 DEF IInv

LEMMA FailKeeps == ASSUME IInv, NEW e \in Editors, FailPack(e) PROVE IInv'
<1>1. packs' = packs /\ topic' = topic /\ packCall' = [packCall EXCEPT ![e] = Idle]
  BY DEF FailPack
<1>2. PackTypeOK'
  BY <1>1 DEF IInv, PackTypeOK, PackRequests
<1>3. Deciding'
  BY <1>1 DEF IInv, PackTypeOK, Deciding, Sound
<1>4. GatePassed'
  BY <1>1 DEF IInv, GatePassed
<1>. QED BY <1>2, <1>3, <1>4 DEF IInv
-----------------------------------------------------------------------------
(* Theorems.                                                               *)

\* The invariant is inductive.
LEMMA Induction ==
  /\ PackInit => IInv
  /\ IInv /\ [PackNext]_packVars => IInv'
<1>1. ASSUME PackInit PROVE IInv
  <2>1. PackTypeOK
    <3>1. ASSUME NEW linked \in BOOLEAN, NEW channels \in {Channels, Social}
          PROVE  NewPack(linked, channels) \in PackStates
      BY DEF NewPack, PackStates, Rows, PackStatuses, PreflightStatuses, ApprovalStatuses, TextValues
    <3>. QED BY <1>1, <3>1 DEF PackInit, PackTypeOK, TopicStatuses, PackRequests
  <2>2. Deciding
    BY <1>1 DEF PackInit, Deciding
  <2>3. \A p \in Packs : packs[p].row.status = "draft"
    BY <1>1 DEF PackInit, NewPack
  <2>. QED BY <2>1, <2>2, <2>3 DEF IInv, GatePassed
<1>2. ASSUME IInv, [PackNext]_packVars PROVE IInv'
  <2>. USE <1>2
  <2>1. ASSUME NEW status \in TopicMoves, SetTopic(status) PROVE IInv'
    <3>1. packs' = packs /\ packCall' = packCall /\ topic' = [topic EXCEPT !.status = status]
      BY <2>1 DEF SetTopic
    <3>2. PackTypeOK'
      BY <3>1, TopicAssumption DEF IInv, PackTypeOK, TopicStatuses
    <3>. QED BY <3>1, <3>2 DEF IInv, Deciding, GatePassed
  <2>2. ASSUME NEW e \in Editors,
               \/ UpsertText(e) \/ ChangeMedia(e) \/ RunPreflight(e) \/ ApprovePack(e)
               \/ RejectPack(e) \/ UpdatePack(e) \/ CommitPack(e) \/ FailPack(e)
        PROVE  IInv'
    BY <2>2, UpsertTextKeeps, ChangeMediaKeeps, RunPreflightKeeps, ApprovePackKeeps,
       RejectPackKeeps, UpdatePackKeeps, CommitKeeps, FailKeeps
  <2>3. CASE UNCHANGED packVars
    BY <2>3 DEF packVars, IInv, PackTypeOK, Deciding, GatePassed
  <2>. QED BY <2>1, <2>2, <2>3 DEF PackNext
<1>. QED BY <1>1, <1>2

\* Packs, topic and requests keep their types, whatever editors commit over each other
\* (the enums of the pack, its texts, and what a session holds).
THEOREM TypeInvariant == PackSpec => []PackTypeOK
<1>1. IInv => PackTypeOK
  BY DEF IInv
<1>. QED BY <1>1, Induction, PTL DEF PackSpec

\* The packs of a tenant behave as PackApproval has it, whatever else is done meanwhile.
LEMMA PacksAlone ==
  /\ MarketingInit => PackInit
  /\ [MarketingNext]_<<focus, packVars, mediaVars, destinationVars, guideVars, vars>>
       => [PackNext]_packVars
<1>1. MarketingInit => PackInit
  BY DEF MarketingInit
<1>2. ASSUME MarketingNext PROVE [PackNext]_packVars
  BY <1>2 DEF MarketingNext
<1>. QED BY <1>1, <1>2

\* The approval gate holds for any number of editors, packs and channels: unless requests
\* overlapped on the pack since its last undisturbed edit, a pack that is ready or approved
\* passed a preflight of the content it has (run_preflight, approve_pack and the reset).
THEOREM GateAlwaysPassed == MarketingSpec => []GatePassed
<1>1. IInv => GatePassed
  BY DEF IInv
<1>. QED BY <1>1, PacksAlone, Induction, PTL DEF MarketingSpec

-----------------------------------------------------------------------------
(* Guides.                                                                 *)
(*                                                                         *)
(* The version a request is about has been there since it read it, and is  *)
(* not superseded unless another request has replaced it meanwhile, which  *)
(* marks it as overtaken.                                                  *)

GuideRequest(r) ==
  /\ r \in Guidance!GuideCalls
  /\ r.pc = "read" => r.activate
  /\ r.new => r.text # 0
  /\ ~r.new => Guidance!Exists(r.on)
  /\ ~r.activate => r.replaces = {}
  /\ r.on \notin r.replaces
  /\ \A v \in r.replaces : Guidance!Exists(v)
  /\ ~r.new /\ r.on \notin guidesOvertaken => guides[r.on].status # "superseded"

GuideStates == {"read", "decided"}

GuidesInv ==
  /\ guides \in [Guidance!Versions -> Guidance!Guides \cup {Guidance!Absent}]
  /\ \A v, w \in Guidance!Active : v = w
  /\ guideCall = [u \in Editors |-> guideCall[u]]
  /\ guideCalls \in 0..MaxGuideCalls
  /\ \A u \in Editors : guideCall[u].pc \in GuideStates => GuideRequest(guideCall[u])

\* A version exists iff it has the status and the text of a guide.
LEMMA GuideRows ==
  ASSUME GuidesInv, NEW v \in Guidance!Versions
  PROVE  /\ Guidance!Exists(v) <=> guides[v] \in Guidance!Guides
         /\ Guidance!Exists(v) <=> guides[v].status # "absent"
         /\ Guidance!Exists(v) => guides[v] = [status |-> guides[v].status, text |-> guides[v].text]
BY DEF GuidesInv, Guidance!Exists, Guidance!Guides, Guidance!Absent

\* What a commit leaves of a version.
LEMMA WrittenGuide ==
  ASSUME GuidesInv, NEW r, GuideRequest(r), r.new => ~Guidance!Exists(r.on),
         NEW v \in Guidance!Versions, NEW g, g = Guidance!Written(r)[v]
  PROVE  /\ g \in Guidance!Guides \cup {Guidance!Absent}
         /\ v = r.on => g.status = IF r.activate THEN "active" ELSE IF r.new THEN "draft"
                                   ELSE guides[v].status
         /\ v \in r.replaces => g = [status |-> "superseded", text |-> guides[v].text]
         /\ v # r.on /\ v \notin r.replaces => g = guides[v]
         /\ Guidance!Exists(v) => g.status # "absent"
<1>1. /\ r.on \in Guidance!Versions /\ r.text \in 0..MaxGuideCalls /\ r.new \in BOOLEAN
      /\ r.activate \in BOOLEAN /\ r.replaces \subseteq Guidance!Versions
  BY DEF GuideRequest, Guidance!GuideCalls
<1>2. /\ Guidance!Exists(v) <=> guides[v] \in Guidance!Guides
      /\ Guidance!Exists(v) <=> guides[v].status # "absent"
      /\ Guidance!Exists(v) => guides[v] = [status |-> guides[v].status, text |-> guides[v].text]
      /\ guides[v] \in Guidance!Guides \cup {Guidance!Absent}
  BY GuideRows DEF GuidesInv
<1>3. CASE v = r.on /\ r.new
  <2>1. g = [status |-> IF r.activate THEN "active" ELSE "draft", text |-> r.text]
    BY <1>3 DEF Guidance!Written
  <2>2. r.text \in 1..MaxGuideCalls
    BY <1>1, <1>3, ServicesAssumption DEF GuideRequest
  <2>. QED BY <1>1, <1>2, <1>3, <2>1, <2>2 DEF GuideRequest, Guidance!Guides
<1>4. CASE v = r.on /\ ~r.new
  <2>1. g = [status |-> IF r.activate THEN "active" ELSE guides[v].status,
             text |-> IF r.text = 0 THEN guides[v].text ELSE r.text]
    BY <1>4 DEF Guidance!Written
  <2>2. guides[v] \in Guidance!Guides
    BY <1>2, <1>4 DEF GuideRequest
  <2>3. r.text # 0 => r.text \in 1..MaxGuideCalls
    BY <1>1, ServicesAssumption
  <2>. QED BY <1>1, <1>2, <1>4, <2>1, <2>2, <2>3 DEF GuideRequest, Guidance!Guides
<1>5. CASE v # r.on /\ v \in r.replaces
  <2>1. g = [guides[v] EXCEPT !.status = "superseded"]
    BY <1>5 DEF Guidance!Written
  <2>2. guides[v] \in Guidance!Guides
    BY <1>2, <1>5 DEF GuideRequest
  <2>3. g = [status |-> "superseded", text |-> guides[v].text]
    BY <1>2, <2>1, <2>2 DEF Guidance!Guides
  <2>. QED BY <1>5, <2>2, <2>3 DEF Guidance!Guides
<1>6. CASE v # r.on /\ v \notin r.replaces
  BY <1>2, <1>6 DEF Guidance!Written
<1>. QED BY <1>3, <1>4, <1>5, <1>6 DEF GuideRequest

\* A step that only changes what one request holds.
LEMMA GuideRequestSet ==
  ASSUME GuidesInv, NEW u \in Editors, NEW r, guideCall' = [guideCall EXCEPT ![u] = r],
         r.pc \in GuideStates => GuideRequest(r),
         UNCHANGED <<guides, guidesOvertaken>>, guideCalls' \in 0..MaxGuideCalls
  PROVE  GuidesInv'
<1>1. \A t \in Editors : guideCall'[t] = IF t = u THEN r ELSE guideCall[t]
  BY DEF GuidesInv
<1>2. ASSUME NEW t \in Editors, guideCall'[t].pc \in GuideStates PROVE GuideRequest(guideCall[t])'
  <2>. PICK q : q = guideCall'[t] BY Zenon
  <2>1. GuideRequest(q)
    BY <1>1, <1>2 DEF GuidesInv
  <2>2. GuideRequest(q)'
    BY <2>1 DEF GuideRequest, Guidance!GuideCalls, Guidance!Exists, Guidance!Versions
  <2>. QED BY <2>2 DEF GuideRequest, Guidance!GuideCalls, Guidance!Exists, Guidance!Versions
<1>3. guideCall' = [t \in Editors |-> guideCall'[t]]
  BY DEF GuidesInv
<1>. QED BY <1>2, <1>3 DEF GuidesInv, Guidance!Active, Guidance!ActiveIn

\* A request begins: a version is drafted, changed or activated, or a rubric is written.
LEMMA GuideAskKeeps ==
  ASSUME GuidesInv, NEW u \in Editors, Guidance!Ask(u)
  PROVE  GuidesInv'
<1>1. ASSUME NEW r, Guidance!Begin(u, r), r.pc \in GuideStates => GuideRequest(r)
      PROVE  GuidesInv'
  BY <1>1, GuideRequestSet, ServicesAssumption DEF Guidance!Begin, GuidesInv
<1>2. CASE Guidance!CreateDraft(u)
  <2>1. PICK activate \in BOOLEAN, v \in Guidance!Versions :
          Guidance!Begin(u, [pc |-> IF activate THEN "read" ELSE "decided", on |-> v,
                             new |-> TRUE, activate |-> activate, text |-> guideCalls + 1,
                             replaces |-> {}])
    BY <1>2 DEF Guidance!CreateDraft
  <2>. DEFINE r == [pc |-> IF activate THEN "read" ELSE "decided", on |-> v, new |-> TRUE,
                    activate |-> activate, text |-> guideCalls + 1, replaces |-> {}]
  <2>2. guideCalls + 1 \in 1..MaxGuideCalls
    BY <2>1, ServicesAssumption DEF Guidance!Begin, GuidesInv
  <2>3. GuideRequest(r)
    BY <2>2 DEF GuideRequest, Guidance!GuideCalls
  <2>. QED BY <1>1, <2>1, <2>3
<1>3. CASE Guidance!UpdateGuide(u)
  <2>1. PICK v \in Guidance!Versions :
          /\ Guidance!Exists(v) /\ guides[v].status # "superseded"
          /\ Guidance!Begin(u, [pc |-> "decided", on |-> v, new |-> FALSE, activate |-> FALSE,
                                text |-> guideCalls + 1, replaces |-> {}])
    BY <1>3 DEF Guidance!UpdateGuide
  <2>. DEFINE r == [pc |-> "decided", on |-> v, new |-> FALSE, activate |-> FALSE,
                    text |-> guideCalls + 1, replaces |-> {}]
  <2>2. guideCalls + 1 \in 1..MaxGuideCalls
    BY <2>1, ServicesAssumption DEF Guidance!Begin, GuidesInv
  <2>3. GuideRequest(r)
    BY <2>1, <2>2 DEF GuideRequest, Guidance!GuideCalls
  <2>. QED BY <1>1, <2>1, <2>3
<1>4. CASE Guidance!ActivateGuide(u)
  <2>1. PICK v \in Guidance!Versions :
          /\ guides[v].status = "draft"
          /\ Guidance!Begin(u, [pc |-> "read", on |-> v, new |-> FALSE, activate |-> TRUE,
                                text |-> 0, replaces |-> {}])
    BY <1>4 DEF Guidance!ActivateGuide
  <2>. DEFINE r == [pc |-> "read", on |-> v, new |-> FALSE, activate |-> TRUE,
                    text |-> 0, replaces |-> {}]
  <2>2. Guidance!Exists(v)
    BY <2>1, GuideRows
  <2>3. GuideRequest(r)
    BY <2>1, <2>2, ServicesAssumption DEF GuideRequest, Guidance!GuideCalls
  <2>. QED BY <1>1, <2>1, <2>3
<1>5. CASE Guidance!CreateRubric(u)
  <2>1. PICK k \in Codes, status \in Guidance!RubricStatuses :
          Guidance!Begin(u, [pc |-> "insert", codes |-> {k}, status |-> status])
    BY <1>5 DEF Guidance!CreateRubric
  <2>. DEFINE r == [pc |-> "insert", codes |-> {k}, status |-> status]
  <2>2. r.pc \notin GuideStates
    BY DEF GuideStates
  <2>. QED BY <1>1, <2>1, <2>2
<1>6. CASE Guidance!SetRubricStatus(u)
  <2>1. PICK k \in Codes, status \in Guidance!RubricStatuses :
          Guidance!Begin(u, [pc |-> "status", code |-> k, seen |-> rubrics[k], status |-> status])
    BY <1>6 DEF Guidance!SetRubricStatus
  <2>. DEFINE r == [pc |-> "status", code |-> k, seen |-> rubrics[k], status |-> status]
  <2>2. r.pc \notin GuideStates
    BY DEF GuideStates
  <2>. QED BY <1>1, <2>1, <2>2
<1>7. CASE Guidance!SeedDefaults(u)
  <2>. DEFINE r == [pc |-> "insert", codes |-> {k \in SeededCodes : rubrics[k] = "absent"},
                    status |-> "active"]
  <2>1. Guidance!Begin(u, r)
    BY <1>7 DEF Guidance!SeedDefaults
  <2>2. r.pc \notin GuideStates
    BY DEF GuideStates
  <2>. HIDE DEF r
  <2>. QED BY <1>1, <2>1, <2>2
<1>. QED BY <1>2, <1>3, <1>4, <1>5, <1>6, <1>7 DEF Guidance!Ask

\* The versions that are active are read, and will be replaced.
LEMMA ListActiveKeeps ==
  ASSUME GuidesInv, NEW u \in Editors, Guidance!ListActiveGuides(u)
  PROVE  GuidesInv'
<1>. PICK q : q = guideCall[u] BY Zenon
<1>. DEFINE r == [q EXCEPT !.pc = "decided", !.replaces = Guidance!Active \ {q.on}]
<1>1. /\ q.pc = "read" /\ GuideRequest(q)
      /\ guideCall' = [guideCall EXCEPT ![u] = r]
  BY DEF Guidance!ListActiveGuides, GuidesInv, GuideStates
<1>2. /\ q \in Guidance!GuideCalls /\ q.activate
      /\ Guidance!Active \ {q.on} \subseteq Guidance!Versions
  BY <1>1 DEF GuideRequest, Guidance!Active, Guidance!ActiveIn
<1>3. /\ r \in Guidance!GuideCalls /\ r.on = q.on /\ (r.new <=> q.new) /\ (r.activate <=> q.activate)
      /\ r.text = q.text /\ r.replaces = Guidance!Active \ {q.on} /\ r.pc = "decided"
  BY <1>2 DEF Guidance!GuideCalls
<1>4. \A v \in r.replaces : Guidance!Exists(v)
  BY <1>3, GuideRows DEF Guidance!Active, Guidance!ActiveIn
<1>5. GuideRequest(r)
  BY <1>1, <1>2, <1>3, <1>4 DEF GuideRequest
<1>6. UNCHANGED <<guides, guidesOvertaken>> /\ guideCalls' \in 0..MaxGuideCalls
  BY DEF Guidance!ListActiveGuides, GuidesInv
<1>. HIDE DEF r
<1>. QED BY <1>1, <1>5, <1>6, GuideRequestSet

\* A commit keeps the invariant, one guide active, and what is superseded.
LEMMA CommitGuideKeeps ==
  ASSUME GuidesInv, NEW u \in Editors, Guidance!CommitGuide(u)
  PROVE  /\ GuidesInv'
         /\ Guidance!Active # {} => \E v \in Guidance!Versions : Guidance!Active' = {v}
         /\ \A v \in Guidance!Versions \ guidesOvertaken' :
              guides[v].status = "superseded" => guides'[v] = guides[v]
<1>. PICK r : r = guideCall[u] BY Zenon
<1>. DEFINE late == UNION {Guidance!Touches(guideCall[t]) : t \in Editors \ {u}}
<1>1. /\ r \in Guidance!GuideCalls /\ r.pc = "decided" /\ Guidance!Admitted(r)
      /\ guides' = Guidance!Written(r)
      /\ guidesOvertaken' = guidesOvertaken \cup (Guidance!Touches(r) \cap late)
      /\ guideCall' = [guideCall EXCEPT ![u] = Guidance!Idle]
      /\ guideCalls' = guideCalls
  BY DEF Guidance!CommitGuide
<1>2. GuideRequest(r) /\ (r.new => ~Guidance!Exists(r.on))
  BY <1>1 DEF GuidesInv, GuideStates, Guidance!Admitted
<1>3. /\ r.on \in Guidance!Versions /\ r.new \in BOOLEAN /\ r.activate \in BOOLEAN
      /\ r.replaces \subseteq Guidance!Versions /\ Guidance!Touches(r) = {r.on} \cup r.replaces
  BY <1>1 DEF Guidance!GuideCalls, Guidance!Touches
<1>4. ASSUME NEW v \in Guidance!Versions
      PROVE  /\ guides'[v] \in Guidance!Guides \cup {Guidance!Absent}
             /\ v = r.on => guides'[v].status = IF r.activate THEN "active"
                              ELSE IF r.new THEN "draft" ELSE guides[v].status
             /\ v \in r.replaces => guides'[v] = [status |-> "superseded", text |-> guides[v].text]
             /\ v # r.on /\ v \notin r.replaces => guides'[v] = guides[v]
             /\ Guidance!Exists(v) => guides'[v].status # "absent"
  <2>. PICK g : g = Guidance!Written(r)[v] BY Zenon
  <2>. QED BY <1>1, <1>2, WrittenGuide
<1>5. \A v, w \in Guidance!Versions :
        guides'[v].status = "active" /\ guides'[w].status = "active" => v = w
  BY <1>1 DEF Guidance!Admitted, Guidance!ActiveIn
<1>6. guides' \in [Guidance!Versions -> Guidance!Guides \cup {Guidance!Absent}]
  BY <1>1, <1>4 DEF Guidance!Written
<1>7. ASSUME NEW v \in Guidance!Versions, Guidance!Exists(v)
      PROVE  Guidance!Exists(v)'
  <2>1. guides'[v].status # "absent"
    BY <1>4, <1>7
  <2>. QED BY <2>1 DEF Guidance!Exists, Guidance!Absent
<1>8. ASSUME NEW t \in Editors, t # u, NEW q, q = guideCall[t], q.pc \in GuideStates
      PROVE  GuideRequest(q)'
  <2>1. GuideRequest(q)
    BY <1>8 DEF GuidesInv
  <2>2. /\ q \in Guidance!GuideCalls /\ q.on \in Guidance!Versions
        /\ q.replaces \subseteq Guidance!Versions /\ q.on \in Guidance!Touches(q)
    BY <2>1 DEF GuideRequest, Guidance!GuideCalls, Guidance!Touches
  <2>3. ~q.new => Guidance!Exists(q.on)'
    BY <1>7, <2>1, <2>2 DEF GuideRequest
  <2>4. \A v \in q.replaces : Guidance!Exists(v)'
    BY <1>7, <2>1, <2>2 DEF GuideRequest
  <2>5. ASSUME ~q.new, q.on \notin guidesOvertaken' PROVE guides'[q.on].status # "superseded"
    <3>1. q.on \in late
      BY <1>8, <2>2
    <3>2. q.on \notin guidesOvertaken /\ q.on \notin r.replaces
      BY <1>1, <1>3, <2>5, <3>1
    <3>3. guides[q.on].status # "superseded"
      BY <2>1, <2>5, <3>2 DEF GuideRequest
    <3>. QED BY <1>3, <1>4, <2>2, <3>2, <3>3
  <2>6. Guidance!GuideCalls' = Guidance!GuideCalls
    BY DEF Guidance!GuideCalls, Guidance!Versions
  <2>. QED BY <2>1, <2>2, <2>3, <2>4, <2>5, <2>6 DEF GuideRequest
<1>9. GuidesInv'
  <2>1. \A t \in Editors : guideCall'[t] = IF t = u THEN Guidance!Idle ELSE guideCall[t]
    BY <1>1 DEF GuidesInv
  <2>2. guideCall' = [t \in Editors |-> guideCall'[t]]
    BY <1>1 DEF GuidesInv
  <2>3. ASSUME NEW t \in Editors, guideCall'[t].pc \in GuideStates
        PROVE  GuideRequest(guideCall[t])'
    <3>1. t # u /\ guideCall'[t] = guideCall[t]
      BY <2>1, <2>3 DEF Guidance!Idle, GuideStates
    <3>. PICK q : q = guideCall[t] BY Zenon
    <3>2. GuideRequest(q)'
      BY <1>8, <2>3, <3>1
    <3>. QED BY <3>1, <3>2 DEF GuideRequest
  <2>4. (\A v, w \in Guidance!Active : v = w)'
    BY <1>5 DEF Guidance!Active, Guidance!ActiveIn, Guidance!Versions
  <2>5. guideCalls' \in 0..MaxGuideCalls
    BY <1>1 DEF GuidesInv
  <2>. QED BY <1>6, <2>2, <2>3, <2>4, <2>5 DEF GuidesInv, Guidance!Guides, Guidance!Versions, Guidance!Absent
<1>10. ASSUME Guidance!Active # {} PROVE \E v \in Guidance!Versions : Guidance!Active' = {v}
  <2>1. PICK v \in Guidance!Versions : guides[v].status = "active"
    BY <1>10 DEF Guidance!Active, Guidance!ActiveIn
  <2>2. Guidance!Exists(v)
    BY <2>1, GuideRows
  <2>3. \E w \in Guidance!Versions : guides'[w].status = "active"
    <3>1. CASE r.activate
      BY <1>3, <1>4, <3>1
    <3>2. CASE ~r.activate
      <4>1. v \notin r.replaces /\ (v = r.on => ~r.new)
        BY <1>2, <2>2, <3>2 DEF GuideRequest
      <4>. QED BY <1>4, <2>1, <3>2, <4>1
    <3>. QED BY <1>3, <3>1, <3>2
  <2>. QED BY <1>5, <2>3 DEF Guidance!Active, Guidance!ActiveIn, Guidance!Versions
<1>11. ASSUME NEW v \in Guidance!Versions, v \notin guidesOvertaken', guides[v].status = "superseded"
       PROVE  guides'[v] = guides[v]
  <2>1. /\ Guidance!Exists(v)
        /\ guides[v] = [status |-> "superseded", text |-> guides[v].text]
    BY <1>11, GuideRows
  <2>2. v # r.on
    BY <1>1, <1>2, <1>11, <2>1 DEF GuideRequest
  <2>. QED BY <1>4, <2>1, <2>2
<1>. QED BY <1>9, <1>10, <1>11

\* Every other step of a request leaves the guides alone.
LEMMA GuideRestKeeps ==
  ASSUME GuidesInv, NEW u \in Editors,
         Guidance!CommitRubric(u) \/ Guidance!CommitInsert(u) \/ Guidance!Refuse(u)
  PROVE  GuidesInv'
<1>1. /\ guideCall' = [guideCall EXCEPT ![u] = Guidance!Idle]
      /\ UNCHANGED <<guides, guidesOvertaken>> /\ guideCalls' \in 0..MaxGuideCalls
  BY DEF GuidesInv, Guidance!CommitRubric, Guidance!CommitInsert, Guidance!Refuse
<1>. QED BY <1>1, GuideRequestSet DEF Guidance!Idle, GuideStates

\* The invariant is inductive, and the history is kept by every step.
LEMMA GuidesInduction ==
  /\ MarketingInit => GuidesInv
  /\ GuidesInv /\ [MarketingNext]_<<focus, packVars, mediaVars, destinationVars, guideVars, vars>>
       => /\ GuidesInv'
          /\ \/ UNCHANGED guideVars
             \/ /\ Guidance!Active # {} => \E v \in Guidance!Versions : Guidance!Active' = {v}
                /\ \A v \in Guidance!Versions \ guidesOvertaken' :
                     guides[v].status = "superseded" => guides'[v] = guides[v]
<1>1. ASSUME MarketingInit PROVE GuidesInv
  <2>1. /\ guides = [v \in Guidance!Versions |-> Guidance!Absent]
        /\ guideCall = [u \in Editors |-> Guidance!Idle] /\ guideCalls = 0
    BY <1>1 DEF MarketingInit, Guidance!Init
  <2>. QED BY <2>1, ServicesAssumption DEF GuidesInv, Guidance!Active, Guidance!ActiveIn,
           Guidance!Absent, Guidance!Idle, GuideStates
<1>2. ASSUME GuidesInv, [MarketingNext]_<<focus, packVars, mediaVars, destinationVars, guideVars, vars>>
      PROVE  Guidance!Next \/ UNCHANGED guideVars
  BY <1>2 DEF MarketingNext
<1>3. ASSUME GuidesInv, UNCHANGED guideVars PROVE GuidesInv'
  <2>1. ASSUME NEW u \in Editors, guideCall[u].pc \in GuideStates PROVE GuideRequest(guideCall[u])'
    <3>1. GuideRequest(guideCall[u])
      BY <1>3, <2>1 DEF GuidesInv
    <3>. QED BY <1>3, <3>1 DEF guideVars, GuideRequest, Guidance!GuideCalls, Guidance!Exists, Guidance!Versions
  <2>. QED BY <1>3, <2>1 DEF guideVars, GuidesInv, Guidance!Active, Guidance!ActiveIn
<1>4. ASSUME GuidesInv, Guidance!Next
      PROVE  /\ GuidesInv'
             /\ Guidance!Active # {} => \E v \in Guidance!Versions : Guidance!Active' = {v}
             /\ \A v \in Guidance!Versions \ guidesOvertaken' :
                  guides[v].status = "superseded" => guides'[v] = guides[v]
  <2>1. PICK u \in Editors : Guidance!Ask(u) \/ Guidance!Continue(u)
    BY <1>4 DEF Guidance!Next
  <2>2. CASE Guidance!CommitGuide(u)
    BY <1>4, <2>2, CommitGuideKeeps
  <2>3. CASE \/ Guidance!Ask(u) \/ Guidance!ListActiveGuides(u)
             \/ Guidance!CommitRubric(u) \/ Guidance!CommitInsert(u) \/ Guidance!Refuse(u)
    <3>1. GuidesInv'
      BY <1>4, <2>3, GuideAskKeeps, ListActiveKeeps, GuideRestKeeps
    <3>2. guides' = guides
      BY <2>3 DEF Guidance!Ask, Guidance!CreateDraft, Guidance!UpdateGuide, Guidance!ActivateGuide,
         Guidance!CreateRubric, Guidance!SetRubricStatus, Guidance!SeedDefaults, Guidance!Begin,
         Guidance!ListActiveGuides, Guidance!CommitRubric, Guidance!CommitInsert, Guidance!Refuse
    <3>3. Guidance!Active' = Guidance!Active
      BY <3>2 DEF Guidance!Active, Guidance!ActiveIn, Guidance!Versions
    <3>4. \A v \in Guidance!Active : Guidance!Active = {v} /\ v \in Guidance!Versions
      BY <1>4 DEF GuidesInv, Guidance!Active, Guidance!ActiveIn
    <3>. QED BY <3>1, <3>2, <3>3, <3>4
  <2>. QED BY <2>1, <2>2, <2>3 DEF Guidance!Continue
<1>. QED BY <1>1, <1>2, <1>3, <1>4

\* One guide stays active and the history stays as it was, for any editors and versions:
\* the unique index admits one active guide, the request that replaces it puts another in
\* its place, and what it supersedes is written again only by a request that it overtook
\* (activate_guide, create_guide, update_guide).
THEOREM GuideHistoryIsKept == MarketingSpec => GuideHistoryKept
<1>1. ASSUME GuidesInv, [MarketingNext]_<<focus, packVars, mediaVars, destinationVars, guideVars, vars>>
      PROVE  \/ UNCHANGED <<guides, rubrics, guideCall, guidesOvertaken, guideCalls>>
             \/ /\ Guidance!Active # {} => \E v \in Guidance!Versions : Guidance!Active' = {v}
                /\ \A v \in Guidance!Versions \ guidesOvertaken' :
                     guides[v].status = "superseded" => guides'[v] = guides[v]
  BY <1>1, GuidesInduction DEF guideVars
<1>. QED BY <1>1, GuidesInduction, PTL DEF MarketingSpec, GuideHistoryKept, Guidance!GuideHistoryKept,
         Guidance!vars

-----------------------------------------------------------------------------
(* Destinations.                                                           *)
(*                                                                         *)
(* A request that is fresh read the row that is there now.  What it writes *)
(* was decided on that row, so it is enough that no decision leaves the    *)
(* archive or changes a validated identifier.                              *)

DestinationRequest(r) ==
  /\ r \in Publishing!DestinationCalls
  /\ r.seen # Publishing!Absent => destinations[r.on] # Publishing!Absent
  /\ r.fresh => destinations[r.on] = r.seen
  /\ r.seen.status = "archived" => r.row.status = "archived"
  /\ r.seen # Publishing!Absent /\ r.seen.validation_status = "unavailable" =>
       r.row.external_id = r.seen.external_id

DestinationsInv ==
  /\ destinations \in [Destinations -> Publishing!DestinationRows \cup {Publishing!Absent}]
  /\ destinationCall = [u \in Editors |-> destinationCall[u]]
  /\ \A u \in Editors : destinationCall[u].pc = "destination" => DestinationRequest(destinationCall[u])

\* What a step may do to the destinations.
Settled ==
  \A d \in Destinations \ destinationsOvertaken' :
    /\ destinations[d].status = "archived" => destinations'[d].status = "archived"
    /\ destinations[d] # Publishing!Absent /\ destinations[d].validation_status = "unavailable" =>
         destinations'[d].external_id = destinations[d].external_id

DestinationColumns == {"status", "type", "connection", "external_id", "validation_status"}

\* No destination is the absent row.
LEMMA DestinationIsThere ==
  ASSUME NEW written \in Publishing!DestinationRows
  PROVE  /\ written # Publishing!Absent /\ written.status # "absent"
         /\ DOMAIN written = DestinationColumns
         /\ written = [status |-> written.status, type |-> written.type,
                        connection |-> written.connection, external_id |-> written.external_id,
                        validation_status |-> written.validation_status]
BY DEF Publishing!DestinationRows, Publishing!Absent, DestinationColumns

\* A merge gives a destination, and a fresh request writes the row it decided on.
LEMMA MergedDestination ==
  ASSUME NEW now \in Publishing!DestinationRows \cup {Publishing!Absent},
         NEW r \in Publishing!DestinationCalls,
         r.seen # Publishing!Absent => now # Publishing!Absent
  PROVE  /\ Publishing!Merged(now, r) \in Publishing!DestinationRows
         /\ now = r.seen => Publishing!Merged(now, r) = r.row
<1>1. /\ r.row \in Publishing!DestinationRows
      /\ r.seen \in Publishing!DestinationRows \cup {Publishing!Absent}
  BY DEF Publishing!DestinationCalls
<1>2. CASE r.seen = Publishing!Absent
  BY <1>1, <1>2 DEF Publishing!Merged
<1>3. CASE r.seen # Publishing!Absent
  <2>. DEFINE m == Publishing!Merged(now, r)
  <2>1. PICK written : written = r.row BY Zenon
  <2>2. PICK seen : seen = r.seen BY Zenon
  <2>3. written \in Publishing!DestinationRows /\ now \in Publishing!DestinationRows
    BY <1>1, <1>3, <2>1
  <2>4. DOMAIN now = DestinationColumns /\ DOMAIN written = DestinationColumns
    BY <2>3, DestinationIsThere
  <2>5. m = [column \in DestinationColumns |->
               IF written[column] # seen[column] THEN written[column] ELSE now[column]]
    BY <1>3, <2>1, <2>2, <2>4 DEF Publishing!Merged
  <2>6. m = [status |-> m.status, type |-> m.type, connection |-> m.connection,
             external_id |-> m.external_id, validation_status |-> m.validation_status]
    BY <2>5 DEF DestinationColumns
  <2>7. /\ m.status \in {written.status, now.status} /\ m.type \in {written.type, now.type}
        /\ m.connection \in {written.connection, now.connection}
        /\ m.external_id \in {written.external_id, now.external_id}
        /\ m.validation_status \in {written.validation_status, now.validation_status}
    BY <2>5 DEF DestinationColumns
  <2>8. /\ written.status \in {"enabled", "disabled", "archived"}
        /\ now.status \in {"enabled", "disabled", "archived"}
        /\ written.type \in Types /\ now.type \in Types
        /\ written.connection \in Connections /\ now.connection \in Connections
        /\ written.external_id \in ExternalIds /\ now.external_id \in ExternalIds
        /\ written.validation_status \in {"unchecked", "unavailable"}
        /\ now.validation_status \in {"unchecked", "unavailable"}
    BY <2>3 DEF Publishing!DestinationRows
  <2>9. m \in Publishing!DestinationRows
    <3>. HIDE DEF m
    <3>. QED BY <2>6, <2>7, <2>8 DEF Publishing!DestinationRows
  <2>10. ASSUME now = seen PROVE m = written
    <3>1. m = [column \in DestinationColumns |-> written[column]]
      BY <2>5, <2>10
    <3>2. m.status = written.status /\ m.type = written.type /\ m.connection = written.connection
          /\ m.external_id = written.external_id /\ m.validation_status = written.validation_status
      BY <3>1 DEF DestinationColumns
    <3>. HIDE DEF m
    <3>. QED BY <2>3, <2>6, <3>2, DestinationIsThere
  <2>. QED BY <2>1, <2>2, <2>9, <2>10
<1>. QED BY <1>2, <1>3

\* A step that only changes what one request holds.
LEMMA DestinationRequestSet ==
  ASSUME DestinationsInv, NEW u \in Editors, NEW r, destinationCall' = [destinationCall EXCEPT ![u] = r],
         r.pc = "destination" => DestinationRequest(r), UNCHANGED destinations
  PROVE  DestinationsInv' /\ Settled
<1>1. \A t \in Editors : destinationCall'[t] = IF t = u THEN r ELSE destinationCall[t]
  BY DEF DestinationsInv
<1>2. ASSUME NEW t \in Editors, destinationCall'[t].pc = "destination"
      PROVE  DestinationRequest(destinationCall[t])'
  <2>. PICK q : q = destinationCall'[t] BY Zenon
  <2>1. DestinationRequest(q)
    BY <1>1, <1>2 DEF DestinationsInv
  <2>. QED BY <2>1 DEF DestinationRequest, Publishing!DestinationCalls, Publishing!DestinationRows
<1>3. destinationCall' = [t \in Editors |-> destinationCall'[t]]
  BY DEF DestinationsInv
<1>. QED BY <1>2, <1>3 DEF DestinationsInv, Settled

\* A request that decides on a destination it has just read.
LEMMA WriteDestinationKeeps ==
  ASSUME DestinationsInv, NEW u \in Editors, NEW d \in Destinations,
         NEW written \in Publishing!DestinationRows, Publishing!WriteDestination(u, d, written),
         destinations[d].status = "archived" => written.status = "archived",
         destinations[d] # Publishing!Absent /\ destinations[d].validation_status = "unavailable" =>
           written.external_id = destinations[d].external_id
  PROVE  DestinationsInv' /\ Settled
<1>. DEFINE r == [pc |-> "destination", on |-> d, seen |-> destinations[d], row |-> written, fresh |-> TRUE]
<1>1. /\ destinationCall' = [destinationCall EXCEPT ![u] = r]
      /\ UNCHANGED destinations
  BY DEF Publishing!WriteDestination, Publishing!Begin
<1>2. r \in Publishing!DestinationCalls
  BY DEF DestinationsInv, Publishing!DestinationCalls
<1>3. DestinationRequest(r)
  BY <1>2 DEF DestinationRequest
<1>. HIDE DEF r
<1>. QED BY <1>1, <1>3, DestinationRequestSet

\* A column of a destination is changed.
LEMMA DestinationChanged ==
  ASSUME NEW written \in Publishing!DestinationRows
  PROVE  /\ \A status \in {"enabled", "disabled", "archived"} :
              /\ [written EXCEPT !.status = status] \in Publishing!DestinationRows
              /\ [written EXCEPT !.status = status].status = status
              /\ [written EXCEPT !.status = status].external_id = written.external_id
         /\ \A id \in ExternalIds :
              /\ [written EXCEPT !.external_id = id] \in Publishing!DestinationRows
              /\ [written EXCEPT !.external_id = id].status = written.status
         /\ Publishing!Validated(written) \in Publishing!DestinationRows
         /\ Publishing!Validated(written).status = written.status
         /\ Publishing!Validated(written).external_id = written.external_id
BY DEF Publishing!DestinationRows, Publishing!Validated

\* Every request on a destination decides on the row that it reads.
LEMMA DestinationAskKeeps ==
  ASSUME DestinationsInv, NEW u \in Editors, Publishing!Ask(u)
  PROVE  DestinationsInv' /\ Settled
<1>1. ASSUME NEW d \in Destinations, destinations[d] # Publishing!Absent
      PROVE  destinations[d] \in Publishing!DestinationRows
  BY <1>1 DEF DestinationsInv
<1>2. ASSUME NEW d \in Destinations, Publishing!Live(d)
      PROVE  destinations[d] # Publishing!Absent /\ destinations[d].status # "archived"
  BY <1>2 DEF Publishing!Live, Publishing!Absent
<1>3. ASSUME NEW r, Publishing!Begin(u, r), r.pc = "connection"
      PROVE  DestinationsInv' /\ Settled
  BY <1>3, DestinationRequestSet DEF Publishing!Begin
<1>4. CASE Publishing!CreateConnection(u) \/ Publishing!UpdateMetadata(u) \/ Publishing!SetConnectionStatus(u)
  <2>1. ASSUME NEW c \in Connections, NEW written, Publishing!WriteConnection(u, c, written)
        PROVE  DestinationsInv' /\ Settled
    <3>. DEFINE r == [pc |-> "connection", on |-> c, seen |-> connections[c], row |-> written]
    <3>1. Publishing!Begin(u, r) /\ r.pc = "connection"
      BY <2>1 DEF Publishing!WriteConnection
    <3>. HIDE DEF r
    <3>. QED BY <1>3, <3>1
  <2>2. CASE Publishing!CreateConnection(u)
    <3>1. PICK c \in Connections, provider \in Publishing!Providers, account \in Accounts \cup {None} :
            Publishing!WriteConnection(u, c, [status |-> "not_connected", provider |-> provider,
                                              account |-> account])
      BY <2>2 DEF Publishing!CreateConnection
    <3>. QED BY <2>1, <3>1
  <2>3. CASE Publishing!UpdateMetadata(u)
    <3>1. PICK c \in Connections, account \in Accounts \cup {None} :
            Publishing!WriteConnection(u, c, [connections[c] EXCEPT !.account = account])
      BY <2>3 DEF Publishing!UpdateMetadata
    <3>. QED BY <2>1, <3>1
  <2>4. CASE Publishing!SetConnectionStatus(u)
    <3>1. PICK c \in Connections, status \in {"active", "disabled", "not_connected"} :
            Publishing!WriteConnection(u, c, [connections[c] EXCEPT !.status = status])
      BY <2>4 DEF Publishing!SetConnectionStatus
    <3>. QED BY <2>1, <3>1
  <2>. QED BY <1>4, <2>2, <2>3, <2>4
<1>5. CASE Publishing!CreateDestination(u)
  <2>1. PICK d \in Destinations, c \in Connections, type \in Types, id \in ExternalIds :
          /\ destinations[d] = Publishing!Absent
          /\ Publishing!WriteDestination(u, d,
               [status |-> IF Publishing!Usable(type) THEN "enabled" ELSE "disabled", type |-> type,
                connection |-> c, external_id |-> id, validation_status |-> "unchecked"])
    BY <1>5 DEF Publishing!CreateDestination
  <2>. DEFINE written ==
                [status |-> IF Publishing!Usable(type) THEN "enabled" ELSE "disabled",
                 type |-> type, connection |-> c, external_id |-> id,
                 validation_status |-> "unchecked"]
  <2>2. written \in Publishing!DestinationRows
    BY DEF Publishing!DestinationRows
  <2>3. destinations[d].status # "archived"
    BY <2>1 DEF Publishing!Absent
  <2>. QED BY <2>1, <2>2, <2>3, WriteDestinationKeeps
<1>6. CASE Publishing!UpdateExternalId(u)
  <2>1. PICK d \in Destinations, id \in ExternalIds :
          /\ Publishing!Live(d) /\ destinations[d].validation_status = "unchecked"
          /\ Publishing!WriteDestination(u, d, [destinations[d] EXCEPT !.external_id = id])
    BY <1>6 DEF Publishing!UpdateExternalId, Publishing!ExternalIdMutable
  <2>. QED BY <1>1, <1>2, <2>1, DestinationChanged, WriteDestinationKeeps
<1>7. CASE Publishing!EnableDestination(u)
  <2>1. PICK d \in Destinations :
          /\ Publishing!Live(d)
          /\ Publishing!WriteDestination(u, d, [destinations[d] EXCEPT !.status = "enabled"])
    BY <1>7 DEF Publishing!EnableDestination
  <2>. QED BY <1>1, <1>2, <2>1, DestinationChanged, WriteDestinationKeeps
<1>8. CASE Publishing!DisableDestination(u)
  <2>1. PICK d \in Destinations :
          /\ Publishing!Live(d)
          /\ Publishing!WriteDestination(u, d, [destinations[d] EXCEPT !.status = "disabled"])
    BY <1>8 DEF Publishing!DisableDestination
  <2>. QED BY <1>1, <1>2, <2>1, DestinationChanged, WriteDestinationKeeps
<1>9. CASE Publishing!ArchiveDestination(u)
  <2>1. PICK d \in Destinations :
          /\ destinations[d] # Publishing!Absent
          /\ Publishing!WriteDestination(u, d, [destinations[d] EXCEPT !.status = "archived"])
    BY <1>9 DEF Publishing!ArchiveDestination
  <2>. QED BY <1>1, <2>1, DestinationChanged, WriteDestinationKeeps
<1>10. CASE Publishing!ValidateDestination(u)
  <2>1. PICK d \in Destinations :
          Publishing!Live(d) /\ Publishing!WriteDestination(u, d, Publishing!Validated(destinations[d]))
    BY <1>10 DEF Publishing!ValidateDestination
  <2>. QED BY <1>1, <1>2, <2>1, DestinationChanged, WriteDestinationKeeps
<1>. QED BY <1>4, <1>5, <1>6, <1>7, <1>8, <1>9, <1>10 DEF Publishing!Ask

\* A commit writes what was decided, and the other requests on the destination are no
\* longer fresh.
LEMMA CommitDestinationKeeps ==
  ASSUME DestinationsInv, NEW u \in Editors, Publishing!CommitDestination(u)
  PROVE  DestinationsInv' /\ Settled
<1>. PICK r : r = destinationCall[u] BY Zenon
<1>. PICK d : d = r.on BY Zenon
<1>. PICK merged : merged = Publishing!Merged(destinations[d], r) BY Zenon
<1>1. /\ r \in Publishing!DestinationCalls
      /\ destinations' = [destinations EXCEPT ![d] = merged]
      /\ destinationsOvertaken' = IF r.fresh THEN destinationsOvertaken ELSE destinationsOvertaken \cup {d}
      /\ destinationCall' = [t \in Editors |->
           IF t = u THEN Publishing!Idle
           ELSE IF destinationCall[t] \in Publishing!DestinationCalls /\ destinationCall[t].on = d
             THEN [destinationCall[t] EXCEPT !.fresh = FALSE] ELSE destinationCall[t]]
  BY DEF Publishing!CommitDestination
<1>2. DestinationRequest(r) /\ d \in Destinations
  BY <1>1 DEF DestinationsInv, Publishing!DestinationCalls
<1>3. destinations[d] \in Publishing!DestinationRows \cup {Publishing!Absent}
  BY <1>2 DEF DestinationsInv
<1>4. /\ merged \in Publishing!DestinationRows
      /\ destinations[d] = r.seen => merged = r.row
  BY <1>1, <1>2, <1>3, MergedDestination DEF DestinationRequest
<1>5. merged # Publishing!Absent
  BY <1>4, DestinationIsThere
<1>6. \A e \in Destinations : destinations'[e] = IF e = d THEN merged ELSE destinations[e]
  BY <1>1 DEF DestinationsInv
<1>7. destinations' \in [Destinations -> Publishing!DestinationRows \cup {Publishing!Absent}]
  BY <1>1, <1>4 DEF DestinationsInv
<1>8. Settled
  <2>1. ASSUME d \notin destinationsOvertaken' PROVE r.fresh /\ destinations[d] = r.seen /\ merged = r.row
    BY <1>1, <1>2, <1>4, <2>1 DEF DestinationRequest
  <2>. QED BY <1>2, <1>6, <2>1 DEF Settled, DestinationRequest
<1>9. ASSUME NEW t \in Editors, NEW q, q = destinationCall'[t], q.pc = "destination"
      PROVE  DestinationRequest(q)'
  <2>. PICK p : p = destinationCall[t] BY Zenon
  <2>1. t # u
    BY <1>1, <1>9 DEF Publishing!Idle
  <2>2. CASE p \in Publishing!DestinationCalls /\ p.on = d
    <3>1. q = [p EXCEPT !.fresh = FALSE]
      BY <1>1, <1>9, <2>1, <2>2
    <3>2. /\ q \in Publishing!DestinationCalls /\ q.on = d /\ q.seen = p.seen /\ q.row = p.row
          /\ ~q.fresh /\ p.pc = "destination"
      BY <2>2, <3>1 DEF Publishing!DestinationCalls
    <3>3. DestinationRequest(p)
      BY <3>2 DEF DestinationsInv
    <3>4. destinations'[q.on] # Publishing!Absent
      BY <1>2, <1>5, <1>6, <3>2
    <3>. QED BY <3>2, <3>3, <3>4 DEF DestinationRequest, Publishing!DestinationCalls,
             Publishing!DestinationRows, Publishing!Absent
  <2>3. CASE ~(p \in Publishing!DestinationCalls /\ p.on = d)
    <3>1. q = p
      BY <1>1, <1>9, <2>1, <2>3
    <3>2. DestinationRequest(q) /\ q.on # d /\ q.on \in Destinations
      BY <1>9, <2>3, <3>1 DEF DestinationsInv, DestinationRequest, Publishing!DestinationCalls
    <3>3. destinations'[q.on] = destinations[q.on]
      BY <1>6, <3>2
    <3>. QED BY <3>2, <3>3 DEF DestinationRequest, Publishing!DestinationCalls,
             Publishing!DestinationRows, Publishing!Absent
  <2>. QED BY <2>2, <2>3
<1>10. ASSUME NEW t \in Editors, destinationCall'[t].pc = "destination"
       PROVE  DestinationRequest(destinationCall[t])'
  <2>. PICK q : q = destinationCall'[t] BY Zenon
  <2>1. DestinationRequest(q)'
    BY <1>9, <1>10
  <2>. QED BY <2>1 DEF DestinationRequest
<1>11. destinationCall' = [t \in Editors |-> destinationCall'[t]]
  BY <1>1
<1>. QED BY <1>7, <1>8, <1>10, <1>11 DEF DestinationsInv, Publishing!DestinationRows, Publishing!Absent

\* The invariant is inductive, and what is settled stays so in every step.
LEMMA DestinationsInduction ==
  /\ MarketingInit => DestinationsInv
  /\ DestinationsInv /\ [MarketingNext]_<<focus, packVars, mediaVars, destinationVars, guideVars, vars>>
       => DestinationsInv' /\ (Settled \/ UNCHANGED destinationVars)
<1>1. ASSUME MarketingInit PROVE DestinationsInv
  <2>1. /\ destinations = [d \in Destinations |-> Publishing!Absent]
        /\ destinationCall = [u \in Editors |-> Publishing!Idle]
    BY <1>1 DEF MarketingInit, Publishing!Init
  <2>. QED BY <2>1 DEF DestinationsInv, Publishing!Idle
<1>2. ASSUME DestinationsInv, [MarketingNext]_<<focus, packVars, mediaVars, destinationVars, guideVars, vars>>
      PROVE  Publishing!Next \/ UNCHANGED destinationVars
  BY <1>2 DEF MarketingNext
<1>3. ASSUME DestinationsInv, UNCHANGED destinationVars PROVE DestinationsInv'
  <2>1. ASSUME NEW u \in Editors, destinationCall[u].pc = "destination"
        PROVE  DestinationRequest(destinationCall[u])'
    <3>1. DestinationRequest(destinationCall[u])
      BY <1>3, <2>1 DEF DestinationsInv
    <3>. QED BY <1>3, <3>1 DEF destinationVars, DestinationRequest, Publishing!DestinationCalls,
             Publishing!DestinationRows
  <2>. QED BY <1>3, <2>1 DEF destinationVars, DestinationsInv
<1>4. ASSUME DestinationsInv, Publishing!Next PROVE DestinationsInv' /\ Settled
  <2>1. PICK u \in Editors : Publishing!Ask(u) \/ Publishing!CommitConnection(u)
                             \/ Publishing!CommitDestination(u) \/ Publishing!Rollback(u)
    BY <1>4 DEF Publishing!Next
  <2>2. CASE Publishing!Ask(u)
    BY <1>4, <2>2, DestinationAskKeeps
  <2>3. CASE Publishing!CommitDestination(u)
    BY <1>4, <2>3, CommitDestinationKeeps
  <2>4. CASE Publishing!CommitConnection(u) \/ Publishing!Rollback(u)
    <3>1. /\ destinationCall' = [destinationCall EXCEPT ![u] = Publishing!Idle]
          /\ UNCHANGED destinations
      BY <2>4 DEF Publishing!CommitConnection, Publishing!Rollback
    <3>. QED BY <1>4, <3>1, DestinationRequestSet DEF Publishing!Idle
  <2>. QED BY <2>1, <2>2, <2>3, <2>4
<1>. QED BY <1>1, <1>2, <1>3, <1>4

\* The identity of a destination stays as it was validated, and the archive keeps what is
\* in it, for any administrators and destinations: between the read and the write of a
\* request that nobody overtook, the row has not changed (update_destination, archive,
\* validate and the partial writes of their commits).
THEOREM IdentitiesAreSettled == MarketingSpec => IdentitiesSettled
<1>1. ASSUME DestinationsInv,
             [MarketingNext]_<<focus, packVars, mediaVars, destinationVars, guideVars, vars>>
      PROVE  \/ UNCHANGED <<connections, destinations, destinationCall, destinationsOvertaken,
                            destinationCalls>>
             \/ Settled
  BY <1>1, DestinationsInduction DEF destinationVars
<1>. QED BY <1>1, DestinationsInduction, PTL DEF MarketingSpec, IdentitiesSettled,
         Publishing!IdentitiesSettled, Publishing!vars, Settled

-----------------------------------------------------------------------------
(* Media.                                                                  *)
(*                                                                         *)
(* No two requests have an asset in common, so each accounts for its own:  *)
(* no row names the asset until it is committed, the object is there from  *)
(* the put on, and is deleted only if there is no row or nobody was told   *)
(* of it.                                                                  *)

MediaStates == {"checked", "stored", "compensating", "committed"}

MediaRequest(r) ==
  /\ r \in Media!MediaCalls
  /\ r.pc \in {"checked", "stored"} => assets[r.asset] = Media!Absent
  /\ r.pc \in {"stored", "compensating"} => r.row.mode = "FLEXITY_MANAGED"
  /\ r.pc \in {"stored", "compensating"} => r.asset \in objects
  /\ r.pc = "compensating" => assets[r.asset] = Media!Absent \/ r.asset \in unheard

StorageInv ==
  /\ assets \in [Assets -> Media!AssetRows \cup {Media!Absent}]
  /\ objects \subseteq Assets
  /\ mediaCall = [u \in Editors |-> mediaCall[u]]
  /\ \A u \in Editors : mediaCall[u].pc \in MediaStates => MediaRequest(mediaCall[u])
  /\ \A u, w \in Editors :
       /\ mediaCall[u].pc \in MediaStates /\ mediaCall[w].pc \in MediaStates /\ u # w
       => mediaCall[u].asset # mediaCall[w].asset
  /\ \A a \in Assets : assets[a] # Media!Absent /\ a \notin unheard =>
       assets[a].mode = "CLIENT_PUBLIC_URL" \/ a \in objects
  /\ \A a \in objects :
       \/ assets[a] # Media!Absent
       \/ a \in abandoned
       \/ \E u \in Editors : mediaCall[u].pc \in {"stored", "compensating"} /\ mediaCall[u].asset = a

\* A step of u that leaves it with the request r, and keeps to x.
AboutOne(u, x, r) ==
  /\ mediaCall' = [mediaCall EXCEPT ![u] = r]
  /\ \A t \in Editors \ {u} : mediaCall[t].pc \in MediaStates => mediaCall[t].asset # x
  /\ mediaCall[u].pc \in {"stored", "compensating"} => mediaCall[u].asset = x
  /\ r.pc \in MediaStates => r.asset = x /\ MediaRequest(r)'
  /\ assets' \in [Assets -> Media!AssetRows \cup {Media!Absent}]
  /\ objects' \subseteq Assets
  /\ \A a \in Assets \ {x} :
       /\ assets'[a] = assets[a] /\ (a \in objects' <=> a \in objects)
       /\ a \in unheard' <=> a \in unheard
       /\ a \in abandoned => a \in abandoned'
  /\ assets'[x] # Media!Absent /\ x \notin unheard' =>
       assets'[x].mode = "CLIENT_PUBLIC_URL" \/ x \in objects'
  /\ x \in objects' => \/ assets'[x] # Media!Absent \/ x \in abandoned'
                       \/ r.pc \in {"stored", "compensating"}

\* Such a step keeps the invariant.
LEMMA StorageStep ==
  ASSUME StorageInv, NEW u \in Editors, NEW x \in Assets, NEW r, AboutOne(u, x, r)
  PROVE  StorageInv'
<1>. USE DEF AboutOne
<1>1. \A t \in Editors : mediaCall'[t] = IF t = u THEN r ELSE mediaCall[t]
  BY DEF StorageInv
<1>2. mediaCall' = [t \in Editors |-> mediaCall'[t]]
  BY DEF StorageInv
<1>3. ASSUME NEW t \in Editors, NEW q, q = mediaCall'[t], q.pc \in MediaStates
      PROVE  MediaRequest(q)'
  <2>1. CASE t = u
    BY <1>1, <1>3, <2>1
  <2>2. CASE t # u
    <3>1. q = mediaCall[t] /\ MediaRequest(q) /\ q.asset \in Assets \ {x}
      BY <1>1, <1>3, <2>2 DEF StorageInv, MediaRequest, Media!MediaCalls
    <3>2. /\ assets'[q.asset] = assets[q.asset] /\ (q.asset \in objects' <=> q.asset \in objects)
          /\ q.asset \in unheard' <=> q.asset \in unheard
      BY <3>1
    <3>. QED BY <3>1, <3>2 DEF MediaRequest, Media!MediaCalls, Media!AssetRows, Media!Modes,
             Media!Absent
  <2>. QED BY <2>1, <2>2
<1>4. ASSUME NEW t \in Editors, mediaCall'[t].pc \in MediaStates
      PROVE  MediaRequest(mediaCall[t])'
  <2>. PICK q : q = mediaCall'[t] BY Zenon
  <2>1. MediaRequest(q)'
    BY <1>3, <1>4
  <2>. QED BY <2>1 DEF MediaRequest
<1>5. (\A t, w \in Editors :
         /\ mediaCall[t].pc \in MediaStates /\ mediaCall[w].pc \in MediaStates /\ t # w
         => mediaCall[t].asset # mediaCall[w].asset)'
  BY <1>1 DEF StorageInv
<1>6. \A a \in Assets : assets'[a] # Media!Absent /\ a \notin unheard' =>
        assets'[a].mode = "CLIENT_PUBLIC_URL" \/ a \in objects'
  BY DEF StorageInv
<1>7. ASSUME NEW a \in objects'
      PROVE  \/ assets'[a] # Media!Absent
             \/ a \in abandoned'
             \/ \E t \in Editors : mediaCall'[t].pc \in {"stored", "compensating"} /\ mediaCall'[t].asset = a
  <2>1. CASE a = x
    BY <1>1, <2>1 DEF MediaStates
  <2>2. CASE a # x
    <3>1. a \in objects /\ assets'[a] = assets[a] /\ (a \in abandoned => a \in abandoned')
      BY <2>2
    <3>2. ASSUME NEW t \in Editors, mediaCall[t].pc \in {"stored", "compensating"}, mediaCall[t].asset = a
          PROVE  mediaCall'[t] = mediaCall[t]
      BY <1>1, <2>2, <3>2
    <3>. QED BY <3>1, <3>2 DEF StorageInv
  <2>. QED BY <2>1, <2>2
<1>. QED BY <1>2, <1>4, <1>5, <1>6, <1>7 DEF StorageInv, Media!AssetRows, Media!Modes, Media!Absent

\* A step that leaves the media and their requests alone.
LEMMA StorageUntouched ==
  ASSUME StorageInv, UNCHANGED <<assets, objects, abandoned, unheard>>,
         mediaCall' = [t \in Editors |-> mediaCall'[t]],
         \A t \in Editors : mediaCall[t].pc \in MediaStates \/ mediaCall'[t].pc \in MediaStates
                            => mediaCall'[t] = mediaCall[t]
  PROVE  StorageInv'
<1>1. ASSUME NEW t \in Editors, mediaCall'[t].pc \in MediaStates
      PROVE  MediaRequest(mediaCall[t])'
  <2>. PICK q : q = mediaCall'[t] BY Zenon
  <2>1. MediaRequest(q)
    BY <1>1 DEF StorageInv
  <2>. QED BY <2>1 DEF MediaRequest, Media!MediaCalls, Media!AssetRows
<1>2. \A t \in Editors : mediaCall[t].pc \in {"stored", "compensating"} => mediaCall'[t] = mediaCall[t]
  BY DEF MediaStates
<1>. QED BY <1>1, <1>2 DEF StorageInv

\* An asset is chosen that nobody has.
LEMMA CheckedKeeps ==
  ASSUME StorageInv, NEW u \in Editors, NEW mode \in Media!Modes, Media!Checked(u, mode)
  PROVE  StorageInv'
<1>1. PICK a \in Assets, p \in Media!ActiveIn(mode) :
        /\ Media!Storable(a)
        /\ Media!Begin(u, [pc |-> "checked", asset |-> a,
                           row |-> [status |-> "stored", mode |-> mode, profile |-> p]])
  BY DEF Media!Checked
<1>. DEFINE r == [pc |-> "checked", asset |-> a,
                  row |-> [status |-> "stored", mode |-> mode, profile |-> p]]
<1>2. /\ mediaCall' = [mediaCall EXCEPT ![u] = r] /\ mediaCall[u] = Media!Idle
      /\ UNCHANGED <<assets, objects, abandoned, unheard>>
  BY <1>1 DEF Media!Begin
<1>3. r \in Media!MediaCalls /\ r.pc = "checked" /\ r.asset = a
  BY <1>1 DEF Media!MediaCalls, Media!AssetRows, Media!ActiveIn
<1>. HIDE DEF r
<1>4. MediaRequest(r)'
  BY <1>1, <1>2, <1>3 DEF MediaRequest, Media!Storable, Media!MediaCalls, Media!AssetRows
<1>5. \A t \in Editors \ {u} : mediaCall[t].pc \in MediaStates => mediaCall[t].asset # a
  BY <1>1 DEF Media!Storable, StorageInv, MediaRequest
<1>6. a \notin objects /\ assets[a] = Media!Absent
  BY <1>1 DEF Media!Storable
<1>7. /\ assets' \in [Assets -> Media!AssetRows \cup {Media!Absent}] /\ objects' \subseteq Assets
      /\ mediaCall[u].pc \notin {"stored", "compensating"}
      /\ assets' = assets /\ objects' = objects /\ abandoned' = abandoned /\ unheard' = unheard
  BY <1>2 DEF StorageInv, Media!Idle
<1>8. /\ assets'[a] = Media!Absent /\ a \notin objects'
      /\ \A b \in Assets \ {a} :
           /\ assets'[b] = assets[b] /\ (b \in objects' <=> b \in objects)
           /\ b \in unheard' <=> b \in unheard
           /\ b \in abandoned => b \in abandoned'
  BY <1>6, <1>7
<1>9. AboutOne(u, a, r)
  BY <1>2, <1>3, <1>4, <1>5, <1>7, <1>8 DEF AboutOne
<1>. QED BY <1>9, StorageStep

\* What the steps of a request that stores or registers an asset start from.
LEMMA MediaStep ==
  ASSUME StorageInv, NEW u \in Editors, mediaCall[u].pc \in MediaStates
  PROVE  /\ MediaRequest(mediaCall[u]) /\ mediaCall[u].asset \in Assets
         /\ mediaCall[u].row \in Media!AssetRows
         /\ \A t \in Editors \ {u} : mediaCall[t].pc \in MediaStates =>
              mediaCall[t].asset # mediaCall[u].asset
<1>1. MediaRequest(mediaCall[u])
  BY DEF StorageInv
<1>. QED BY <1>1 DEF StorageInv, MediaRequest, Media!MediaCalls

\* The put: the object is there, and its request knows.
LEMMA PutObjectKeeps ==
  ASSUME StorageInv, NEW u \in Editors, Media!PutObject(u)
  PROVE  StorageInv'
<1>. PICK q : q = mediaCall[u] BY Zenon
<1>. PICK x : x = q.asset BY Zenon
<1>. DEFINE r == [q EXCEPT !.pc = "stored"]
<1>1. /\ q.pc = "checked" /\ q.row.mode = "FLEXITY_MANAGED" /\ objects' = objects \cup {x}
      /\ mediaCall' = [mediaCall EXCEPT ![u] = r]
      /\ assets' = assets /\ abandoned' = abandoned /\ unheard' = unheard
  BY DEF Media!PutObject, Media!Managed
<1>2. /\ MediaRequest(q) /\ x \in Assets
      /\ \A t \in Editors \ {u} : mediaCall[t].pc \in MediaStates => mediaCall[t].asset # x
  BY <1>1, MediaStep DEF MediaStates
<1>3. /\ r \in Media!MediaCalls /\ r.pc = "stored" /\ r.asset = x /\ r.row = q.row
  BY <1>2 DEF MediaRequest, Media!MediaCalls
<1>. HIDE DEF r
<1>4. MediaRequest(r)'
  BY <1>1, <1>2, <1>3 DEF MediaRequest, Media!MediaCalls, Media!AssetRows
<1>5. /\ assets' \in [Assets -> Media!AssetRows \cup {Media!Absent}] /\ objects' \subseteq Assets
      /\ mediaCall[u].pc \notin {"stored", "compensating"}
  BY <1>1, <1>2 DEF StorageInv
<1>6. AboutOne(u, x, r)
  BY <1>1, <1>2, <1>3, <1>4, <1>5 DEF AboutOne
<1>. QED BY <1>2, <1>6, StorageStep

\* The commit: the row names an object that is there, or an address.
LEMMA CommitAssetKeeps ==
  ASSUME StorageInv, NEW u \in Editors, Media!CommitAsset(u)
  PROVE  StorageInv'
<1>. PICK q : q = mediaCall[u] BY Zenon
<1>. PICK x : x = q.asset BY Zenon
<1>. DEFINE r == [q EXCEPT !.pc = "committed"]
<1>1. /\ q.pc = "stored" \/ (q.pc = "checked" /\ q.row.mode # "FLEXITY_MANAGED")
      /\ mediaCall' = [mediaCall EXCEPT ![u] = r]
      /\ assets' = [assets EXCEPT ![x] = q.row]
      /\ objects' = objects /\ abandoned' = abandoned /\ unheard' = unheard
  BY DEF Media!CommitAsset, Media!Committing, Media!Managed
<1>2. /\ MediaRequest(q) /\ x \in Assets /\ q.row \in Media!AssetRows
      /\ \A t \in Editors \ {u} : mediaCall[t].pc \in MediaStates => mediaCall[t].asset # x
  BY <1>1, MediaStep DEF MediaStates
<1>3. /\ r \in Media!MediaCalls /\ r.pc = "committed" /\ r.asset = x
  BY <1>2 DEF MediaRequest, Media!MediaCalls
<1>. HIDE DEF r
<1>4. MediaRequest(r)'
  BY <1>3 DEF MediaRequest, Media!MediaCalls, Media!AssetRows
<1>5. /\ assets' \in [Assets -> Media!AssetRows \cup {Media!Absent}] /\ objects' \subseteq Assets
      /\ assets'[x] = q.row /\ \A a \in Assets \ {x} : assets'[a] = assets[a]
  BY <1>1, <1>2 DEF StorageInv
<1>6. q.row.mode = "CLIENT_PUBLIC_URL" \/ x \in objects
  BY <1>1, <1>2 DEF MediaRequest, Media!AssetRows, Media!Modes
<1>7. q.row # Media!Absent
  BY <1>2 DEF Media!AssetRows, Media!Absent
<1>8. AboutOne(u, x, r)
  BY <1>1, <1>2, <1>3, <1>4, <1>5, <1>6, <1>7 DEF AboutOne
<1>. QED BY <1>2, <1>8, StorageStep

\* The lost acknowledgement: the object may go, and the row is known as unheard of.
LEMMA LoseAcknowledgementKeeps ==
  ASSUME StorageInv, NEW u \in Editors, Media!LoseAcknowledgement(u)
  PROVE  StorageInv'
<1>. PICK q : q = mediaCall[u] BY Zenon
<1>. PICK x : x = q.asset BY Zenon
<1>. DEFINE r == IF q.row.mode = "FLEXITY_MANAGED" THEN [q EXCEPT !.pc = "compensating"]
                 ELSE Media!Idle
<1>1. /\ q.pc = "stored" \/ (q.pc = "checked" /\ q.row.mode # "FLEXITY_MANAGED")
      /\ mediaCall' = [mediaCall EXCEPT ![u] = r]
      /\ assets' = [assets EXCEPT ![x] = q.row]
      /\ objects' = objects /\ abandoned' = abandoned /\ unheard' = unheard \cup {x}
  BY DEF Media!LoseAcknowledgement, Media!Committing, Media!Managed, Media!Compensating
<1>2. /\ MediaRequest(q) /\ x \in Assets /\ q.row \in Media!AssetRows
      /\ \A t \in Editors \ {u} : mediaCall[t].pc \in MediaStates => mediaCall[t].asset # x
  BY <1>1, MediaStep DEF MediaStates
<1>3. r.pc \in MediaStates =>
        /\ r \in Media!MediaCalls /\ r.pc = "compensating" /\ r.asset = x
        /\ r.row = q.row /\ r.row.mode = "FLEXITY_MANAGED"
  BY <1>2 DEF MediaRequest, Media!MediaCalls, Media!Idle, MediaStates
<1>. HIDE DEF r
<1>4. r.pc \in MediaStates => MediaRequest(r)'
  BY <1>1, <1>2, <1>3 DEF MediaRequest, Media!MediaCalls, Media!AssetRows
<1>5. /\ assets' \in [Assets -> Media!AssetRows \cup {Media!Absent}] /\ objects' \subseteq Assets
      /\ assets'[x] = q.row /\ \A a \in Assets \ {x} : assets'[a] = assets[a]
  BY <1>1, <1>2 DEF StorageInv
<1>6. q.row # Media!Absent
  BY <1>2 DEF Media!AssetRows, Media!Absent
<1>7. AboutOne(u, x, r)
  BY <1>1, <1>2, <1>3, <1>4, <1>5, <1>6 DEF AboutOne
<1>. QED BY <1>2, <1>7, StorageStep

\* A failure: what was stored is to be deleted.
LEMMA RaiseKeeps ==
  ASSUME StorageInv, NEW u \in Editors, Media!Raise(u)
  PROVE  StorageInv'
<1>. PICK q : q = mediaCall[u] BY Zenon
<1>. PICK x : x = q.asset BY Zenon
<1>. DEFINE r == IF q.pc = "stored" THEN [q EXCEPT !.pc = "compensating"] ELSE Media!Idle
<1>1. /\ q.pc \in {"checked", "stored", "committed"}
      /\ mediaCall' = [mediaCall EXCEPT ![u] = r]
      /\ assets' = assets /\ objects' = objects /\ abandoned' = abandoned /\ unheard' = unheard
  BY DEF Media!Raise, Media!Compensating
<1>2. /\ MediaRequest(q) /\ x \in Assets
      /\ \A t \in Editors \ {u} : mediaCall[t].pc \in MediaStates => mediaCall[t].asset # x
  BY <1>1, MediaStep DEF MediaStates
<1>3. r.pc \in MediaStates =>
        /\ r \in Media!MediaCalls /\ r.pc = "compensating" /\ r.asset = x
        /\ r.row = q.row /\ q.pc = "stored"
  BY <1>2 DEF MediaRequest, Media!MediaCalls, Media!Idle, MediaStates
<1>4. q.pc = "stored" => r.pc = "compensating"
  BY <1>2 DEF MediaRequest, Media!MediaCalls
<1>. HIDE DEF r
<1>5. r.pc \in MediaStates => MediaRequest(r)'
  BY <1>1, <1>2, <1>3 DEF MediaRequest, Media!MediaCalls, Media!AssetRows
<1>6. /\ assets' \in [Assets -> Media!AssetRows \cup {Media!Absent}] /\ objects' \subseteq Assets
      /\ assets[x] # Media!Absent /\ x \notin unheard =>
           assets[x].mode = "CLIENT_PUBLIC_URL" \/ x \in objects
  BY <1>1, <1>2 DEF StorageInv
<1>7. x \in objects => \/ assets[x] # Media!Absent \/ x \in abandoned \/ q.pc = "stored"
  BY <1>1, <1>2 DEF StorageInv, MediaStates
<1>8. /\ assets'[x] # Media!Absent /\ x \notin unheard' =>
           assets'[x].mode = "CLIENT_PUBLIC_URL" \/ x \in objects'
      /\ x \in objects' => \/ assets'[x] # Media!Absent \/ x \in abandoned'
                           \/ r.pc \in {"stored", "compensating"}
  BY <1>1, <1>4, <1>6, <1>7
<1>9. /\ mediaCall[u].pc \in {"stored", "compensating"} => mediaCall[u].asset = x
      /\ r.pc \in MediaStates => r.asset = x /\ MediaRequest(r)'
      /\ \A a \in Assets \ {x} :
           /\ assets'[a] = assets[a] /\ (a \in objects' <=> a \in objects)
           /\ a \in unheard' <=> a \in unheard
           /\ a \in abandoned => a \in abandoned'
  BY <1>1, <1>3, <1>5
<1>10. AboutOne(u, x, r)
  BY <1>1, <1>2, <1>6, <1>8, <1>9 DEF AboutOne
<1>. QED BY <1>2, <1>10, StorageStep

\* The end of a request: it returns, deletes its object, or leaves it behind.
LEMMA MediaEndKeeps ==
  ASSUME StorageInv, NEW u \in Editors,
         Media!DeleteObject(u) \/ Media!Return(u) \/ Media!Abandon(u)
  PROVE  StorageInv'
<1>. PICK q : q = mediaCall[u] BY Zenon
<1>. PICK x : x = q.asset BY Zenon
<1>1. /\ mediaCall' = [mediaCall EXCEPT ![u] = Media!Idle] /\ q.pc \in MediaStates
      /\ assets' = assets /\ unheard' = unheard
      /\ \/ q.pc = "compensating" /\ objects' = objects \ {x} /\ abandoned' = abandoned
         \/ q.pc = "committed" /\ objects' = objects /\ abandoned' = abandoned
         \/ objects' = objects /\ abandoned' = abandoned \cup {x}
  BY DEF Media!DeleteObject, Media!Return, Media!Abandon, MediaStates
<1>2. /\ MediaRequest(q) /\ x \in Assets
      /\ \A t \in Editors \ {u} : mediaCall[t].pc \in MediaStates => mediaCall[t].asset # x
  BY <1>1, MediaStep
<1>3. /\ assets' \in [Assets -> Media!AssetRows \cup {Media!Absent}] /\ objects' \subseteq Assets
      /\ assets[x] # Media!Absent /\ x \notin unheard =>
           assets[x].mode = "CLIENT_PUBLIC_URL" \/ x \in objects
  BY <1>1, <1>2 DEF StorageInv
<1>4. x \in objects => \/ assets[x] # Media!Absent \/ x \in abandoned
                       \/ q.pc \in {"stored", "compensating"}
  BY <1>1, <1>2 DEF StorageInv, MediaStates
<1>5. q.pc = "compensating" => assets[x] = Media!Absent \/ x \in unheard
  BY <1>2 DEF MediaRequest
<1>6. Media!Idle.pc \notin MediaStates
  BY DEF Media!Idle, MediaStates
<1>7. /\ assets'[x] # Media!Absent /\ x \notin unheard' =>
           assets'[x].mode = "CLIENT_PUBLIC_URL" \/ x \in objects'
      /\ x \in objects' => assets'[x] # Media!Absent \/ x \in abandoned'
  BY <1>1, <1>3, <1>4, <1>5
<1>8. \A a \in Assets \ {x} :
        /\ assets'[a] = assets[a] /\ (a \in objects' <=> a \in objects)
        /\ a \in unheard' <=> a \in unheard
        /\ a \in abandoned => a \in abandoned'
  BY <1>1
<1>9. /\ mediaCall[u].pc \in {"stored", "compensating"} => mediaCall[u].asset = x
      /\ assets' \in [Assets -> Media!AssetRows \cup {Media!Absent}] /\ objects' \subseteq Assets
  BY <1>1, <1>3
<1>. PICK r : r = Media!Idle BY Zenon
<1>10. mediaCall' = [mediaCall EXCEPT ![u] = r] /\ r.pc \notin MediaStates
  BY <1>1, <1>6
<1>11. AboutOne(u, x, r)
  BY <1>2, <1>7, <1>8, <1>9, <1>10 DEF AboutOne
<1>. QED BY <1>2, <1>11, StorageStep

\* The steps on profiles leave the media alone, and those on media keep the invariant.
LEMMA StorageNext ==
  ASSUME StorageInv, Media!Next \/ UNCHANGED mediaVars
  PROVE  StorageInv'
<1>1. CASE UNCHANGED mediaVars
  BY <1>1, StorageUntouched DEF mediaVars, StorageInv
<1>2. ASSUME NEW u \in Editors, NEW r, mediaCall' = [mediaCall EXCEPT ![u] = r],
             r.pc \notin MediaStates, mediaCall[u].pc \notin MediaStates,
             UNCHANGED <<assets, objects, abandoned, unheard>>
      PROVE  StorageInv'
  <2>1. \A t \in Editors : mediaCall'[t] = IF t = u THEN r ELSE mediaCall[t]
    BY <1>2 DEF StorageInv
  <2>2. mediaCall' = [t \in Editors |-> mediaCall'[t]]
    BY <1>2 DEF StorageInv
  <2>. QED BY <1>2, <2>1, <2>2, StorageUntouched
<1>3. ASSUME NEW u \in Editors, Media!Ask(u) PROVE StorageInv'
  <2>1. CASE Media!StoreManagedMedia(u) \/ Media!RegisterPublicUrl(u)
    BY <2>1, CheckedKeeps DEF Media!StoreManagedMedia, Media!RegisterPublicUrl, Media!Modes
  <2>2. ASSUME NEW r, Media!Begin(u, r), r.pc \notin MediaStates PROVE StorageInv'
    <3>1. /\ mediaCall' = [mediaCall EXCEPT ![u] = r] /\ mediaCall[u].pc \notin MediaStates
          /\ UNCHANGED <<assets, objects, abandoned, unheard>>
      BY <2>2 DEF Media!Begin, Media!Idle, MediaStates
    <3>. QED BY <1>2, <2>2, <3>1
  <2>3. CASE Media!CreateProfile(u)
    <3>1. PICK p \in Profiles, written \in Media!Rows :
            Media!Begin(u, [Media!Unchanged(p) EXCEPT !.row = written])
      BY <2>3 DEF Media!CreateProfile
    <3>. DEFINE r == [Media!Unchanged(p) EXCEPT !.row = written]
    <3>2. r.pc \notin MediaStates
      BY DEF Media!Unchanged, MediaStates
    <3>. QED BY <2>2, <3>1, <3>2
  <2>4. CASE Media!ActivateProfile(u)
    <3>1. PICK p \in Profiles : Media!Begin(u, [Media!Unchanged(p) EXCEPT !.status = "ACTIVE"])
      BY <2>4 DEF Media!ActivateProfile
    <3>. DEFINE r == [Media!Unchanged(p) EXCEPT !.status = "ACTIVE"]
    <3>2. r.pc \notin MediaStates
      BY DEF Media!Unchanged, MediaStates
    <3>. QED BY <2>2, <3>1, <3>2
  <2>5. CASE Media!DisableProfile(u)
    <3>1. PICK p \in Profiles, status \in {"DISABLED", "unchanged"} :
            Media!Begin(u, [Media!Unchanged(p) EXCEPT !.status = status])
      BY <2>5 DEF Media!DisableProfile
    <3>. DEFINE r == [Media!Unchanged(p) EXCEPT !.status = status]
    <3>2. r.pc \notin MediaStates
      BY DEF Media!Unchanged, MediaStates
    <3>. QED BY <2>2, <3>1, <3>2
  <2>6. CASE Media!SetDefaultProfile(u)
    <3>1. PICK p \in Profiles :
            Media!Begin(u, [pc |-> "row read", on |-> p, seen |-> Media!IsDefault(p), alone |-> TRUE])
      BY <2>6 DEF Media!SetDefaultProfile
    <3>. DEFINE r == [pc |-> "row read", on |-> p, seen |-> Media!IsDefault(p), alone |-> TRUE]
    <3>2. Media!Begin(u, r) /\ r.pc \notin MediaStates
      BY <3>1 DEF MediaStates
    <3>. HIDE DEF r
    <3>. QED BY <2>2, <3>2
  <2>. QED BY <1>3, <2>1, <2>3, <2>4, <2>5, <2>6 DEF Media!Ask
<1>4. ASSUME NEW u \in Editors, Media!Continue(u) PROVE StorageInv'
  <2>1. CASE Media!ReadDefault(u)
    <3>. PICK q : q = mediaCall[u] BY Zenon
    <3>. DEFINE r == [Media!Unchanged(q.on) EXCEPT !.off = Media!Defaults \ {q.on},
                                                   !.is_default = ~q.seen, !.alone = q.alone]
    <3>1. /\ q.pc = "row read" /\ mediaCall' = [mediaCall EXCEPT ![u] = r]
          /\ UNCHANGED <<assets, objects, abandoned, unheard>>
      BY <2>1 DEF Media!ReadDefault
    <3>2. r.pc \notin MediaStates /\ q.pc \notin MediaStates
      BY <3>1 DEF Media!Unchanged, MediaStates
    <3>. HIDE DEF r
    <3>. QED BY <1>2, <3>1, <3>2
  <2>2. CASE Media!RefuseProfile(u)
    <3>1. /\ mediaCall' = [mediaCall EXCEPT ![u] = Media!Idle] /\ Media!Idle.pc \notin MediaStates
          /\ mediaCall[u].pc \notin MediaStates
          /\ UNCHANGED <<assets, objects, abandoned, unheard>>
      BY <2>2 DEF Media!RefuseProfile, Media!Idle, MediaStates, Media!ProfileCalls, Media!DefaultReads
    <3>. QED BY <1>2, <3>1
  <2>3. CASE Media!CommitProfile(u)
    <3>1. /\ mediaCall' = Media!Disturbed(u) /\ mediaCall[u].pc \notin MediaStates
          /\ UNCHANGED <<assets, objects, abandoned, unheard>>
      BY <2>3 DEF Media!CommitProfile, Media!ProfileCalls, MediaStates
    <3>2. mediaCall' = [t \in Editors |-> mediaCall'[t]]
      BY <3>1 DEF Media!Disturbed
    <3>3. ASSUME NEW t \in Editors,
                 mediaCall[t].pc \in MediaStates \/ mediaCall'[t].pc \in MediaStates
          PROVE  mediaCall'[t] = mediaCall[t]
      <4>1. mediaCall'[t] = IF t = u THEN Media!Idle
              ELSE IF Media!ChoosesDefault(mediaCall[u]) /\ Media!ChoosesDefault(mediaCall[t])
                THEN [mediaCall[t] EXCEPT !.alone = FALSE] ELSE mediaCall[t]
        BY <3>1 DEF Media!Disturbed
      <4>2. t # u
        BY <3>1, <3>3, <4>1 DEF Media!Idle, MediaStates
      <4>3. ~Media!ChoosesDefault(mediaCall[t])
        <5>. PICK q : q = mediaCall[t] BY Zenon
        <5>1. ASSUME Media!ChoosesDefault(q)
              PROVE  q.pc \notin MediaStates /\ [q EXCEPT !.alone = FALSE].pc = q.pc
          BY <5>1 DEF Media!ChoosesDefault, Media!DefaultReads, Media!ProfileCalls, MediaStates
        <5>. QED BY <3>3, <4>1, <4>2, <5>1
      <4>. QED BY <4>1, <4>2, <4>3
    <3>. QED BY <3>1, <3>2, <3>3, StorageUntouched
  <2>. QED BY <1>4, <2>1, <2>2, <2>3, PutObjectKeeps, CommitAssetKeeps, LoseAcknowledgementKeeps, RaiseKeeps,
           MediaEndKeeps DEF Media!Continue
<1>. QED BY <1>1, <1>3, <1>4 DEF Media!Next

\* The invariant is inductive.
LEMMA StorageInduction ==
  /\ MarketingInit => StorageInv
  /\ StorageInv /\ [MarketingNext]_<<focus, packVars, mediaVars, destinationVars, guideVars, vars>>
       => StorageInv'
<1>1. ASSUME MarketingInit PROVE StorageInv
  <2>1. /\ assets = [a \in Assets |-> Media!Absent] /\ objects = {}
        /\ mediaCall = [u \in Editors |-> Media!Idle]
    BY <1>1 DEF MarketingInit, Media!Init
  <2>. QED BY <2>1 DEF StorageInv, Media!Idle, MediaStates
<1>2. ASSUME StorageInv,
             [MarketingNext]_<<focus, packVars, mediaVars, destinationVars, guideVars, vars>>
      PROVE  StorageInv'
  <2>1. Media!Next \/ UNCHANGED mediaVars
    BY <1>2 DEF MarketingNext
  <2>. QED BY <1>2, <2>1, StorageNext
<1>. QED BY <1>1, <1>2

\* The storage accounts for its objects, for any requests, profiles and assets: an object
\* is put before its row is committed and deleted only when the row is not, so a stored
\* asset can be delivered and only a death or a failed delete leaves an object behind
\* (store_managed_media and its compensation, register_public_url).
THEOREM ObjectsAreAccounted == MarketingSpec => []ObjectsAccounted
<1>1. ASSUME StorageInv PROVE ObjectsAccounted
  <2>1. ASSUME NEW a \in Assets, assets[a] # Media!Absent, a \notin unheard
        PROVE  Media!Delivery(a) # "object_not_found"
    BY <1>1, <2>1 DEF StorageInv, Media!Delivery, Media!TemporaryAccess
  <2>. QED BY <1>1, <2>1 DEF StorageInv, ObjectsAccounted, Media!ObjectsAccounted
<1>. QED BY <1>1, StorageInduction, PTL DEF MarketingSpec

-----------------------------------------------------------------------------
(* Profiles.                                                               *)
(*                                                                         *)
(* The indexes of the table keep the default unique and active, so only a  *)
(* commit that takes the default and gives none can lose it; a request     *)
(* that is alone takes it only to give it.                                 *)

ProfileStates == {"decided", "row read"}

ProfileRequest(r) ==
  /\ r \in Media!ProfileCalls
  /\ r.row # Media!Absent => ~Media!Exists(r.on) /\ r.off = {} /\ ~r.is_default
  /\ r.row = Media!Absent => Media!Exists(r.on)
  /\ r.on \notin r.off
  /\ r.alone /\ ~r.is_default => r.off = {}

\* The row that was read is still the default, unless another choice was committed.
DefaultRead(r) ==
  /\ r \in Media!DefaultReads
  /\ Media!Exists(r.on)
  /\ r.alone /\ r.seen => Media!IsDefault(r.on)

\* The indexes and the constraint, in terms of two rows.
OneDefault(table) ==
  \A p, q \in Profiles :
    /\ table[p] # Media!Absent /\ table[p].is_default
    /\ table[q] # Media!Absent /\ table[q].is_default
    => p = q /\ table[p].status = "ACTIVE"

ProfilesInv ==
  /\ profiles \in [Profiles -> Media!Rows \cup {Media!Absent}]
  /\ OneDefault(profiles)
  /\ mediaCall = [u \in Editors |-> mediaCall[u]]
  /\ \A u \in Editors :
       /\ mediaCall[u].pc = "decided" => ProfileRequest(mediaCall[u])
       /\ mediaCall[u].pc = "row read" => DefaultRead(mediaCall[u])
  /\ \A u, w \in Editors :
       /\ mediaCall[u].pc = "decided" /\ mediaCall[w].pc = "decided" /\ u # w
       /\ mediaCall[u].row # Media!Absent /\ mediaCall[w].row # Media!Absent
       => mediaCall[u].on # mediaCall[w].on

\* What a step may do to the default.
Kept == Media!Defaults # {} /\ ~raced' => \E p \in Profiles : Media!IsDefault(p)' /\ Media!IsActive(p)'

\* A row that is there is a profile.
LEMMA ProfileIsThere ==
  ASSUME NEW written \in Media!Rows
  PROVE  /\ written # Media!Absent
         /\ written = [mode |-> written.mode, status |-> written.status, is_default |-> written.is_default]
BY DEF Media!Rows, Media!Absent

\* Without a write to the profiles, the default is kept.
LEMMA DefaultStays ==
  ASSUME ProfilesInv, UNCHANGED profiles
  PROVE  Kept
BY DEF ProfilesInv, OneDefault, Kept, Media!Defaults, Media!IsDefault, Media!IsActive, Media!Exists

\* A step that writes no profile and leaves u with the request r.
LEMMA ProfileRequestSet ==
  ASSUME ProfilesInv, NEW u \in Editors, NEW r, mediaCall' = [mediaCall EXCEPT ![u] = r],
         UNCHANGED profiles,
         r.pc = "decided" => ProfileRequest(r), r.pc = "row read" => DefaultRead(r),
         \A t \in Editors \ {u} :
           r.pc = "decided" /\ r.row # Media!Absent /\ mediaCall[t].pc = "decided"
           => mediaCall[t].on # r.on
  PROVE  ProfilesInv' /\ Kept
<1>1. \A t \in Editors : mediaCall'[t] = IF t = u THEN r ELSE mediaCall[t]
  BY DEF ProfilesInv
<1>2. mediaCall' = [t \in Editors |-> mediaCall'[t]]
  BY DEF ProfilesInv
<1>3. ASSUME NEW t \in Editors
      PROVE  /\ (mediaCall[t].pc = "decided" => ProfileRequest(mediaCall[t]))'
             /\ (mediaCall[t].pc = "row read" => DefaultRead(mediaCall[t]))'
  <2>. PICK q : q = mediaCall'[t] BY Zenon
  <2>1. (q.pc = "decided" => ProfileRequest(q)) /\ (q.pc = "row read" => DefaultRead(q))
    BY <1>1 DEF ProfilesInv
  <2>. QED BY <2>1 DEF ProfileRequest, DefaultRead, Media!ProfileCalls, Media!DefaultReads,
           Media!Rows, Media!Exists, Media!IsDefault
<1>4. (\A t, w \in Editors :
         /\ mediaCall[t].pc = "decided" /\ mediaCall[w].pc = "decided" /\ t # w
         /\ mediaCall[t].row # Media!Absent /\ mediaCall[w].row # Media!Absent
         => mediaCall[t].on # mediaCall[w].on)'
  <2>1. \A t, w \in Editors :
         /\ mediaCall[t].pc = "decided" /\ mediaCall[w].pc = "decided" /\ t # w
         /\ mediaCall[t].row # Media!Absent /\ mediaCall[w].row # Media!Absent
         => mediaCall[t].on # mediaCall[w].on
    BY DEF ProfilesInv
  <2>2. ASSUME NEW t \in Editors, NEW w \in Editors, t # w,
               NEW p, p = mediaCall'[t], NEW q, q = mediaCall'[w],
               p.pc = "decided", q.pc = "decided", p.row # Media!Absent, q.row # Media!Absent
        PROVE  p.on # q.on
    <3>1. CASE t = u
      BY <1>1, <2>2, <3>1, ZenonT(30)
    <3>2. CASE w = u
      BY <1>1, <2>2, <3>2
    <3>3. CASE t # u /\ w # u
      <4>1. mediaCall[t] = p /\ mediaCall[w] = q
        BY <1>1, <2>2, <3>3
      <4>. QED BY <2>1, <2>2, <4>1, Zenon
    <3>. QED BY <3>1, <3>2, <3>3
  <2>. QED BY <2>2, ZenonT(30) DEF Media!Absent
<1>5. Kept
  BY DefaultStays
<1>. QED BY <1>2, <1>3, <1>4, <1>5 DEF ProfilesInv, OneDefault, Media!Rows, Media!Absent

\* A request about a profile begins.
LEMMA ProfileAskKeeps ==
  ASSUME ProfilesInv, NEW u \in Editors,
         \/ Media!CreateProfile(u) \/ Media!ActivateProfile(u)
         \/ Media!DisableProfile(u) \/ Media!SetDefaultProfile(u)
  PROVE  ProfilesInv' /\ Kept
<1>1. ASSUME NEW p \in Profiles, Media!Exists(p), NEW status \in {"unchanged", "ACTIVE", "DISABLED"},
             Media!Begin(u, [Media!Unchanged(p) EXCEPT !.status = status])
      PROVE  ProfilesInv' /\ Kept
  <2>. DEFINE r == [Media!Unchanged(p) EXCEPT !.status = status]
  <2>1. mediaCall' = [mediaCall EXCEPT ![u] = r] /\ UNCHANGED profiles
    BY <1>1 DEF Media!Begin
  <2>2. /\ r \in Media!ProfileCalls /\ r.pc = "decided" /\ r.on = p /\ r.row = Media!Absent
        /\ r.off = {}
    BY DEF Media!Unchanged, Media!ProfileCalls
  <2>. HIDE DEF r
  <2>3. ProfileRequest(r)
    BY <1>1, <2>2 DEF ProfileRequest
  <2>. QED BY <2>1, <2>2, <2>3, ProfileRequestSet
<1>2. CASE Media!CreateProfile(u)
  <2>1. PICK p \in Profiles, written \in Media!Rows :
          /\ Media!Unused(p)
          /\ Media!Begin(u, [Media!Unchanged(p) EXCEPT !.row = written])
    BY <1>2 DEF Media!CreateProfile
  <2>. DEFINE r == [Media!Unchanged(p) EXCEPT !.row = written]
  <2>2. mediaCall' = [mediaCall EXCEPT ![u] = r] /\ UNCHANGED profiles
    BY <2>1 DEF Media!Begin
  <2>3. /\ r \in Media!ProfileCalls /\ r.pc = "decided" /\ r.on = p /\ r.row = written
        /\ r.off = {} /\ ~r.is_default
    BY DEF Media!Unchanged, Media!ProfileCalls
  <2>. HIDE DEF r
  <2>4. ProfileRequest(r)
    BY <2>1, <2>3, ProfileIsThere DEF ProfileRequest, Media!Unused
  <2>5. \A t \in Editors : mediaCall[t].pc = "decided" => mediaCall[t].on # p
    BY <2>1 DEF Media!Unused, ProfilesInv, ProfileRequest
  <2>. QED BY <2>2, <2>3, <2>4, <2>5, ProfileRequestSet
<1>3. CASE Media!ActivateProfile(u)
  <2>1. PICK p \in Profiles :
          Media!Exists(p) /\ Media!Begin(u, [Media!Unchanged(p) EXCEPT !.status = "ACTIVE"])
    BY <1>3 DEF Media!ActivateProfile
  <2>. QED BY <1>1, <2>1
<1>4. CASE Media!DisableProfile(u)
  <2>1. PICK p \in Profiles, status \in {"DISABLED", "unchanged"} :
          Media!Exists(p) /\ Media!Begin(u, [Media!Unchanged(p) EXCEPT !.status = status])
    BY <1>4 DEF Media!DisableProfile
  <2>. QED BY <1>1, <2>1
<1>5. CASE Media!SetDefaultProfile(u)
  <2>1. PICK p \in Profiles, seen \in BOOLEAN :
          /\ Media!IsActive(p) /\ (seen <=> Media!IsDefault(p))
          /\ Media!Begin(u, [pc |-> "row read", on |-> p, seen |-> seen, alone |-> TRUE])
    <3>1. PICK p \in Profiles :
            /\ Media!IsActive(p)
            /\ Media!Begin(u, [pc |-> "row read", on |-> p, seen |-> Media!IsDefault(p), alone |-> TRUE])
      BY <1>5 DEF Media!SetDefaultProfile
    <3>2. Media!IsDefault(p) \in BOOLEAN
      BY DEF Media!IsDefault, Media!Exists, ProfilesInv, Media!Rows
    <3>. QED BY <3>1, <3>2
  <2>. DEFINE r == [pc |-> "row read", on |-> p, seen |-> seen, alone |-> TRUE]
  <2>2. mediaCall' = [mediaCall EXCEPT ![u] = r] /\ UNCHANGED profiles
    BY <2>1 DEF Media!Begin
  <2>3. Media!Exists(p)
    <3>1. profiles[p].status = "ACTIVE"
      BY <2>1 DEF Media!IsActive
    <3>. QED BY <3>1 DEF Media!Exists, Media!Absent
  <2>4. r.pc = "row read" /\ DefaultRead(r)
    BY <2>1, <2>3 DEF DefaultRead, Media!DefaultReads
  <2>. HIDE DEF r
  <2>. QED BY <2>2, <2>4, ProfileRequestSet
<1>. QED BY <1>2, <1>3, <1>4, <1>5

\* The second read: a request that is alone and gives no default has read it on its row,
\* and then there is none to take.
LEMMA ReadDefaultKeeps ==
  ASSUME ProfilesInv, NEW u \in Editors, Media!ReadDefault(u)
  PROVE  ProfilesInv' /\ Kept
<1>. PICK q : q = mediaCall[u] BY Zenon
<1>. DEFINE off == Media!Defaults \ {q.on}
            r == [Media!Unchanged(q.on) EXCEPT !.off = off, !.is_default = ~q.seen, !.alone = q.alone]
<1>1. /\ q.pc = "row read" /\ DefaultRead(q)
      /\ mediaCall' = [mediaCall EXCEPT ![u] = r] /\ UNCHANGED profiles
  BY DEF Media!ReadDefault, ProfilesInv
<1>2. q.on \in Profiles /\ q.seen \in BOOLEAN /\ q.alone \in BOOLEAN /\ Media!Exists(q.on)
  BY <1>1 DEF DefaultRead, Media!DefaultReads
<1>3. /\ r \in Media!ProfileCalls /\ r.pc = "decided" /\ r.on = q.on /\ r.row = Media!Absent
      /\ r.off = off /\ (r.is_default <=> ~q.seen) /\ (r.alone <=> q.alone)
  BY <1>2 DEF Media!Unchanged, Media!ProfileCalls, Media!Defaults
<1>4. q.alone /\ q.seen => off = {}
  BY <1>1, <1>2 DEF ProfilesInv, OneDefault, DefaultRead, Media!Defaults, Media!IsDefault, Media!Exists
<1>. HIDE DEF r
<1>5. ProfileRequest(r)
  BY <1>2, <1>3, <1>4 DEF ProfileRequest
<1>. QED BY <1>1, <1>3, <1>5, ProfileRequestSet

\* What a commit leaves of a profile that was there.
LEMMA WrittenProfile ==
  ASSUME NEW r \in Media!ProfileCalls, NEW p \in Profiles, profiles[p] \in Media!Rows,
         r.row # Media!Absent => p # r.on,
         NEW written, written = Media!Written(r)[p]
  PROVE  /\ written \in Media!Rows
         /\ written.is_default <=>
              /\ p \notin r.off
              /\ profiles[p].is_default \/ (p = r.on /\ r.is_default)
<1>. PICK old : old = profiles[p] BY Zenon
<1>. DEFINE status == IF p = r.on /\ r.status # "unchanged" THEN r.status ELSE old.status
            is_default == IF p \in r.off THEN FALSE ELSE old.is_default \/ (p = r.on /\ r.is_default)
<1>1. old # Media!Absent
  BY ProfileIsThere
<1>2. written = [old EXCEPT !.status = status, !.is_default = is_default]
  BY <1>1 DEF Media!Written, Media!Exists
<1>3. status \in {"ACTIVE", "DISABLED"} /\ is_default \in BOOLEAN
  BY DEF Media!ProfileCalls, Media!Rows
<1>4. written \in Media!Rows /\ (written.is_default <=> is_default)
  <2>. HIDE DEF status, is_default
  <2>. QED BY <1>2, <1>3 DEF Media!Rows
<1>. QED BY <1>3, <1>4 DEF Media!Rows

\* The commit of a request that is alone leaves a default if there was one, and one that
\* changes the default makes the others know.
LEMMA CommitProfileKeeps ==
  ASSUME ProfilesInv, NEW u \in Editors, Media!CommitProfile(u)
  PROVE  ProfilesInv' /\ Kept
<1>. PICK r : r = mediaCall[u] BY Zenon
<1>1. /\ r \in Media!ProfileCalls /\ Media!Admitted(Media!Written(r))
      /\ profiles' = Media!Written(r) /\ raced' = (raced \/ ~r.alone)
      /\ mediaCall' = [t \in Editors |->
           IF t = u THEN Media!Idle
           ELSE IF Media!ChoosesDefault(r) /\ Media!ChoosesDefault(mediaCall[t])
             THEN [mediaCall[t] EXCEPT !.alone = FALSE] ELSE mediaCall[t]]
  BY DEF Media!CommitProfile, Media!Disturbed
<1>2. /\ ProfileRequest(r) /\ r.pc = "decided" /\ r.on \in Profiles /\ r.off \subseteq Profiles
      /\ r.row \in Media!Rows \cup {Media!Absent} /\ r.is_default \in BOOLEAN
  BY <1>1 DEF ProfilesInv, Media!ProfileCalls
<1>3. OneDefault(profiles')
  <2>. PICK table : table = Media!Written(r) BY Zenon
  <2>1. Media!Admitted(table)
    BY <1>1
  <2>2. OneDefault(table)
    BY <2>1 DEF Media!Admitted, OneDefault
  <2>. QED BY <1>1, <2>2
<1>4. ASSUME NEW p \in Profiles, Media!Exists(p)
      PROVE  /\ profiles'[p] \in Media!Rows
             /\ profiles'[p].is_default <=> /\ p \notin r.off
                                            /\ profiles[p].is_default \/ (p = r.on /\ r.is_default)
  <2>. PICK written : written = Media!Written(r)[p] BY Zenon
  <2>1. profiles[p] \in Media!Rows
    BY <1>4 DEF ProfilesInv, Media!Exists
  <2>2. r.row # Media!Absent => p # r.on
    BY <1>2, <1>4 DEF ProfileRequest
  <2>. QED BY <1>1, <2>1, <2>2, WrittenProfile
<1>5. ASSUME NEW p \in Profiles, ~Media!Exists(p)
      PROVE  profiles'[p] = IF p = r.on /\ r.row # Media!Absent THEN r.row ELSE Media!Absent
  BY <1>1, <1>5 DEF Media!Written
<1>6. profiles' \in [Profiles -> Media!Rows \cup {Media!Absent}]
  <2>1. \A p \in Profiles : profiles'[p] \in Media!Rows \cup {Media!Absent}
    BY <1>2, <1>4, <1>5
  <2>. QED BY <1>1, <2>1 DEF Media!Written
<1>7. ASSUME NEW p \in Profiles, Media!Exists(p)
      PROVE  Media!Exists(p)'
  <2>1. profiles'[p] # Media!Absent
    BY <1>4, <1>7, ProfileIsThere
  <2>. QED BY <2>1 DEF Media!Exists, Media!Absent
<1>8. ASSUME NEW t \in Editors, t # u, NEW q, q = mediaCall[t], NEW n, n = mediaCall'[t]
      PROVE  /\ n.pc = "decided" =>
                  q.pc = "decided" /\ ProfileRequest(n)' /\ n.on = q.on /\ n.row = q.row
             /\ n.pc = "row read" => DefaultRead(n)'
  <2>1. n = IF Media!ChoosesDefault(r) /\ Media!ChoosesDefault(q) THEN [q EXCEPT !.alone = FALSE] ELSE q
    BY <1>1, <1>8
  <2>2. CASE q \in Media!DefaultReads
    <3>1. /\ n \in Media!DefaultReads /\ n.pc = "row read" /\ q.pc = "row read" /\ n.on = q.on
          /\ (n.seen <=> q.seen) /\ (n.alone => q.alone /\ ~Media!ChoosesDefault(r))
      BY <2>1, <2>2 DEF Media!DefaultReads, Media!ChoosesDefault
    <3>2. DefaultRead(q) /\ q.on \in Profiles
      BY <1>8, <2>2, <3>1 DEF ProfilesInv, Media!DefaultReads
    <3>3. Media!Exists(n.on)'
      BY <1>7, <3>1, <3>2 DEF DefaultRead
    <3>4. ASSUME n.alone, n.seen PROVE Media!IsDefault(n.on)'
      <4>1. r.off = {} /\ Media!IsDefault(q.on)
        BY <1>1, <3>1, <3>2, <3>4 DEF DefaultRead, Media!ChoosesDefault
      <4>2. profiles'[q.on].is_default
        BY <1>4, <3>2, <4>1 DEF Media!IsDefault
      <4>. QED BY <3>1, <3>3, <4>2 DEF Media!IsDefault
    <3>. QED BY <3>1, <3>3, <3>4 DEF DefaultRead, Media!DefaultReads
  <2>3. CASE q \in Media!ProfileCalls
    <3>1. /\ n \in Media!ProfileCalls /\ n.pc = "decided" /\ q.pc = "decided" /\ n.on = q.on
          /\ n.row = q.row /\ n.off = q.off /\ (n.is_default <=> q.is_default)
          /\ (n.alone => q.alone)
      BY <2>1, <2>3 DEF Media!ProfileCalls
    <3>2. ProfileRequest(q) /\ q.on \in Profiles
      BY <1>8, <2>3, <3>1 DEF ProfilesInv, Media!ProfileCalls
    <3>3. n.row = Media!Absent => Media!Exists(n.on)'
      BY <1>7, <3>1, <3>2 DEF ProfileRequest
    <3>4. ASSUME n.row # Media!Absent PROVE ~Media!Exists(n.on)'
      <4>1. ~Media!Exists(q.on)
        BY <3>1, <3>2, <3>4 DEF ProfileRequest
      <4>2. r.row # Media!Absent => r.on # q.on
        BY <1>2, <1>8, <3>1, <3>4 DEF ProfilesInv
      <4>3. profiles'[q.on] = Media!Absent
        BY <1>5, <3>2, <4>1, <4>2
      <4>. QED BY <3>1, <4>3 DEF Media!Exists, Media!Absent
    <3>5. Media!ProfileCalls' = Media!ProfileCalls /\ Media!Absent' = Media!Absent
      BY DEF Media!ProfileCalls, Media!Rows, Media!Modes, Media!Absent
    <3>. QED BY <3>1, <3>2, <3>3, <3>4, <3>5 DEF ProfileRequest
  <2>4. CASE q \notin Media!DefaultReads /\ q \notin Media!ProfileCalls
    <3>1. n = q
      BY <2>1, <2>4 DEF Media!ChoosesDefault
    <3>. QED BY <1>8, <2>4, <3>1 DEF ProfilesInv, ProfileRequest, DefaultRead
  <2>. QED BY <2>2, <2>3, <2>4
<1>9. ASSUME NEW t \in Editors, t # u, mediaCall'[t].pc = "decided"
      PROVE  /\ mediaCall[t].pc = "decided"
             /\ mediaCall'[t].on = mediaCall[t].on /\ mediaCall'[t].row = mediaCall[t].row
  <2>. PICK q : q = mediaCall[t] BY Zenon
  <2>. PICK n : n = mediaCall'[t] BY Zenon
  <2>1. n.pc = "decided" =>
          q.pc = "decided" /\ ProfileRequest(n)' /\ n.on = q.on /\ n.row = q.row
    BY <1>8, <1>9
  <2>. QED BY <1>9, <2>1
<1>10. ProfilesInv'
  <2>1. mediaCall' = [t \in Editors |-> mediaCall'[t]]
    BY <1>1
  <2>2. mediaCall'[u].pc = "idle"
    BY <1>1 DEF Media!Idle
  <2>3. ASSUME NEW t \in Editors
        PROVE  /\ (mediaCall[t].pc = "decided" => ProfileRequest(mediaCall[t]))'
               /\ (mediaCall[t].pc = "row read" => DefaultRead(mediaCall[t]))'
    <3>. PICK n : n = mediaCall'[t] BY Zenon
    <3>1. (n.pc = "decided" => ProfileRequest(n)') /\ (n.pc = "row read" => DefaultRead(n)')
      BY <1>8, <2>2
    <3>. QED BY <3>1 DEF ProfileRequest, DefaultRead
  <2>4. ASSUME NEW t \in Editors, NEW w \in Editors, t # w,
               NEW m, m = mediaCall'[t], NEW n, n = mediaCall'[w],
               m.pc = "decided", n.pc = "decided", m.row # Media!Absent, n.row # Media!Absent
        PROVE  m.on # n.on
    <3>. PICK p : p = mediaCall[t] BY Zenon
    <3>. PICK q : q = mediaCall[w] BY Zenon
    <3>1. /\ p.pc = "decided" /\ m.on = p.on /\ m.row = p.row
          /\ q.pc = "decided" /\ n.on = q.on /\ n.row = q.row
      <4>1. t # u /\ w # u
        BY <2>2, <2>4
      <4>2. p.pc = "decided" /\ m.on = p.on /\ m.row = p.row
        BY <1>9, <2>4, <4>1
      <4>3. q.pc = "decided" /\ n.on = q.on /\ n.row = q.row
        BY <1>9, <2>4, <4>1
      <4>. QED BY <4>2, <4>3
    <3>. QED BY <2>4, <3>1 DEF ProfilesInv
  <2>5. OneDefault(profiles)'
    BY <1>3 DEF OneDefault, Media!Absent
  <2>6. (profiles \in [Profiles -> Media!Rows \cup {Media!Absent}])'
    BY <1>6 DEF Media!Rows, Media!Modes, Media!Absent
  <2>7. (\A t, w \in Editors :
           /\ mediaCall[t].pc = "decided" /\ mediaCall[w].pc = "decided" /\ t # w
           /\ mediaCall[t].row # Media!Absent /\ mediaCall[w].row # Media!Absent
           => mediaCall[t].on # mediaCall[w].on)'
    BY <2>4 DEF Media!Absent
  <2>. QED BY <2>1, <2>3, <2>5, <2>6, <2>7 DEF ProfilesInv
<1>11. ASSUME Media!Defaults # {}, ~raced'
       PROVE  \E p \in Profiles : Media!IsDefault(p)' /\ Media!IsActive(p)'
  <2>1. PICK d \in Profiles : Media!Exists(d) /\ profiles[d].is_default
    BY <1>11 DEF Media!Defaults, Media!IsDefault
  <2>2. \E p \in Profiles : profiles'[p] # Media!Absent /\ profiles'[p].is_default
    <3>1. CASE d \notin r.off
      BY <1>4, <1>7, <2>1, <3>1, ProfileIsThere
    <3>2. CASE d \in r.off
      <4>1. r.is_default /\ r.row = Media!Absent /\ Media!Exists(r.on) /\ r.on \notin r.off
        BY <1>1, <1>2, <1>11, <3>2 DEF ProfileRequest
      <4>. QED BY <1>2, <1>4, <4>1, ProfileIsThere
    <3>. QED BY <3>1, <3>2
  <2>3. PICK p \in Profiles :
          profiles'[p] # Media!Absent /\ profiles'[p].is_default /\ profiles'[p].status = "ACTIVE"
    BY <1>3, <2>2 DEF OneDefault
  <2>. QED BY <2>3 DEF Media!IsDefault, Media!IsActive, Media!Exists, Media!Absent
<1>. QED BY <1>10, <1>11 DEF Kept

\* A step on media writes no profile and begins no request about one.
LEMMA ProfilesUntouched ==
  ASSUME ProfilesInv, NEW u \in Editors, NEW r, mediaCall' = [mediaCall EXCEPT ![u] = r],
         r.pc \notin ProfileStates, UNCHANGED profiles
  PROVE  ProfilesInv' /\ Kept
BY ProfileRequestSet DEF ProfileStates

\* The invariant is inductive, and every step keeps the default.
LEMMA ProfilesNext ==
  ASSUME ProfilesInv, StorageInv, Media!Next
  PROVE  ProfilesInv' /\ Kept
<1>1. PICK u \in Editors : Media!Ask(u) \/ Media!Continue(u)
  BY DEF Media!Next
<1>2. ASSUME NEW mode, Media!Checked(u, mode) PROVE ProfilesInv' /\ Kept
  <2>1. PICK a \in Assets, p \in Media!ActiveIn(mode) :
          Media!Begin(u, [pc |-> "checked", asset |-> a,
                          row |-> [status |-> "stored", mode |-> mode, profile |-> p]])
    BY <1>2 DEF Media!Checked
  <2>. DEFINE r == [pc |-> "checked", asset |-> a,
                    row |-> [status |-> "stored", mode |-> mode, profile |-> p]]
  <2>2. mediaCall' = [mediaCall EXCEPT ![u] = r] /\ r.pc \notin ProfileStates /\ UNCHANGED profiles
    BY <2>1 DEF Media!Begin, ProfileStates
  <2>. HIDE DEF r
  <2>. QED BY <2>2, ProfilesUntouched
<1>3. CASE Media!Ask(u)
  BY <1>2, <1>3, ProfileAskKeeps DEF Media!Ask, Media!StoreManagedMedia, Media!RegisterPublicUrl
<1>4. CASE Media!ReadDefault(u) \/ Media!CommitProfile(u)
  BY <1>4, ReadDefaultKeeps, CommitProfileKeeps
<1>5. CASE \/ Media!RefuseProfile(u) \/ Media!DeleteObject(u) \/ Media!Return(u) \/ Media!Abandon(u)
  <2>1. /\ mediaCall' = [mediaCall EXCEPT ![u] = Media!Idle] /\ Media!Idle.pc \notin ProfileStates
        /\ UNCHANGED profiles
    BY <1>5 DEF Media!RefuseProfile, Media!DeleteObject, Media!Return, Media!Abandon, Media!Idle,
       ProfileStates
  <2>. QED BY <2>1, ProfilesUntouched
<1>6. CASE \/ Media!PutObject(u) \/ Media!CommitAsset(u) \/ Media!LoseAcknowledgement(u) \/ Media!Raise(u)
  <2>. PICK q : q = mediaCall[u] BY Zenon
  <2>1. \E pc \in MediaStates : \E r \in {[q EXCEPT !.pc = pc], Media!Idle} :
          mediaCall' = [mediaCall EXCEPT ![u] = r] /\ UNCHANGED profiles
    BY <1>6 DEF Media!PutObject, Media!CommitAsset, Media!LoseAcknowledgement, Media!Raise,
       Media!Compensating, MediaStates
  <2>2. q.pc \in MediaStates
    BY <1>6 DEF Media!PutObject, Media!CommitAsset, Media!LoseAcknowledgement, Media!Raise,
       Media!Committing, MediaStates
  <2>3. q \in Media!MediaCalls
    BY <2>2, MediaStep DEF MediaRequest
  <2>4. Media!Idle.pc \notin ProfileStates /\ \A pc \in MediaStates : [q EXCEPT !.pc = pc].pc \notin ProfileStates
    BY <2>3 DEF Media!MediaCalls, Media!Idle, MediaStates, ProfileStates
  <2>5. PICK r : mediaCall' = [mediaCall EXCEPT ![u] = r] /\ r.pc \notin ProfileStates /\ UNCHANGED profiles
    BY <2>1, <2>4, Zenon
  <2>. QED BY <2>5, ProfilesUntouched
<1>. QED BY <1>1, <1>3, <1>4, <1>5, <1>6 DEF Media!Continue

\* A tenant that has a default profile keeps one that is active, for any requests and
\* profiles: no request is refused by the indexes after it has taken the default away,
\* since taking and giving are one commit (set_default_profile, disable_profile).
THEOREM DefaultIsKept == MarketingSpec => DefaultKept
<1>1. ASSUME MarketingInit PROVE ProfilesInv
  <2>1. /\ profiles = [p \in Profiles |-> Media!Absent]
        /\ mediaCall = [u \in Editors |-> Media!Idle]
    BY <1>1 DEF MarketingInit, Media!Init
  <2>. QED BY <2>1 DEF ProfilesInv, OneDefault, Media!Idle
<1>2. ASSUME ProfilesInv, StorageInv,
             [MarketingNext]_<<focus, packVars, mediaVars, destinationVars, guideVars, vars>>
      PROVE  ProfilesInv' /\ (Kept \/ UNCHANGED mediaVars)
  <2>1. Media!Next \/ UNCHANGED mediaVars
    BY <1>2 DEF MarketingNext
  <2>2. ASSUME UNCHANGED mediaVars PROVE ProfilesInv'
    <3>1. UNCHANGED <<profiles, mediaCall>>
      BY <2>2 DEF mediaVars
    <3>2. ASSUME NEW u \in Editors
          PROVE  /\ (mediaCall[u].pc = "decided" => ProfileRequest(mediaCall[u]))'
                 /\ (mediaCall[u].pc = "row read" => DefaultRead(mediaCall[u]))'
      <4>1. /\ mediaCall[u].pc = "decided" => ProfileRequest(mediaCall[u])
            /\ mediaCall[u].pc = "row read" => DefaultRead(mediaCall[u])
        BY <1>2 DEF ProfilesInv
      <4>. QED BY <3>1, <4>1 DEF ProfileRequest, DefaultRead, Media!ProfileCalls, Media!DefaultReads,
               Media!Rows, Media!Exists, Media!IsDefault
    <3>. QED BY <1>2, <3>1, <3>2 DEF ProfilesInv, OneDefault
  <2>. QED BY <1>2, <2>1, <2>2, ProfilesNext
<1>3. ASSUME Kept \/ UNCHANGED mediaVars
      PROVE  \/ UNCHANGED <<profiles, assets, objects, mediaCall, abandoned, unheard, raced, mediaCalls>>
             \/ Kept
  BY <1>3 DEF mediaVars
<1>. QED BY <1>1, <1>2, <1>3, StorageInduction, PTL DEF MarketingSpec, DefaultKept, Media!DefaultKept, Media!vars, Kept
===============================================================================
