----------------------------- MODULE PackApproval ------------------------------
(***************************************************************************)
(* The approval gate of a publication pack: edits of its texts and media,  *)
(* preflight, approval, rejection and PATCH.  No request locks what it     *)
(* reads: it reads the rows it needs, decides, and its commit writes only  *)
(* the columns the session sees as changed since they were read.  In       *)
(* between, other editors commit.                                          *)
(***************************************************************************)
EXTENDS Integers, FiniteSets

CONSTANTS Editors,
          Packs,
          Channels,      \* DEFAULT_PACK_CHANNELS
          Social,        \* SOCIAL_CHANNELS
          Edits,         \* <<channel, text>> pairs an editor may save
          TopicMoves     \* statuses somebody gives the linked topic

ASSUME ChannelAssumption == /\ Social \subseteq Channels
                            /\ Edits \subseteq Channels \X {"empty", "short", "good"}
ASSUME TopicAssumption == TopicMoves \subseteq {"draft", "approved", "used", "archived"}

VARIABLES topic,  \* the topic the packs may be linked to
          packs,  \* committed packs with their texts
          packCall     \* what each editor's request has read and is about to write

packVars == <<topic, packs, packCall>>

TopicStatuses == {"draft", "approved", "used", "archived"}
PackStatuses == {"draft", "preflight_failed", "ready_for_approval", "approved", "archived"}
PreflightStatuses == {"not_run", "passed", "failed"}
ApprovalStatuses == {"draft", "approved", "rejected"}
TextValues == {"no_row", "empty", "short", "good"}  \* short: 1 to 19 characters

Rows == [status : PackStatuses, preflight : PreflightStatuses, approval : ApprovalStatuses,
         linked : BOOLEAN]

\* examined: the last preflight passed on the present content.
\* disturbed: a request committed on this pack over a change it had not read, and no
\*   undisturbed edit has followed.
PackStates ==
  [row : Rows, text : [Channels -> TextValues], examined : BOOLEAN, disturbed : BOOLEAN]

NoEdit == [kind |-> "none"]
EditsAsked ==
  [kind : {"none", "media", "examine"}]
  \cup [kind : {"text"}, channel : Channels, was : TextValues, text : TextValues]

Idle == [pc |-> "idle"]
PackRequests ==
  {Idle} \cup [pc : {"decided"}, pack : Packs, seen : Rows, new : Rows, edit : EditsAsked,
               fresh : BOOLEAN]

PackTypeOK ==
  /\ topic \in [status : TopicStatuses, context : BOOLEAN]
  /\ packs \in [Packs -> PackStates]
  /\ packCall \in [Editors -> PackRequests]

\* create_draft_pack_with_texts: a row for every channel, or for those the topic recommends.
NewPack(linked, channels) ==
  [row |-> [status |-> "draft", preflight |-> "not_run", approval |-> "draft",
            linked |-> linked],
   text |-> [c \in Channels |-> IF c \in channels THEN "empty" ELSE "no_row"],
   examined |-> FALSE, disturbed |-> FALSE]

PackInit ==
  /\ \E context \in BOOLEAN : topic = [status |-> "approved", context |-> context]
  /\ \E linked \in BOOLEAN, channels \in {Channels, Social} :
       packs = [p \in Packs |-> NewPack(linked, channels)]
  /\ packCall = [e \in Editors |-> Idle]

-----------------------------------------------------------------------------
\* A request on pack p that has decided to turn the row it read into new.
Ask(e, p, new, edit) ==
  /\ packCall[e] = Idle
  /\ packCall' = [packCall EXCEPT ![e] =
                    [pc |-> "decided", pack |-> p, seen |-> packs[p].row, new |-> new,
                     edit |-> edit, fresh |-> TRUE]]
  /\ UNCHANGED <<topic, packs>>

\* Mutant: only an approved pack is taken back.
ResetRow_ApprovedOnly(row) ==
  IF row.status = "approved"
    THEN [row EXCEPT !.status = "draft", !.preflight = "not_run", !.approval = "draft"] ELSE row

\* reset_pack_after_content_change
ResetRow(row) == [row EXCEPT !.status = "draft", !.preflight = "not_run", !.approval = "draft"]

UpsertText(e) ==
  \E p \in Packs, edit \in Edits :
    Ask(e, p, ResetRow(packs[p].row),
        [kind |-> "text", channel |-> edit[1], was |-> packs[p].text[edit[1]], text |-> edit[2]])

\* attach_media, update_media and archive_media of an asset of the pack.
ChangeMedia(e) == \E p \in Packs : Ask(e, p, ResetRow(packs[p].row), [kind |-> "media"])

HasText(text, c) == text[c] \notin {"no_row", "empty"}

\* append_topic_context_rules, and the linked topic must still be approved.
TopicErrors(row) == ~row.linked \/ ~topic.context \/ topic.status # "approved"

\* build_social_channel_checks: the only length rule that blocks.
AllTooShort(text) ==
  LET present == {c \in Social : HasText(text, c)} IN
    present # {} /\ \A c \in present : text[c] = "short"

\* The findings of run_preflight that are errors; targets is the channels option.
PreflightErrors(pack, targets) ==
  \/ \E c \in Channels : pack.text[c] = "no_row"
  \/ \A c \in targets : ~HasText(pack.text, c)
  \/ TopicErrors(pack.row)
  \/ AllTooShort(pack.text)

RunPreflight(e) ==
  \E p \in Packs, targets \in {Channels} \cup {{c} : c \in Channels} :
    LET pack == packs[p]
        bad == PreflightErrors(pack, targets)
    IN /\ pack.row.status \in {"draft", "preflight_failed", "ready_for_approval"}
       /\ Ask(e, p, [pack.row EXCEPT
                       !.preflight = IF bad THEN "failed" ELSE "passed",
                       !.status = IF bad THEN "preflight_failed" ELSE "ready_for_approval"],
              [kind |-> IF bad THEN "none" ELSE "examine"])

ApprovePack(e) ==
  \E p \in Packs :
    /\ packs[p].row.preflight = "passed"
    /\ packs[p].row.status = "ready_for_approval"
    /\ Ask(e, p, [packs[p].row EXCEPT !.approval = "approved", !.status = "approved"], NoEdit)

RejectPack(e) ==
  \E p \in Packs :
    /\ packs[p].row.status \in {"ready_for_approval", "approved"}
    /\ Ask(e, p, [packs[p].row EXCEPT !.approval = "rejected", !.status = "draft"], NoEdit)

\* PATCH: a topic link, and a status that _apply_safe_status_change lets through.
UpdatePack(e) ==
  \E p \in Packs, link \in BOOLEAN : \E status \in {"draft", "archived", packs[p].row.status} :
    LET row == packs[p].row IN
      /\ status # row.status => status = "archived" \/ row.status # "approved"
      /\ Ask(e, p, [row EXCEPT !.status = status, !.linked = row.linked \/ link], NoEdit)

-----------------------------------------------------------------------------
(* The commit of a request, and what it means for the requests in flight.  *)

\* The UPDATE names only the columns that differ from what the session loaded.
Merged(now, seen, new) == [f \in DOMAIN now |-> IF new[f] = seen[f] THEN now[f] ELSE new[f]]

\* A commit on pack p makes every other request that has read p out of date.
Overtake(e, p) ==
  [x \in Editors |->
     IF x = e THEN Idle
     ELSE IF packCall[x] # Idle /\ packCall[x].pack = p
            THEN [packCall[x] EXCEPT !.fresh = FALSE] ELSE packCall[x]]

CommitPack(e) ==
  /\ packCall[e].pc = "decided"
  /\ LET r == packCall[e]
         edit == r.edit
         old == packs[r.pack]
         content == edit.kind \in {"text", "media"}
         row == Merged(old.row, r.seen, r.new)
         saved == IF edit.kind = "text" /\ edit.text # edit.was
                  THEN [old.text EXCEPT ![edit.channel] = edit.text] ELSE old.text
     IN /\ edit.kind = "text" /\ edit.was = "no_row" => old.text[edit.channel] = "no_row"
        /\ packs' = [packs EXCEPT ![r.pack] =
             [old EXCEPT !.row = row,
                         !.text = saved,
                         !.examined = IF edit.kind = "examine" THEN r.fresh ELSE @ /\ ~content,
                         !.disturbed = IF r.fresh THEN @ /\ ~content ELSE TRUE]]
        /\ packCall' = Overtake(e, r.pack)
  /\ UNCHANGED topic

\* A constraint, a fault or a dropped connection: the transaction is rolled back.
FailPack(e) ==
  /\ packCall[e] # Idle
  /\ packCall' = [packCall EXCEPT ![e] = Idle]
  /\ UNCHANGED <<topic, packs>>

\* update_topic, archive_topic and mark_used of the topic.
SetTopic(status) ==
  /\ topic' = [topic EXCEPT !.status = status]
  /\ UNCHANGED <<packs, packCall>>

PackNext ==
  \/ \E status \in TopicMoves : SetTopic(status)
  \/ \E e \in Editors :
       \/ UpsertText(e) \/ ChangeMedia(e) \/ RunPreflight(e) \/ ApprovePack(e) \/ RejectPack(e)
       \/ UpdatePack(e) \/ CommitPack(e) \/ FailPack(e)

PackSpec == PackInit /\ [][PackNext]_packVars

-----------------------------------------------------------------------------
(* Correctness.                                                            *)

\* "Any content change invalidates approval": a pack that is ready or approved passed a
\* preflight that examined the texts and media it has now.  Two requests that overlap on
\* a pack can break this; one edit that no request overlaps always restores it.
GatePassed ==
  \A p \in Packs :
    LET row == packs[p].row IN
      ~packs[p].disturbed /\ row.status \in {"ready_for_approval", "approved"}
      => /\ row.preflight = "passed" /\ packs[p].examined
         /\ row.status = "approved" => row.approval = "approved"
=============================================================================
