---------------------------- MODULE MCSocialPublish ----------------------------
(***************************************************************************)
(* Two packs, one due at once and one later, on a scheduled channel, on a  *)
(* gated one and on one whose packs take a root and a reply.               *)
(***************************************************************************)
EXTENDS SocialPublish, TLC

FilesOf ==
  [c \in Channels |-> CASE c = "telegram" -> Packs [] c = "instagram" -> {1} [] OTHER -> {2}]
PartsOf == [c \in Channels |-> IF c = "threads" THEN 2 ELSE 1]
ConfiguredSets == {{"telegram", "instagram"}, {"instagram", "threads"}}
DueAt == [p \in Packs |-> p - 1]
=============================================================================
