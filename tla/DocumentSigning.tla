---------------------------- MODULE DocumentSigning ----------------------------
(***************************************************************************)
(* Documents generated from templates or imported, sent for signature and  *)
(* signed by uploading a file.                                             *)
(*                                                                         *)
(* A request reads its document without a lock, writes at most one file to *)
(* the disk and then commits its rows; a failure in between rolls the rows *)
(* back and leaves the file.                                               *)
(***************************************************************************)
EXTENDS Naturals

CONSTANTS Users,      \* requests that may be under way at the same time
          Docs,       \* document ids that uuid4 may give
          Keys,       \* placeholders and field keys
          Required,   \* field keys a template declares as required
          Defaulted,  \* field keys with a default value
          Uploads,    \* bytes a client may upload
          MaxCalls    \* bound: requests in a behaviour

VARIABLES template,  \* the template: active or not, and the placeholders of its body
          docs,      \* rows of document_instances, with their files and requests
          disk,      \* disk[d]: the files in the directory of d, by name
          call,      \* what each request has read and is about to write
          clean,     \* documents that no PATCH, import or overtaken request has touched
          calls      \* requests begun

vars == <<template, docs, disk, call, clean, calls>>

Statuses == {"draft", "generated", "sent_for_review", "sent_for_signature", "signed",
             "rejected", "cancelled", "archived"}
FileTypes == {"generated", "signed"}

\* "<id>.txt" is the name of the generated file; a client may upload under that name too.
Names == {"<id>.txt", "signed.pdf"}
Rendered == "rendered"
Contents == Uploads \cup {Rendered}
Absent == [status |-> "absent"]
Files == [type : FileTypes, name : Names, content : Contents]
Rows == [status : Statuses, open : SUBSET (1..MaxCalls), files : SUBSET Files]

Idle == [pc |-> "idle"]
Calls == {Idle} \cup
  [pc : {"decided", "written"}, doc : Docs, seen : Rows \cup {Absent}, status : Statuses,
   opens : SUBSET (1..MaxCalls), closes : SUBSET (1..MaxCalls), file : SUBSET Files,
   guarded : BOOLEAN, fresh : BOOLEAN]

TypeOK ==
  /\ template \in [active : BOOLEAN, placeholders : SUBSET Keys]
  /\ docs \in [Docs -> Rows \cup {Absent}]
  /\ \A d \in Docs : DOMAIN disk[d] \subseteq Names /\ \A n \in DOMAIN disk[d] : disk[d][n] \in Contents
  /\ call \in [Users -> Calls]
  /\ clean \subseteq Docs
  /\ calls \in 0..MaxCalls

NoFiles == [n \in {} |-> Rendered]

\* One template, as import_templates_from_config leaves it, and no documents.
Init ==
  /\ template = [active |-> TRUE, placeholders |-> Keys]
  /\ docs = [d \in Docs |-> Absent]
  /\ disk = [d \in Docs |-> NoFiles]
  /\ call = [u \in Users |-> Idle]
  /\ clean = Docs
  /\ calls = 0

Exists(d) == docs[d] # Absent

\* uuid4 never gives an id twice, not even one whose insertion was rolled back.
Unused(d) ==
  ~Exists(d) /\ disk[d] = NoFiles /\ \A u \in Users : call[u] # Idle => call[u].doc # d

-----------------------------------------------------------------------------
(* Templates.                                                              *)

\* PATCH of the template: body, activity.
UpdateTemplate ==
  /\ calls < MaxCalls
  /\ template' \in [active : BOOLEAN, placeholders : SUBSET Keys]
  /\ template' # template
  /\ calls' = calls + 1
  /\ UNCHANGED <<docs, disk, call, clean>>

\* _build_context: the keys that have a value, or nothing when one is missing.
Context(provided) == provided \cup Defaulted
ContextComplete(provided) ==
  /\ (Required \cap template.placeholders) \subseteq Context(provided)
  /\ template.placeholders \subseteq Context(provided)

-----------------------------------------------------------------------------
(* What a request decides on the document it has read.                     *)

Decide(u, d, status, opens, closes, file, guarded) ==
  /\ call[u] = Idle
  /\ calls < MaxCalls
  /\ calls' = calls + 1
  /\ call' = [call EXCEPT ![u] =
       [pc |-> "decided", doc |-> d, seen |-> docs[d], status |-> status, opens |-> opens,
        closes |-> closes, file |-> file, guarded |-> guarded, fresh |-> TRUE]]
  /\ UNCHANGED <<template, docs, disk, clean>>

GenerateDocument(u) ==
  \E d \in Docs, provided \in SUBSET Keys :
    /\ Unused(d)
    /\ template.active
    /\ ContextComplete(provided)
    /\ Decide(u, d, "generated", {}, {},
              {[type |-> "generated", name |-> "<id>.txt", content |-> Rendered]}, TRUE)

\* map_legacy_contract_status, with the draft of unknown and missing statuses; the
\* payload may also name any status itself.
LegacyStatuses == {"signed", "archived", "sent_for_review", "cancelled", "draft"}

ImportDocument(u) ==
  \E d \in Docs, status \in LegacyStatuses \cup Statuses :
    Unused(d) /\ Decide(u, d, status, {}, {}, {}, status # "signed")

\* PATCH of the document: any status.  Only one that declares it signed is unguarded.
UpdateDocument(u) ==
  \E d \in Docs, status \in Statuses :
    /\ Exists(d)
    /\ Decide(u, d, status, {}, {}, {}, status # "signed")

SendForSignature(u) ==
  \E d \in Docs :
    /\ docs[d].status \in {"generated", "sent_for_review"}
    /\ Decide(u, d, "sent_for_signature", {calls + 1}, {}, {}, TRUE)

\* Mutant: only the latest of the open signature requests is closed.
UploadSignedFile_ClosesLatest(u) ==
  \E d \in Docs, name \in Names, content \in Uploads :
    /\ docs[d].status \in {"sent_for_signature", "sent_for_review", "generated"}
    /\ Decide(u, d, "signed", {}, {n \in docs[d].open : \A m \in docs[d].open : m <= n},
              {[type |-> "signed", name |-> name, content |-> content]}, TRUE)

UploadSignedFile(u) ==
  \E d \in Docs, name \in Names, content \in Uploads :
    /\ docs[d].status \in {"sent_for_signature", "sent_for_review", "generated"}
    /\ Decide(u, d, "signed", {}, docs[d].open,
              {[type |-> "signed", name |-> name, content |-> content]}, TRUE)

-----------------------------------------------------------------------------
(* The disk, the commit and the failures.                                  *)

\* The other requests on the document are overtaken.
Overtaking(u, next) ==
  [t \in Users |->
     IF t = u THEN next
     ELSE IF call[t] # Idle /\ call[t].doc = call[u].doc THEN [call[t] EXCEPT !.fresh = FALSE]
     ELSE call[t]]

Soiled(u) == IF call[u].guarded /\ call[u].fresh THEN clean ELSE clean \ {call[u].doc}

\* save_text_file, save_binary_file: an existing file of that name is overwritten.
WriteFile(u) ==
  /\ call[u].pc = "decided"
  /\ \E f \in call[u].file :
       disk' = [disk EXCEPT ![call[u].doc] =
                  [n \in DOMAIN @ \cup {f.name} |-> IF n = f.name THEN f.content ELSE @[n]]]
  /\ call' = Overtaking(u, [call[u] EXCEPT !.pc = "written"])
  /\ clean' = Soiled(u)
  /\ UNCHANGED <<template, docs, calls>>

\* A status that differs from the one read is written over what is there by now.
Committed(r) ==
  LET now == IF docs[r.doc] = Absent THEN [status |-> r.status, open |-> {}, files |-> {}]
             ELSE docs[r.doc]
  IN [status |-> IF r.seen = Absent \/ r.seen.status # r.status THEN r.status ELSE now.status,
      open   |-> (now.open \ r.closes) \cup r.opens,
      files  |-> now.files \cup r.file]

Commit(u) ==
  /\ call[u] # Idle
  /\ call[u].file # {} => call[u].pc = "written"
  /\ docs' = [docs EXCEPT ![call[u].doc] = Committed(call[u])]
  /\ call' = Overtaking(u, Idle)
  /\ clean' = Soiled(u)
  /\ UNCHANGED <<template, disk, calls>>

\* The worker dies or the commit fails: the rows are gone, the file stays.
Rollback(u) ==
  /\ call[u] # Idle
  /\ call' = [call EXCEPT ![u] = Idle]
  /\ UNCHANGED <<template, docs, disk, clean, calls>>

Ask(u) ==
  \/ GenerateDocument(u) \/ ImportDocument(u) \/ UpdateDocument(u)
  \/ SendForSignature(u) \/ UploadSignedFile(u)

Next == UpdateTemplate \/ \E u \in Users : Ask(u) \/ WriteFile(u) \/ Commit(u) \/ Rollback(u)

Spec == Init /\ [][Next]_vars

-----------------------------------------------------------------------------
(* Correctness.                                                            *)

\* A signed document has a signed file whose bytes are the ones on the disk, and nobody
\* is still asked for a signature: whatever was sent, sent again after a review, left
\* behind by failed uploads or uploaded under the name of the generated file.  Documents
\* declared signed by a PATCH or an import, and requests that overtake each other on one
\* document, are exempt.
SignedIsBacked ==
  \A d \in clean : docs[d].status = "signed" =>
    /\ docs[d].open = {}
    /\ \E f \in docs[d].files : f.type = "signed" /\ disk[d][f.name] = f.content
=============================================================================
