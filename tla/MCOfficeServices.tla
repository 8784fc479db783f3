-------------------------- MODULE MCOfficeServices --------------------------
(***************************************************************************)
(* Small instances of the services of a tenant's back office, for TLC.     *)
(***************************************************************************)
EXTENDS OfficeServices, TLC

(* Three stages of the sales pipeline and two policies that allow          *)
(* different edges.                                                        *)

SalesStages == {"new_lead", "first_contact", "rejected"}

Forward == {<<"new_lead", "first_contact">>, <<"first_contact", "rejected">>}
Circular == {<<"new_lead", "rejected">>, <<"rejected", "new_lead">>}

TwoPolicies == {Forward, Circular}

\* The instance completes runs and cancels none: the two differ in a value that nothing
\* reads.  It gives parties, uploaded files, proposals and accounts the same names, to
\* be permuted together.
OfficeSymmetry == Permutations(Workers) \cup Permutations(Parties)

-----------------------------------------------------------------------------
(* The other services.  crm requires parties, and a plan lists it first;   *)
(* a client has to have an iin.                                            *)

TwoModules == {"parties", "crm"}
CrmRequires == [c \in TwoModules |-> IF c = "crm" THEN {"parties"} ELSE {}]
PartiesFirst == <<"parties", "crm">>
TwoPlans == {<<"crm", "parties">>, <<"parties">>}
CrmSupported == [v \in {"bitrix24"} |-> {"crm"}]
OnePhone == {<<"phone", "k1">>}
PhoneWhatsappOrId == OnePhone \cup {<<"whatsapp", "k1">>, <<"telegram_user_id", "77">>}
ClientsOnly == [f \in {"iin"} |-> {"client"}]
=============================================================================
