--------------------------- MODULE MarketingServices ---------------------------
(***************************************************************************)
(* The marketing services of a tenant that share no rule, side by side:    *)
(* the approval of packs, managed media, publish destinations, guides with *)
(* rubrics, and the secret of a connection.  A behaviour exercises the one *)
(* that `focus' names: interleaving two of them would show nothing that    *)
(* either does not show alone.                                             *)
(***************************************************************************)
EXTENDS PackApproval, SecretLifecycle

CONSTANTS None,
          Profiles, Assets, MaxMediaCalls,
          Connections, Destinations, Accounts, ExternalIds, Types, MaxDestinationCalls,
          MaxGuides, Codes, SeededCodes, MaxGuideCalls

ASSUME ServicesAssumption ==
  MaxMediaCalls \in Nat /\ MaxDestinationCalls \in Nat /\ MaxGuides \in Nat /\ MaxGuideCalls \in Nat

VARIABLES focus, \* the service this behaviour exercises
          profiles, assets, objects, mediaCall, abandoned, unheard, raced, mediaCalls,
          connections, destinations, destinationCall, destinationsOvertaken, destinationCalls,
          guides, rubrics, guideCall, guidesOvertaken, guideCalls

mediaVars == <<profiles, assets, objects, mediaCall, abandoned, unheard, raced, mediaCalls>>
destinationVars ==
  <<connections, destinations, destinationCall, destinationsOvertaken, destinationCalls>>
guideVars == <<guides, rubrics, guideCall, guidesOvertaken, guideCalls>>

-----------------------------------------------------------------------------
Media ==
  INSTANCE ManagedMedia
    WITH Users <- Editors, MaxCalls <- MaxMediaCalls, call <- mediaCall, calls <- mediaCalls

Publishing ==
  INSTANCE PublishDestinations
    WITH Admins <- Editors, NoAccount <- None, MaxCalls <- MaxDestinationCalls,
         call <- destinationCall, overtaken <- destinationsOvertaken, calls <- destinationCalls

Guidance ==
  INSTANCE EditorialGuides
    WITH Defaults <- SeededCodes, MaxCalls <- MaxGuideCalls,
         call <- guideCall, overtaken <- guidesOvertaken, calls <- guideCalls

-----------------------------------------------------------------------------
MarketingInit ==
  /\ focus \in {"packs", "media", "destinations", "guides", "secrets"}
  /\ PackInit /\ Media!Init /\ Publishing!Init /\ Guidance!Init /\ Init
  /\ focus # "packs" => topic.context /\ packs = [p \in Packs |-> NewPack(TRUE, Channels)]

MarketingNext ==
  /\ UNCHANGED focus
  /\ \/ /\ focus = "packs" /\ PackNext
        /\ UNCHANGED <<mediaVars, destinationVars, guideVars, vars>>
     \/ /\ focus = "media" /\ Media!Next
        /\ UNCHANGED <<packVars, destinationVars, guideVars, vars>>
     \/ /\ focus = "destinations" /\ Publishing!Next
        /\ UNCHANGED <<packVars, mediaVars, guideVars, vars>>
     \/ /\ focus = "guides" /\ Guidance!Next
        /\ UNCHANGED <<packVars, mediaVars, destinationVars, vars>>
     \/ /\ focus = "secrets" /\ Next
        /\ UNCHANGED <<packVars, mediaVars, destinationVars, guideVars>>

MarketingSpec ==
  /\ MarketingInit
  /\ [][MarketingNext]_<<focus, packVars, mediaVars, destinationVars, guideVars, vars>>

-----------------------------------------------------------------------------
(* Correctness, besides that of packs and secrets.                         *)

\* The storage holds the objects of the assets, and what a failure is known to leave.
ObjectsAccounted == Media!ObjectsAccounted

\* A tenant that has a default profile keeps one.
DefaultKept == Media!DefaultKept

\* The identity of a destination that was validated or published to does not change.
IdentitiesSettled == Publishing!IdentitiesSettled

\* One guide stays active, and superseded guides stay as they were.
GuideHistoryKept == Guidance!GuideHistoryKept
=============================================================================
