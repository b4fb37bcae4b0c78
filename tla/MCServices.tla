----------------------------- MODULE MCServices -----------------------------
(* The services beside the analysis: captions that are bought, the monitoring *)
(* of channels, the mail of a digest, and the trust of a published claim.     *)
(* They share no state, so each is checked by itself: a behaviour is one of   *)
(* the service that `service` names, and the others stay as they began.       *)
EXTENDS CaptionAttempts, Monitoring, Delivery, ClaimRecord, TLC

CONSTANTS
    v1,            \* a video whose captions two finders want
    channel,       \* of both uploads
    day, e1, e2,   \* a digest, and two events of its mail
    Services       \* the services to check

TheVideo == [f \in Finders |-> v1]

OneChannel == [u \in Uploads |-> channel]

OneMail   == e1 :> day @@ e2 :> day
TwoDates  == e1 :> 1 @@ e2 :> 2

\* Finders, checks, sweeps and publishers are the same two workers, and uploads
\* and webhook requests the same two values, so that few permutations do for all of them.
Interchangeable == Permutations(Checks) \cup Permutations(Uploads)

VARIABLE service

serviceVars == <<service, captionVars, monitoringVars, deliveryVars, claimVars>>

ServicesInit ==
    /\ service \in Services
    /\ CaptionInit /\ MonitoringInit /\ DeliveryInit /\ ClaimInit
    /\ service # "monitoring" => \A c \in Channels : channelRow[c].auto

CaptionsGo == service = "captions" /\ CaptionNext
              /\ UNCHANGED <<service, monitoringVars, deliveryVars, claimVars>>
MonitoringGoes == service = "monitoring" /\ MonitoringNext
                  /\ UNCHANGED <<service, captionVars, deliveryVars, claimVars>>
DeliveryGoes == service = "delivery" /\ DeliveryNext
                /\ UNCHANGED <<service, captionVars, monitoringVars, claimVars>>
ClaimsGo == service = "claims" /\ ClaimNext
            /\ UNCHANGED <<service, captionVars, monitoringVars, deliveryVars>>

ServicesNext == CaptionsGo \/ MonitoringGoes \/ DeliveryGoes \/ ClaimsGo

ServicesSpec == ServicesInit /\ [][ServicesNext]_serviceVars

-----------------------------------------------------------------------------
\* Every variable of every service has its type.
ServiceTypesOK == CaptionTypeOK /\ MonitoringTypeOK /\ DeliveryTypeOK /\ ClaimTypeOK
=============================================================================
