--------------------------- MODULE CarrierProfile ---------------------------
(***************************************************************************)
(* Carrier licenses: handler/carrier_profile.go over                       *)
(* service/carrier_profile.go.                                             *)
(***************************************************************************)
EXTENDS Store

CarrierData ==
  [expires : 1..(MaxTime + 1), generator : {None}, carrier : {None},
   manifest : {None}, basis : {None}]

CarrierProfileRequest(c) ==
  \E p \in Carriers :
    \/ /\ Allowed(c, "carrier", "create", "operator")
       /\ \E d \in CarrierData :
            Unexpired(d) /\ Receive(c, "create", p, 0, "", d, "commit")
    \/ /\ Allowed(c, "carrier", "update", "operator")
       /\ \E d \in CarrierData, v \in ExpectedVersions(p) :
            Receive(c, "update", p, v, "", d, "load")
    \/ /\ Allowed(c, "carrier", "transition", "reviewer")
       /\ \E s \in DOMAIN CarrierProfileTransitions, v \in ExpectedVersions(p) :
            Receive(c, "transition", p, v, s, BlankData, "load")
    \/ /\ Allowed(c, "carrier", "delete", "admin")
       /\ Receive(c, "delete", p, 0, "", BlankData, "load")

CreateCarrier(c) ==
  /\ Handling(c, Carriers, "create")
  /\ CreateAudited(c, CarrierProfileInitialStatus)

\* Any carrier may be edited, a verified one included.
UpdateCarrier(c) ==
  /\ Handling(c, Carriers, "update")
  /\ \/ Get(c, Unexpired(req[c].data), "commit")
     \/ UpdateAudited(c, [cur[c] EXCEPT !.data = req[c].data])

TransitionCarrier(c) ==
  LET p == rows[req[c].record]
      target == req[c].target
  IN
  /\ Handling(c, Carriers, "transition")
  /\ \/ Get(c, /\ CanTransition(CarrierProfileTransitions, p.status, target)
               /\ target = "verified" => Unexpired(p.data),
            "commit")
     \/ UpdateAudited(c, [cur[c] EXCEPT !.status = target])

DeleteCarrier(c) ==
  /\ Handling(c, Carriers, "delete")
  /\ Get(c, TRUE, "commit") \/ DeleteAudited(c)

CarrierProfileStep(c) ==
  \/ CarrierProfileRequest(c)
  \/ CreateCarrier(c)
  \/ UpdateCarrier(c)
  \/ TransitionCarrier(c)
  \/ DeleteCarrier(c)
=============================================================================
