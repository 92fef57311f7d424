-------------------------- MODULE TransferManifest --------------------------
(***************************************************************************)
(* Transfer manifests: handler/transfer_manifest.go over                   *)
(* service/transfer_manifest.go.  A manifest names its generator and its   *)
(* carrier by code; the service looks them up one after the other.         *)
(***************************************************************************)
EXTENDS Store

ManifestData ==
  [expires : {0}, generator : Generators, carrier : Carriers,
   manifest : {None}, basis : {None}]

TransferManifestRequest(c) ==
  \E m \in Manifests :
    \/ /\ Allowed(c, "manifest", "create", "operator")
       /\ \E d \in ManifestData : Receive(c, "create", m, 0, "", d, "generator")
    \/ /\ Allowed(c, "manifest", "update", "operator")
       /\ \E d \in ManifestData, v \in ExpectedVersions(m) :
            Receive(c, "update", m, v, "", d, "load")
    \/ /\ Allowed(c, "manifest", "transition", "operator")
       /\ \E s \in DOMAIN TransferManifestTransitions, v \in ExpectedVersions(m) :
            Receive(c, "transition", m, v, s, BlankData, "load")
    \/ /\ Allowed(c, "manifest", "delete", "admin")
       /\ Receive(c, "delete", m, 0, "", BlankData, "load")

\* Mutant: the carrier is not looked up.
FindGeneratorOnly(c) ==
  FindByCode(c, "generator", req[c].data.generator, TRUE, "commit")

\* The parties a request names exist: two lookups, the rows are not used.
FindParties(c) ==
  \/ FindByCode(c, "generator", req[c].data.generator, TRUE, "carrier")
  \/ FindByCode(c, "carrier", req[c].data.carrier, TRUE, "commit")

CreateManifest(c) ==
  /\ Handling(c, Manifests, "create")
  /\ \/ FindParties(c)
     \/ CreateAudited(c, TransferManifestInitialStatus)

\* Mutant: any manifest may be edited.
UpdateManifestAnyStatus(c) ==
  /\ Handling(c, Manifests, "update")
  /\ \/ Get(c, TRUE, "generator")
     \/ FindParties(c)
     \/ UpdateAudited(c, [cur[c] EXCEPT !.data = req[c].data])

UpdateManifest(c) ==
  /\ Handling(c, Manifests, "update")
  /\ \/ Get(c, rows[req[c].record].status = "draft", "generator")
     \/ FindParties(c)
     \/ UpdateAudited(c, [cur[c] EXCEPT !.data = req[c].data])

GeneratorQualified(g) ==
  Live(g) /\ rows[g].status = "active" /\ Unexpired(rows[g].data)

CarrierQualified(p) ==
  Live(p) /\ rows[p].status = "verified" /\ Unexpired(rows[p].data)

\* Mutant: the carrier must exist, whatever its status.
ValidateGeneratorOnly(c) ==
  LET m == cur[c].data IN
  \/ FindByCode(c, "generator", m.generator, GeneratorQualified(m.generator), "carrier")
  \/ FindByCode(c, "carrier", m.carrier, TRUE, "commit")

\* The generator is read and judged first, the carrier by a later read.
ValidateLinkedParties(c) ==
  LET m == cur[c].data IN
  \/ FindByCode(c, "generator", m.generator, GeneratorQualified(m.generator), "carrier")
  \/ FindByCode(c, "carrier", m.carrier, CarrierQualified(m.carrier), "commit")

TransitionManifest(c) ==
  LET target == req[c].target IN
  /\ Handling(c, Manifests, "transition")
  /\ \/ Get(c, CanTransition(TransferManifestTransitions,
                             rows[req[c].record].status, target),
            IF target \in {"submitted", "in_transit"} THEN "generator" ELSE "commit")
     \/ ValidateLinkedParties(c)
     \/ UpdateAudited(c, [cur[c] EXCEPT !.status = target])

DeleteManifest(c) ==
  /\ Handling(c, Manifests, "delete")
  /\ \/ Get(c, rows[req[c].record].status = "draft", "commit")
     \/ DeleteAudited(c)

TransferManifestStep(c) ==
  \/ TransferManifestRequest(c)
  \/ CreateManifest(c)
  \/ UpdateManifest(c)
  \/ TransitionManifest(c)
  \/ DeleteManifest(c)
=============================================================================
