-------------------------- MODULE ComplianceCheck ---------------------------
(***************************************************************************)
(* Compliance checks of a manifest: handler/compliance_check.go over       *)
(* service/compliance_check.go.                                            *)
(***************************************************************************)
EXTENDS Store

\* DecisionBasis is free text: here, its author, or None when left blank.
CheckData(c) ==
  [expires : {0}, generator : {None}, carrier : {None},
   manifest : Manifests, basis : {c, None}]

ComplianceCheckRequest(c) ==
  \E k \in Checks :
    \/ /\ Allowed(c, "check", "create", "operator")
       /\ \E d \in CheckData(c) : Receive(c, "create", k, 0, "", d, "manifest")
    \/ /\ Allowed(c, "check", "update", "operator")
       /\ \E d \in CheckData(c), v \in ExpectedVersions(k) :
            Receive(c, "update", k, v, "", d, "load")
    \/ /\ Allowed(c, "check", "transition", "reviewer")
       /\ \E s \in DOMAIN ComplianceCheckTransitions, v \in ExpectedVersions(k) :
            Receive(c, "transition", k, v, s, BlankData, "load")
    \/ /\ Allowed(c, "check", "delete", "admin")
       /\ Receive(c, "delete", k, 0, "", BlankData, "load")

FindManifest(c) == FindByCode(c, "manifest", req[c].data.manifest, TRUE, "commit")

CreateCheck(c) ==
  /\ Handling(c, Checks, "create")
  /\ \/ FindManifest(c)
     \/ CreateAudited(c, ComplianceCheckInitialStatus)

UpdateCheck(c) ==
  /\ Handling(c, Checks, "update")
  /\ \/ Get(c, rows[req[c].record].status = "pending", "manifest")
     \/ FindManifest(c)
     \/ UpdateAudited(c, [cur[c] EXCEPT !.data = req[c].data])

\* The statuses in which a manifest can pass review.
Passable == {"submitted", "in_transit", "received"}

\* Mutants: the decision keeps the old basis; the manifest's status is not read.
TransitionKeepingBasis(c) ==
  LET m == cur[c].data.manifest IN
  /\ Handling(c, Checks, "transition")
  /\ \/ Get(c, CanTransition(ComplianceCheckTransitions,
                             rows[req[c].record].status, req[c].target), "manifest")
     \/ FindByCode(c, "manifest", m,
                   req[c].target = "pass" => rows[m].status \in Passable, "commit")
     \/ UpdateAudited(c, [cur[c] EXCEPT !.status = req[c].target])
TransitionAnyManifest(c) ==
  /\ Handling(c, Checks, "transition")
  /\ \/ Get(c, CanTransition(ComplianceCheckTransitions,
                             rows[req[c].record].status, req[c].target), "manifest")
     \/ FindByCode(c, "manifest", cur[c].data.manifest, TRUE, "commit")
     \/ UpdateAudited(c, [cur[c] EXCEPT !.status = req[c].target, !.data.basis = c])

\* Every decision needs its manifest to exist, a pass a passable one; the
\* reason given becomes the decision basis.
TransitionCheck(c) ==
  LET target == req[c].target
      m == cur[c].data.manifest
  IN
  /\ Handling(c, Checks, "transition")
  /\ \/ Get(c, CanTransition(ComplianceCheckTransitions,
                             rows[req[c].record].status, target), "manifest")
     \/ FindByCode(c, "manifest", m, target = "pass" => rows[m].status \in Passable,
                   "commit")
     \/ UpdateAudited(c, [cur[c] EXCEPT !.status = target, !.data.basis = c])

\* Mutant: a decided check may be deleted.
DeleteCheckAnyStatus(c) ==
  /\ Handling(c, Checks, "delete")
  /\ Get(c, TRUE, "commit") \/ DeleteAudited(c)

DeleteCheck(c) ==
  /\ Handling(c, Checks, "delete")
  /\ \/ Get(c, rows[req[c].record].status = "pending", "commit")
     \/ DeleteAudited(c)

ComplianceCheckStep(c) ==
  \/ ComplianceCheckRequest(c)
  \/ CreateCheck(c)
  \/ UpdateCheck(c)
  \/ TransitionCheck(c)
  \/ DeleteCheck(c)
=============================================================================
