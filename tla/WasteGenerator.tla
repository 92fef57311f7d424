--------------------------- MODULE WasteGenerator ---------------------------
(***************************************************************************)
(* Generator permits: handler/waste_generator.go over                      *)
(* service/waste_generator.go.                                             *)
(***************************************************************************)
EXTENDS Store

GeneratorData ==
  [expires : 1..(MaxTime + 1), generator : {None}, carrier : {None},
   manifest : {None}, basis : {None}]

\* validateWasteGeneratorBusinessFields runs before the first database call of
\* Create, and after Get in Update.
WasteGeneratorRequest(c) ==
  \E g \in Generators :
    \/ /\ Allowed(c, "generator", "create", "operator")
       /\ \E d \in GeneratorData :
            Unexpired(d) /\ Receive(c, "create", g, 0, "", d, "commit")
    \/ /\ Allowed(c, "generator", "update", "operator")
       /\ \E d \in GeneratorData, v \in ExpectedVersions(g) :
            Receive(c, "update", g, v, "", d, "load")
    \/ /\ Allowed(c, "generator", "transition", "reviewer")
       /\ \E s \in DOMAIN WasteGeneratorTransitions, v \in ExpectedVersions(g) :
            Receive(c, "transition", g, v, s, BlankData, "load")
    \/ /\ Allowed(c, "generator", "delete", "admin")
       /\ Receive(c, "delete", g, 0, "", BlankData, "load")

CreateGenerator(c) ==
  /\ Handling(c, Generators, "create")
  /\ CreateAudited(c, WasteGeneratorInitialStatus)

\* Any generator may be edited, whatever its status.
UpdateGenerator(c) ==
  /\ Handling(c, Generators, "update")
  /\ \/ Get(c, Unexpired(req[c].data), "commit")
     \/ UpdateAudited(c, [cur[c] EXCEPT !.data = req[c].data])

\* Mutant: any status may follow any other.
TransitionGeneratorFreely(c) ==
  /\ Handling(c, Generators, "transition")
  /\ \/ Get(c, TRUE, "commit")
     \/ UpdateAudited(c, [cur[c] EXCEPT !.status = req[c].target])

TransitionGenerator(c) ==
  LET g == rows[req[c].record]
      target == req[c].target
  IN
  /\ Handling(c, Generators, "transition")
  /\ \/ Get(c, /\ CanTransition(WasteGeneratorTransitions, g.status, target)
               /\ target = "active" => Unexpired(g.data),
            "commit")
     \/ UpdateAudited(c, [cur[c] EXCEPT !.status = target])

DeleteGenerator(c) ==
  /\ Handling(c, Generators, "delete")
  /\ Get(c, TRUE, "commit") \/ DeleteAudited(c)

WasteGeneratorStep(c) ==
  \/ WasteGeneratorRequest(c)
  \/ CreateGenerator(c)
  \/ UpdateGenerator(c)
  \/ TransitionGenerator(c)
  \/ DeleteGenerator(c)
=============================================================================
