---------------------------- MODULE MCIngestion ----------------------------
(* Two scenes.  "reports": two callers report payments of one customer,    *)
(* with and without a payment id, next to a sweep.  "sweeps": one caller   *)
(* reports payments of nobody, next to two sweeps, and one transaction may *)
(* die.                                                                    *)
EXTENDS Ingestion

CONSTANTS a, b, p, q, id1, r1

VARIABLE scene

sceneVars == <<vars, scene>>

InScene ==
  /\ UNCHANGED scene
  /\ IF scene = "reports"
     THEN /\ pc'[q] = "idle" /\ aborts' = 0
          /\ Len(payment) = 2 =>
               \A s \in Callers : pc'[s] = "dedup" => pc[s] = "dedup"
          /\ \A s \in Callers : req'[s] # AnyRequest => req'[s].ref = r1
     ELSE /\ pc'[b] = "idle"
          /\ req'[a].pid = NoValue /\ req'[a].ref = NoValue

SceneInit == Init /\ scene \in {"reports", "sweeps"}

SceneSpec ==
  /\ SceneInit
  /\ [][Next /\ InScene]_sceneVars

(* The fairness of FairSpec, for what happens in the scene.                *)
FairSceneSpec ==
  /\ SceneSpec
  /\ \A s \in Callers : WF_sceneVars(Ingest(s) /\ InScene)
  /\ \A s \in Sessions : WF_sceneVars(Insert(s) /\ InScene)
  /\ \A s \in Sweepers : WF_sceneVars(SweepRead(s) /\ InScene)
============================================================================
