----------------------------- MODULE MCPipeline -----------------------------
(* Deployments of the control loop for TLC. *)
EXTENDS Pipeline

Build(hw, twice) ==
  [impl |-> [s \in Stage |-> IF s \in hw THEN "hw" ELSE "sw"],
   copies |-> [s \in Stage |-> IF s \in twice THEN 2 ELSE 1],
   cap |-> [b \in Box |-> 1]]

AllHardware == Build(Stage, {})
SwEnds == Build({"control", "inverse"}, {})
AllSoftware == Build({}, {"control", "inverse"}) \* main.c, with fewer copies

MCDeployments == {AllHardware, SwEnds, AllSoftware}
=============================================================================
