--------------------------- MODULE MCDeployEngine ---------------------------
(* Model-checking instances of DeployEngine: up to three releases, recorded *)
(* with one port, or with another one for the second release.              *)
EXTENDS DeployEngine

OnePort == [r \in Rel |-> 1]
PortChange == [r \in Rel |-> IF r = 2 THEN 2 ELSE 1]

AllFaults == {"docker", "reload", "fs", "crash"}

Setting(strategy, image, port, ops, faults) ==
  [strategy |-> strategy, image |-> image, port |-> port, ops |-> ops, faults |-> faults]

\* Rolling with every fault; every command with none, for both strategies and
\* a changed port; built images with every command and fault; recreate with
\* kills and disk errors, and with every fault.
AllSettings ==
  {Setting("rolling", "built", OnePort, {"deploy", "rollback", "others"}, AllFaults),
   Setting("rolling", "pulled", PortChange, Commands \union {"others"}, {}),
   Setting("recreate", "built", PortChange, Commands \union {"others"}, {}),
   Setting("rolling", "built", OnePort, {"deploy", "restart", "remove", "stop"}, {"docker"}),
   Setting("recreate", "pulled", OnePort, Commands, {"crash", "fs"}),
   Setting("recreate", "built", OnePort, {"deploy", "rollback", "stop"}, {"docker", "crash"})}
=============================================================================
