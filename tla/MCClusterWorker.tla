--------------------------- MODULE MCClusterWorker ---------------------------
EXTENDS ClusterWorker, TLC

Zero == [a \in WorkerActs |-> 0]
B(limits) == limits @@ Zero

MCControllers == <<"controller-01">>
MCWorkers == <<"worker-01">>
MCBudgets ==
  {B([kills |-> 2]), B([kills |-> 1, tampers |-> 1, reruns |-> 1]),
   B([kills |-> 1, errors |-> 1]), B([rotations |-> 1, reruns |-> 1]),
   B([overlaps |-> 1, switches |-> 2]), B([overlaps |-> 1, switches |-> 1, kills |-> 1]),
   B([recreations |-> 1, overlaps |-> 1, switches |-> 1])}
=============================================================================
