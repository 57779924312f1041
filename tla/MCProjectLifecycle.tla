------------------------- MODULE MCProjectLifecycle -------------------------
EXTENDS ProjectLifecycle, TLC
MCTargets == {[name |-> "n1", domain |-> "sso"], [name |-> "n2", domain |-> "sso"]}
MCGroupOf == [t \in MCTargets |-> t.name]
MCEnv(f, n, e) == [faults |-> f, creations |-> n, edits |-> e]
MCSafety == {MCEnv({"crash"}, 2, 0), MCEnv({"overlap"}, 2, 0), MCEnv({"list", "tie"}, 2, 0),
             MCEnv({"api"}, 2, 0), MCEnv({"admin"}, 2, 0), MCEnv({}, 2, 1)}
MCLiveness == {MCEnv({}, 2, 0), MCEnv({"rename"}, 1, 1)}
MCOverlap == {MCEnv({"overlap"}, 2, 0)}
IdSymmetry == Permutations(ProjectIds)
=============================================================================
