-------------------------- MODULE MCManagedResources --------------------------
EXTENDS ManagedResources
\* A domain, whose CR runs the collector, and a flavor.
MCResources == {"d1", "f1"}
MCKindOf == [d1 |-> "domains", f1 |-> "flavors"]
MCNameOf == <<"d1", "f1">>
MCGcKinds == <<"flavors", "domains">>
MCEnv(f, n) == [faults |-> f, inputs |-> n]
MCAll == {MCEnv({"crash"}, 2), MCEnv({"api"}, 2), MCEnv({"admin"}, 2),
          MCEnv({"lag"}, 2), MCEnv({}, 3)}
===============================================================================
