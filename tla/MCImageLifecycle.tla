--------------------------- MODULE MCImageLifecycle ---------------------------
EXTENDS ImageLifecycle
MCEnv(f, n, x) == [faults |-> f, inputs |-> n, external |-> x]
\* Edits multiply the states: they get an environment without faults.
MCAll == {MCEnv({}, 1, {FALSE}), MCEnv({"import"}, 1, {FALSE}), MCEnv({"edit"}, 2, {FALSE}),
          MCEnv({"api", "crash", "import"}, 2, {FALSE}), MCEnv({"admin"}, 2, BOOLEAN),
          MCEnv({"upload"}, 2, {TRUE})}
===============================================================================
