--------------------------- MODULE MCProjectAccess ---------------------------
EXTENDS ProjectAccess

CONSTANTS c1, c2, u1, u2

B(creations, edits, deletions, logins, failures, losses, crashes) ==
  [creations |-> creations, edits |-> edits, deletions |-> deletions, logins |-> logins,
   failures |-> failures, losses |-> losses, crashes |-> crashes]
S(bindings, managed, annotation) ==
  [bindings |-> bindings, managed |-> managed, annotation |-> annotation]

MCSpecs == {S(<<{u1}>>, FALSE, 0), S(<<{u1}>>, FALSE, 1), S(<<{u2}>>, FALSE, 0),
            S(<<{u1}, {u2}>>, TRUE, 0), S(<<>>, FALSE, 0)}
MCBudgets == {B(2, 1, 0, 0, 0, 0, 0), B(2, 0, 1, 0, 0, 0, 0),
              B(1, 1, 0, 1, 0, 1, 0), B(1, 0, 1, 1, 1, 0, 1)}
=============================================================================
