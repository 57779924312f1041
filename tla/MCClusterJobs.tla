---------------------------- MODULE MCClusterJobs ----------------------------
EXTENDS ClusterJobs, TLC

S(suspended, groups) ==
  [retain |-> TRUE, suspended |-> suspended, complete |-> TRUE, groups |-> groups]
P(max, addresses, ingress) ==
  [complete |-> TRUE, max |-> max, addresses |-> addresses, api |-> 5,
   ingress |-> ingress, machines |-> "m"]
Q(ready) == [ready |-> ready, matches |-> TRUE, id |-> "p"]

Zero == [a \in Acts |-> 0]
B(limits) == limits @@ Zero

MCSpecs == {S(FALSE, 1), S(FALSE, 7), S(TRUE, 1), [S(FALSE, 1) EXCEPT !.retain = FALSE]}
MCProfiles == {P(2, 32, 6), P(1, 16, 6), P(7, 32, 6), P(2, 32, 5)}
MCProjects == {Q(TRUE), Q(FALSE)}

Start(s, p, done, limits) ==
  [spec |-> s, profile |-> p, project |-> Q(TRUE), secrets |-> TRUE, done |-> done,
   budget |-> B(limits)]
Pending(s, p, limits) ==
  [Start(s, p, 0, limits) EXCEPT !.project = Q(FALSE), !.secrets = FALSE]

MCStarts ==
  {Start(S(FALSE, 1), P(2, 32, 6), 0, [profiles |-> 1, overlaps |-> 2]),
   Start(S(FALSE, 1), P(2, 32, 6), 0, [edits |-> 1, overlaps |-> 2]),
   Start(S(FALSE, 1), P(2, 32, 6), 0, [rolls |-> 1, overlaps |-> 1]),
   Start(S(FALSE, 1), P(1, 16, 6), 3, [rolls |-> 2, podFails |-> 1]),
   Start(S(FALSE, 1), P(1, 16, 6), 3, [rolls |-> 1, overlaps |-> 2]),
   Start(S(FALSE, 1), P(1, 16, 6), 1, [rolls |-> 2, podFails |-> 1, jobFails |-> 1, crashes |-> 1]),
   Start(S(TRUE, 1), P(2, 32, 6), 0, [edits |-> 2, profiles |-> 1, podLosses |-> 1, failures |-> 1]),
   Pending(S(FALSE, 1), P(2, 32, 6), [projects |-> 2, secrets |-> 2, edits |-> 1, crashes |-> 1])}
=============================================================================
