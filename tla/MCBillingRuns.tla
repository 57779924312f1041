--------------------------- MODULE MCBillingRuns ---------------------------
EXTENDS BillingRuns, TLC

Job(perContract, all, contracts, schedule) ==
  [enabled |-> TRUE, perContract |-> perContract, all |-> all, contracts |-> contracts,
   schedule |-> schedule]

MCJobs == <<1, 2>>
MCOwned == 1 :> <<"k1", "k2">> @@ 2 :> << >>
Zero == [a \in Acts |-> 0]
From(first, second, limits) ==
  [job |-> 1 :> first @@ 2 :> second, budget |-> limits @@ Zero]

\* Month is 2: the first month that can be billed ends at 2, the next at 4.
MCStarts ==
  {From(Job(TRUE, TRUE, << >>, {2}), Job(FALSE, FALSE, <<"k1">>, {3}),
        [ticks |-> 3, failures |-> 1, kills |-> 1]),
   From(Job(TRUE, FALSE, <<"k1", "k3">>, {2, 4}), Job(FALSE, FALSE, <<"k3">>, {2}),
        [ticks |-> 2, failures |-> 2]),
   From(Job(FALSE, TRUE, <<"k1", "k3">>, {2}), Job(FALSE, TRUE, << >>, {2}),
        [ticks |-> 1, manual |-> 1, edits |-> 1]),
   From(Job(TRUE, TRUE, << >>, {3}), Job(FALSE, FALSE, <<"k2">>, {4}),
        [ticks |-> 2, manual |-> 1, kills |-> 1]),
   From(Job(FALSE, TRUE, << >>, {2}), Job(FALSE, FALSE, <<"k2">>, {2}),
        [ticks |-> 1, manual |-> 2])}
Symmetric == Permutations(Endpoints)
=============================================================================
