SPECIFICATION WorkerSpec
CONSTANTS
  Pods = {1, 2}
  Controllers <- MCControllers
  Workers <- MCWorkers
  Budgets <- MCBudgets
INVARIANT OneOfEach PublishedIsComplete
PROPERTY Converges
CHECK_DEADLOCK FALSE
