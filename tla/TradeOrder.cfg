SPECIFICATION Spec
CONSTANTS
  o1 = o1
  o2 = o2
  Orders = {o1, o2}
  RejectLimit = 2
  Keyed <- KeyedHere
  Budgets <- BudgetsHere
  NoHook = NoHook
INVARIANTS KeptTracked
PROPERTIES TrackedDrain OrderAdvances
CHECK_DEADLOCK FALSE
