CONSTANTS
  maxSlots = 1
  Jobs = {"j1", "j2"}
  Pathless = {"j2"}
  MaxHandlers = 2
  Lists <- MCLists
  Budgets <- MCBudgets
SPECIFICATION Spec
INVARIANTS
  TypeOK
  RefreshKept
  ShowsFetched
  ActsOnClicked
  DisabledIsBusy
PROPERTY Settles
