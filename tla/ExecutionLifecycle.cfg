\* Two tasks compete for one slot; each makes up to two calls, of either phase, and
\* resp.filters names wasm_body up to twice.
SPECIFICATION Spec
CONSTANTS
  r1 = r1  r2 = r2  s1 = s1
  Tasks <- TwoTasks
  Slots <- OneSlot
  MaxCalls = 2
  MaxFilters = 2
INVARIANTS
  NoSharedStore DisposedOnce RunsInOwnStore StatsConsistent
CHECK_DEADLOCK FALSE
