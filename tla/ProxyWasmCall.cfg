\* Every call of a function, of one module or of a chain of up to two, in both phases and fail modes,
\* with no limit on callouts and with a limit of two, and up to three callouts of each module; a call
\* ends, so deadlock is not an error.
SPECIFICATION FairSpec
CONSTANTS
  MaxModules = 2
  Limits <- NoneOrTwo
  MaxAttempts = 3
  Statuses <- SomeStatuses
INVARIANTS
  DeliveredInOrder SkippedOnlyAtTheEnd 
PROPERTIES CallReturns
CHECK_DEADLOCK FALSE
