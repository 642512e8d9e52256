SPECIFICATION Spec
CONSTANTS
  first = first
  second = second
  third = third
  here = here
  there = there
  pidA = pidA
  pidB = pidB
  None = None
  Target = Target
  Seed = Seed
  Writers <- MCWriters
  Processes <- MCProcesses
  processOf <- MCProcessOf
  Pids <- MCPids
  MaxCounter = 2
  Routes = {"path"}
  Seeds <- MCRegular
  Meddling = FALSE
INVARIANTS StagingExclusive NoLitter
PROPERTY ReplacesAtomically
CHECK_DEADLOCK FALSE
