SPECIFICATION Spec
CONSTANTS
  first = first
  second = second
  third = third
  here = here
  there = there
  pidA = pidA
  pidB = pidB
  None = None
  Target = Target
  Seed = Seed
  Writers <- MCTwoWriters
  Processes <- MCProcesses
  processOf <- MCTwoProcessOf
  Pids <- MCPids
  MaxCounter = 1
  Routes = {"path", "link"}
  Seeds <- MCAbsent
  Meddling = FALSE
PROPERTY ExistingReplacedWhole
CHECK_DEADLOCK FALSE
