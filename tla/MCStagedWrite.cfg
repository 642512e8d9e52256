SPECIFICATION FairSpec
CONSTANTS
  first = first
  second = second
  third = third
  here = here
  there = there
  pidA = pidA
  pidB = pidB
  None = None
  Target = Target
  Seed = Seed
  Writers <- MCTwoWriters
  Processes <- MCProcesses
  processOf <- MCTwoProcessOf
  Pids <- MCOnePid
  MaxCounter = 1
  Routes = {"path", "link"}
  Seeds <- MCSeeds
  Meddling = TRUE
INVARIANT TargetNeverTorn
PROPERTY WritesEnd
CHECK_DEADLOCK FALSE
