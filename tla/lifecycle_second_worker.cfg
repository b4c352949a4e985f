SPECIFICATION Spec
CONSTANTS
  a1 = a1
  r1 = r1
  r2 = r2
  c1 = c1
  c2 = c2
  desktop = desktop
  cli = cli
  Nobody = Nobody
  Assessment = {a1}
  Run = {r1, r2}
  Caller = {c1}
  Proc = {desktop, cli}
  ProcOf <- SplitProcs
  Gates = 1
  MaxCrashes = 0
INVARIANT OneWorker
CHECK_DEADLOCK FALSE
