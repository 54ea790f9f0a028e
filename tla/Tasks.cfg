SPECIFICATION Spec
CONSTANTS
  t1 = t1
  t2 = t2
  t3 = t3
  t4 = t4
  main = main
  Garbage = Garbage
  MaxTasks = 3
  Tasks <- MCTasks
  KernelMain <- main
  Callers <- MCCallers
INVARIANTS TypeOK ResumesWhereInterrupted AstrayOnlyIfRaced
PROPERTIES EveryTaskRuns ImplementsRoundRobin
