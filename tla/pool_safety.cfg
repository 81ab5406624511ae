SPECIFICATION Spec
CONSTANTS
  ThreadNumber = 2
  Fibers = {f1, f2, f3}
  Configurations <- Benchmark
  Iterations = 1
  Endless = {}
  Throwing = {f3}
  NoCtx = NoCtx
SYMMETRY Symmetry
INVARIANTS
  TypeOK
  OneHolder
  PinnedAtHome
  NeverResumesNull
  SchedulersPublished
  NoLostWakeup
  FinishAfterWork
  JoinAfterWork
  PoolInv
  NoDeadlock
PROPERTIES
  SafePool
