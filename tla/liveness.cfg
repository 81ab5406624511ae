SPECIFICATION FairSpec
CONSTANTS
  ThreadNumber = 2
  Fibers = {f1, f2}
  Configurations <- Benchmark
  Iterations = 1
  Endless = {}
  Throwing = {}
  NoCtx = NoCtx
PROPERTIES
  ImplementsWorkPool
  JoinCompletes
  ThreadsEnd
