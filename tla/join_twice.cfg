SPECIFICATION Spec
CONSTANTS
  ThreadNumber = 2
  Fibers = {f1, f2}
  Configurations <- Benchmark
  Iterations = 1
  Endless = {}
  Throwing = {f1}
  NoCtx = NoCtx
INVARIANTS
  JoinsOnce
