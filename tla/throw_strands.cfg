SPECIFICATION FairSpec
CONSTANTS
  ThreadNumber = 2
  Fibers = {f1}
  Configurations <- Benchmark
  Iterations = 0
  Endless = {}
  Throwing = {f1}
  NoCtx = NoCtx
PROPERTIES
  AllFinish
