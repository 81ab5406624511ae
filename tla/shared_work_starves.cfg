SPECIFICATION FairSpec
CONSTANTS
  ThreadNumber = 1
  Fibers = {f1, f2, f3}
  Configurations <- SharedWork
  Iterations = 0
  Endless = {f1, f2, f3}
  Throwing = {}
  NoCtx = NoCtx
PROPERTIES
  WorksRunConcurrently
