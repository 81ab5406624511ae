SPECIFICATION FairSpec
CONSTANTS
  ThreadNumber = 2
  Fibers = {f1, f2, f3}
  Configurations <- Rotating
  Iterations = 0
  Endless = {f1, f2, f3}
  Throwing = {}
  NoCtx = NoCtx
PROPERTIES
  WorksRunConcurrently
