SPECIFICATION Spec
CONSTANTS
  c1 = c1
  c2 = c2
  c3 = c3
  c4 = c4
  app = app
  chat = chat
  Callers = {c1, c2, c3, c4}
  Loops = {app, chat}
  LoopOf <- TwoLoops
  AppLoop = app
  NoLoop = NoLoop
  MaxInflight = 2
  Retries = 2
INVARIANT SlotsConserved
