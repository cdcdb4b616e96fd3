SPECIFICATION Spec
CONSTANTS
  i1 = i1
  i2 = i2
  eng = eng
  t1 = t1
  t2 = t2
  t3 = t3
  Ids = {i1, i2, eng}
  NoId = NoId
  Keep = Keep
  Reserved = {eng}
  Capacity = 2
  Knobs = {0, 1}
  DefaultKnob = 0
  Threads = {t1, t2}
  NoThread = NoThread
  Kinds = {"post", "delete", "put"}
  MayCrash = FALSE
PROPERTY UpdatesAtomic
