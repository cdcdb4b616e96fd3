SPECIFICATION FairSpec
CONSTANTS
  c1 = c1
  c2 = c2
  qwen = qwen
  qwenSmall = qwenSmall
  deepseek = deepseek
  Calls = {c1, c2}
  Probing = {c1}
  Pinner = Pinner
  Unpinner = Unpinner
  NoThread = NoThread
  Models = {qwen, qwenSmall, deepseek}
  Family <- MCFamily
  TagOf <- MCTagOf
  StartTags <- MCStart
  EngineTags <- MCEngine
  Required = {qwen}
  Retries = 2
INVARIANTS ChatsWarmed ErrorsEarned
PROPERTY AllAnswered
CHECK_DEADLOCK FALSE
