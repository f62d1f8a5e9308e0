SPECIFICATION Spec
CONSTANTS
  WordCount = 1
  PerWord = 2
  Timer = 1
  Vsync = 0
  Keyboard = 0
INVARIANTS
  WfiSeesTrigger
