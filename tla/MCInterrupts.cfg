SPECIFICATION Spec
CONSTANTS
  WordCount = 2
  PerWord = 2
  Timer = 1
  Vsync = 0
  Keyboard = 0
INVARIANTS
  PrivateExact
  AnswerJustified
PROPERTIES
  PrivateIsPendingSet
