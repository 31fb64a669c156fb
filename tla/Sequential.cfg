SPECIFICATION SeqSpec
CONSTANTS
  LONG = 64
  UINT = 16
  MSECS = 2
  TIMEOUT = 3
  BOOT = 56
  MaxTime = 30
  Counters <- TwoValues
  MaxLen = 3
  PAGES = 3
  WIDTH = 2
  Repeats <- OneOrTwo
  MaxAllocs = 2
  MaxPasses = 2
  Letters <- TwoLetters
  Digits <- OneDigit
  Strange <- OneStrange
  MaxText = 4
  n1 = n1
  n2 = n2
  Names <- TwoNames
  MaxDepth = 6
SYMMETRY Renaming
INVARIANTS Selected HottestPages UsedKept MovedApart FewForgotten WordsFound JudgesPrograms
PROPERTIES IdleIsIdle
CHECK_DEADLOCK FALSE
