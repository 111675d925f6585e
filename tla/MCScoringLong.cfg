CONSTANTS
  MaxLen = 9
  HeadMaxLen = 6
  OptionCap = 2
  HeadRoom = 2
  OptionMin = 1
  HeadMin = 1
  Questions <- MCItems
  States <- MCStates
  BatchSize = 2
SPECIFICATION ScoreSpec
INVARIANTS
  EveryOptionScored
