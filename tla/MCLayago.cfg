CONSTANTS
  Space = " "
  Repl = "_"
  Unk = "<unk>"
  Texts <- MCTexts
  Chars <- MCChars
  Bytes <- MCBytes
  Vocab <- MCVocab
  Merges <- MCMerges
  MaxLen = 9
  HeadMaxLen = 6
  OptionCap = 2
  HeadRoom = 2
  OptionMin = 1
  HeadMin = 1
  Questions <- MCItems
  States <- MCStates
  BatchSize = 2
  Inputs <- MCInputs
  Alphabet <- MCAlphabet
  Literals <- MCLiterals
  Docs <- MCDocs
  Depth = 3
  Nil = Nil
  NaN = NaN
  PosInf = PosInf
  NegInf = NegInf
SPECIFICATION CallSpec
INVARIANTS
  NothingLost
  MergesAgree
  StateFillsRoom
  OptionsScoredApart
  PanicsExplained
  ChoiceIsBest
  NamesMatchLogits
  EmptyOnlyUnweighed
  TextsApart
PROPERTIES
  Terminates
