CONSTANTS
  Space = " "
  Repl = "_"
  Unk = "<unk>"
  Texts <- MCTexts
  Chars <- MCChars
  Bytes <- MCBytes
  Vocab <- MCVocab
  Merges <- MCMerges
SPECIFICATION EncodeSpec
INVARIANT
  MirrorsHF
