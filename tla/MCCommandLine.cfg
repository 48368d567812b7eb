SPECIFICATION VerbSpec
CONSTANTS
  CommandLines <- MCCommandLines
  Verbs <- VerbNames
  NumberOf <- MCNumberOf
  U32 = 8
  Floats <- MCFloats
  NonNegatives <- MCNonNegatives
  Positives <- MCPositives
  Wholes <- MCWholes
  U64s <- MCU64s
  Ids <- MCIds
  Listed <- MCListed
  Colors <- MCColors
  JsonTexts <- MCJsonTexts
  Files <- MCFiles
  SplitAt <- MCSplitAt
  Boxes <- MCBoxes
  ToolCalls <- MCToolCalls
INVARIANTS
  VerbTypeOK
  NoWordIsDropped
  CalledBySchema
  CalledWithWhatItUnderstands
PROPERTY
  OptionsAreUsed
CHECK_DEADLOCK FALSE
