SPECIFICATION ConversionSpec
CONSTANTS
  Blocks = 3
  Letters <- MCLetters
  Longs <- MCLongs
  Parts <- MCPartNames
  Drawings <- MCDrawings
  Polylines <- MCPolylines
  Asks <- MCAsks
  Half = 2
  Leads <- MCLeads
  Codes <- MCCodes
  Labels <- MCLabels
  MaxLength = 3
  Reads = 2
  Dwgs <- MCDwgs
  Asked <- MCAsked
  Drawn <- MCDrawn
  Rounds = 8
  Entities <- MCEntities
  Layers <- MCLayers
  Palette <- MCPalette
  Multileaders <- MCMultileaders
  Tables <- MCTables
  MaxCells = 4
  ExtendedData <- MCExtendedData
INVARIANTS
  PartTypeOK
  BlocksAreFound
  WireframesAreDrawn
  FieldsAreReadWhole
  StringsAreTakenAsHanded
  HeaderIsWhatWasDecoded
  StyledAsStatedFromR13
  LayerIsAsSet
  LinesHangUnderTheirLeader
  GridIsWholeOrWarned
  OverridesAreTheList
PROPERTIES
  ReplacedIsReported
  EachRoundHalvesTheMiss
CHECK_DEADLOCK FALSE
