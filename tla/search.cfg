SPECIFICATION SearchSpec
CONSTANTS
  Files <- FileUniverse
  MaxFiles = 2
  FrameworkSets <- Detected
  Level <- Levels
  Prose <- NotCode
  Words <- WordUniverse
  MaxWords = 2
  Cue <- Cues
  Chunks <- Points
  LaneLimit = 2
  RawLimit = 4
  Batch = 2
  Role <- Roles
  Pool <- Lines
  WalkLimit = 2
  EdgeLimit = 3
  MaxHops = 3
  Inputs <- Starts
  Pieces <- PieceUniverse
  PieceFile <- PieceFiles
  PieceSymbol <- PieceSymbols
  PieceKind <- PieceKinds
  PieceOrdinal <- PieceOrdinals
  PieceSize <- PieceSizes
  ByName <- Named
  ByText <- Texts
  Neighbors <- Beside
  ByPath <- Paths
  HitLimit = 3
  Unit = 238266
  IdsInOrder <- Ids
  v1 = v1
  v2 = v2
  v3 = v3
  v4 = v4
SYMMETRY Alike
INVARIANTS
  PlanIsMeasured
  NearestFirst
  WalkIsBounded
  LanesAgree
  ChoiceIsWhole
PROPERTY
  FollowsTruly
CHECK_DEADLOCK FALSE
