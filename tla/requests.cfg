SPECIFICATION SharedSpec
CONSTANTS
  Clients = {c1}
  Limit = 2
  Window = 5
  Second = 2
  MaxTime = 7
  Questions <- Two
  Symbols <- Both
  Readers = {"reader"}
  Loggers = {"app", "request"}
  Levels = {10, 20}
  Capacity = 3
  MaxLogged = 4
  Kinds <- AllKinds
  Replies <- AnyReply
  MaxClaims = 2
  MaxRounds = 2
  Posts = {"r1", "r2", "r3"}
  Slots = 2
  Loaded <- ChunkLists
  Others <- Neighbours
  Needs <- RequiredSymbols
  Headers = {0, 3}
  NoteSize = 6
  IdSize = 2
  SourceCap = 7
  EvidenceCap = 15
  Context = 7
  Output = 1
  Margin = 1
  Strategies = {"tiktoken", "qwen", "bytes"}
  Fails = TRUE
  q1 = q1
  q2 = q2
  s1 = s1
  s2 = s2
SYMMETRY Alike
INVARIANTS
  WindowBound
  RetryAfterHolds
  NewestInOrder
  BodiesAreThere
  ClaimsAreHonest
  SlotsAreBack
PROPERTY
  PacketFits
CHECK_DEADLOCK FALSE
