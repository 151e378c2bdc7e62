CONSTANTS
  Entities <- Named
  RelationTypes <- Relationships
  EntityTypes <- Types
  TypeName <- Words
  Builders = {"x", "y", "z"}
  BlobsOf <- FilesOf
  Contents <- BytesOf
  Serial = {"z"}
  Window = 2
  Kept = {"none", "legacy", "obsolete"}
  Inodes = {1, 2, 3}
  MaxCrashes = 1
  MaxFailures = 1
  Workers = {"w1", "w2"}
  Catalogue <- TwoChunks
  Deferred <- OneLater
  Input <- Hashes
  Batch = 1
  MaxGen = 1
  Possible <- Commit
  MaxListed = 2
  NamesSet = TRUE
  Detects <- Pack
  Tokens = {"/", ".git", "::", "(", ")", "o", "r", "a"}
  Urls <- UrlUniverse
  Loopback = {"localhost"}
  Lower <- LowerCase
  RelPaths <- PathTokens
  Parents <- ParentTokens
  Signatures <- SignatureTokens
  Configs <- Setups
  Declarations <- Handlers
  MaxDeclarations = 2
  Calls <- Asked
  MaxCalls = 2
  HintSets <- Manifests
  Templates = {"{id}", "{param}"}
  WordIn <- Holding
SPECIFICATION DraftSpec
INVARIANTS
  Distinct
  FilesAgree
  ExtractedWhole
  TargetsNamed
  OneServer
  OwnProducts
  OneRepository
CHECK_DEADLOCK FALSE
