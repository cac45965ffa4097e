CONSTANTS
  Paths = {"/", "/b", "b", "/a/b", "c"}
  NameOf <- MCNameOf
  Datas = {1, 2}
  Copies = {1, 2, 3, 4}
  Pairs <- MCPairs
  Names = {"a", "A", "b"}
  NewPairs <- MCNewPairs
  Lower <- MCLower
  Hash <- MCHash
  HASH_INITIAL_NUM_BUCKETS = 2
  HASH_BKT_CAPACITY_THRESH = 1
  MaxBuckets = 8
  Texts <- MCTexts
  Initial = 3
  MaxText = 8
  MaxPath = 3
  MaxName = 2
  Patterns <- MCPatterns
  MaxRoutes = 3
  Threads = {t1, t2}
  ReqPaths = {"a", "ab"}
  MatchedBy <- MCMatchedBy
  MaxWork = 4
  Subject <- MCSubject
  Groups = 3
  NameTable <- MCNameTable
  UIntMax = 2
  MaxSource = 5
  MaxSends = 2
  Daemons = {1, 2}
  Conns = {c1, c2}
SPECIFICATION Spec
SYMMETRY MCSymmetry
INVARIANTS NamesOwned TableIntact TextsKept
INVARIANTS Dispatched RoutesKept CompressedWhole BlocksKept
INVARIANTS ResourcesOwned EncodingNamed
INVARIANTS DaemonStopped RefusedNotServed
PROPERTIES ImplementsMap ImplementsPairs SetIsFound
CHECK_DEADLOCK FALSE
