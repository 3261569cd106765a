CONSTANTS
  Messages <- Interface
  Methods <- Rpcs
  Depth <- MCDepth
  MaxDepth = 9
  Samples <- MCSamples
  Skews <- MCSkews
  IntBits = 6
  MaxSafe = 50
  Second = 10
  Calls = {"c1", "c2"}
  JobOf <- MCJobOf
  ParentOf <- MCParentOf
  Overrides <- MCOverrides
  Streams = {"s1", "s2"}
  NoJob = "nojob"
  PoolSizes = {1, 2}
  StreamWriters = {"w1", "w2", "w3"}
  WriterOn <- MCWriterOn
  SchemaOf <- MCSchemaOf
  Paths = {"p1", "p2"}
  Contents = {"A", "B"}
  Writers = {"w1", "w2", "w3"}
  PathOf <- MCPathOf
  None = "none"
  SaveBound = 2
  Null = Null
  Undefined = Undefined
  Unsafe = Unsafe
SPECIFICATION MCSpec
INVARIANTS FieldsArrive JSONForm RecordsTogether 
INVARIANTS NoDanglingRef 
PROPERTY EnsureSettles
CHECK_DEADLOCK FALSE
