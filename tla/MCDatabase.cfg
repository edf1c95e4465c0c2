SPECIFICATION Spec
CONSTANTS
  Requests = {s1,s2}
  Readers = {r1}
  MaxGeneration = 2
  Builds = {1,2}
  Slots = {1,2,3,4}
  MaxFaults = 1
INVARIANTS
  WriterIsAlone
  PointersResolve
  ReaderKeepsFile
PROPERTIES
  NoDowngrade
  Converges
  GarbageLeaves
