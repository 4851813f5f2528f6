SPECIFICATION Spec
CONSTANTS
  Memories = {m1}
  Chunks = {1, 2}
  Titles = {"t"}
  Keywords = {"k"}
  Documents <- MCTornDocuments
  Slots = {s1, s2}
  Backends = {"sqlite-vec", "sqlite-json"}
  Limit = 2
  None = None
SYMMETRY Symmetry
INVARIANTS TypeOK NoOrphans IndexedMeansStored EmbeddingWasCurrent AccountedFor MirrorAgrees
