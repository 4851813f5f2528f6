SPECIFICATION FairSpec
CONSTANTS
  Memories = {m1, m2}
  Chunks = {1, 2}
  Titles = {"t"}
  Keywords = {}
  Documents <- MCAllDocuments
  Slots = {s1}
  Backends = {"sqlite-vec"}
  Limit = 2
  None = None
PROPERTY BackfillCatchesUp
