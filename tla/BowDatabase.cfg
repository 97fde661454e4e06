\* Two clients, the buckets of the service; the lease ends within a run, ids
\* run out, writes fail and the process stops anywhere.
CONSTANTS
  Rawdata = Rawdata
  Metadata = Metadata
  c1 = c1
  c2 = c2
  None = None
  Clients = {c1, c2}
  Names = {Rawdata, Metadata}
  Keys <- MCKeys
  Values <- MCValues
  Batches <- MCBatches
  Chunk = 2
  Lease = 2
  MaxId = 2
  MaxLeased = 3
SPECIFICATION Spec
INVARIANTS TypeOK OneIdPerBucket RangesAreExact
PROPERTY ImplementsStore
SYMMETRY Symmetry
