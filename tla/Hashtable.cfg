\* Buckets of one entry and load factor 2 instead of eight and 13/2.
SPECIFICATION ViewSpec
CONSTANTS
  ka = ka
  kalt = kalt
  kb = kb
  kzero = kzero
  klist = klist
  vx = vx
  vy = vy
  None = None
  Key = {ka, kalt, kb, kzero, klist}
  Value = {vx, vy}
  Iter = {i1, i2}
  BucketSize = 1
  LoadNum = 2
  LoadDen = 1
  HashOf <- MCHashOf
  Rep <- MCRep
  Deep <- MCDeep
  Args <- MCArgs
  Batches <- MCBatches
SYMMETRY Interchangeable
INVARIANTS IInv Threaded IteratorSeesSnapshot FreezeIsDeep ItercountIsActive
PROPERTIES FrozenNeverWritten ImplementsOrderedDict
