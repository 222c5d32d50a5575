\* The run cache_evicts_rear; see MCResponseCache for the bounds.
CONSTANTS
  t1 = t1
  t2 = t2
  m1 = m1
  m2 = m2
  m3 = m3
  m4 = m4
  Threads <- MCThreads
  Keys <- MCKeys
  Bucket <- MCBucket
  Longer <- MCLonger
  NoKey = NoKey
  Lens <- MCLens
  Metas <- MCMetas
  NoMeta = NoMeta
  MaxCache = 2
  MaxObject = 2
SPECIFICATION SafeSpec
PROPERTY
  EvictsFromRear
