SPECIFICATION Spec
CONSTANTS
  k1 = k1
  k2 = k2
  v1 = v1
  v2 = v2
  Key = {k1, k2}
  Val = {v1, v2}
  NULL = NULL
  TOMBSTONE = TOMBSTONE
  Hash <- HashOf
  INIT_SIZE = 4
  HIGH_WATERMARK = 70
  LOW_WATERMARK = 50
INVARIANT RehashFits
PROPERTIES CallsReturn IsAMap
