\* Two threads and two contexts of one program, two buffers that are deleted and generated again;
\* two windows that share buffers, two posts, a kill or a failed write.
SPECIFICATION Spec
CONSTANTS
  Threads = {t1, t2}
  Contexts = {c1, c2}
  Buffers = {b1, b2}
  MaxLosses = 1
  Windows = {w1, w2}
  Pieces = 2
  MaxBuffers = 2
  MaxPosts = 2
  MaxOwn = 1
  MaxFaults = 1
SYMMETRY Interchangeable
\* A program may end, and every bound may be reached.
CHECK_DEADLOCK FALSE
INVARIANTS
  BeliefsAgree
  MeaningKept
  ShownWasPosted
  SavedIsShown
