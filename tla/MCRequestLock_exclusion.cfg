SPECIFICATION Spec
CONSTANTS
  r1 = r1 r2 = r2 post = post w1 = w1 w2 = w2
  Requests = {r1, r2}
  Keys = {post}
  KeyOf <- MCKeyOf
  Sorting = {}
  Workers = {w1, w2}
  WorkerOf <- MCWorkerOf
  MaxCrashes = 0
  None = None
  Orphan = Orphan
INVARIANT MutualExclusion
