SPECIFICATION Spec
CONSTANTS
  r1 = r1 r2 = r2
  Requests = {r1}
  Kinds = {"hint"}
  None = None
  MaxUpdates = 3
INVARIANT HintsNeverOver
