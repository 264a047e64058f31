SPECIFICATION Spec
CONSTANTS
  NDaemons = 2
  Jobs = {j1, j2}
  Concurrency = 1
  MaxFaults = 1
  Faulty = {1}
  Tight = {}
INVARIANTS StartsAccounted LostOnlyByDelete 
SYMMETRY JobSymmetry
