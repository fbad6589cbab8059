SPECIFICATION ReleaseSpec
CONSTANTS
  d1 = d1
  d2 = d2
  Domains = {d1, d2}
  Baselines = {1}
  Texts = {1}
  MaxEdits = 0
  MaxRunning = 1
  Resigns = FALSE
INVARIANT CheckedIsBuilt
