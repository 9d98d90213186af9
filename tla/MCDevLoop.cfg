\* Every process there is, a signal and no edits: what is left at the end.
CONSTANTS
  Commands = {{"no-db"}}
  MaxSaves = 0
  Broken = {}
  MaxProbes = 3
SPECIFICATION DFairSpec
CHECK_DEADLOCK FALSE
INVARIANT NothingLeft
