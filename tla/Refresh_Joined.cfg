CONSTANTS
  Repos = {a}
  Calls = {c1, c2}
  Callbacks = {k1}
  Slots = 1
  Edited = {a}
  MaxChanges = 1
INIT Init
NEXT Next
PROPERTY JoinedByNextScan
