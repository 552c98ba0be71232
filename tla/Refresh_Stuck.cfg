CONSTANTS
  Repos = {a}
  Calls = {c1}
  Callbacks = {k1}
  Slots = 1
  Edited = {a}
  MaxChanges = 1
SPECIFICATION FairSpec
PROPERTY EventsAreScanned
