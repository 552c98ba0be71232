CONSTANTS
  Keys = {a}
  Triggers = {t1, t2}
  Workers = {w1}
  Others = {}
  Outside = {}
  MaxChanges = 1
SPECIFICATION FairSpec
CHECK_DEADLOCK FALSE
PROPERTY TriggersAreSynced
