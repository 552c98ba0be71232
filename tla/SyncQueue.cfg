CONSTANTS
  Keys = {a, b}
  Triggers = {t1, t2}
  Workers = {w1, w2}
  Others = {o1}
  Outside = {a}
  MaxChanges = 2
SPECIFICATION FairSpec
CHECK_DEADLOCK FALSE
INVARIANTS TypeOK NoKeyStuck
PROPERTIES QueueStoresInOrder QueuedTriggersAreSynced
