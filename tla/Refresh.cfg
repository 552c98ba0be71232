CONSTANTS
  Repos = {a, b}
  Calls = {c1}
  Callbacks = {k1}
  Slots = 1
  Edited = {a}
  MaxChanges = 1
SPECIFICATION FairSpec
INVARIANTS TypeOK AnswerNotOlderThanQuestion NoChangeForgotten
PROPERTIES PublishedMirrorsTrees RequestsEnd ChangesAreScanned
