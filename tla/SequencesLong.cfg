CONSTANTS
  FirstTexts = {}
  LaterTexts = {}
  ForeignInputs = {}
  MaxSections = 1
  CountBase = 256
  FirstRecords <- MCLongRecords
  LaterRecords <- MCLaterRecords
  ForeignSections = {}
  Rooms = {400}
  MaxWritten = 1
SPECIFICATION MCSpec
INVARIANTS
  SequencesArrive
CHECK_DEADLOCK FALSE
