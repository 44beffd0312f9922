CONSTANTS
  FirstTexts <- MCFirstTexts
  LaterTexts <- MCLaterTexts
  ForeignInputs <- MCForeignInputs
  MaxSections = 2
  CountBase = 8
  FirstRecords <- MCFirstRecords
  LaterRecords <- MCLaterRecords
  ForeignSections <- MCForeignSections
  Rooms = {5, 400}
  MaxWritten = 2
SPECIFICATION MCSpec
INVARIANTS
  SectionsArrive
  LengthsAreOptimal
  ReadTablesAreSound
  SequencesArrive
CHECK_DEADLOCK FALSE
