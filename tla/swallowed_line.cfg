SPECIFICATION PageSpec
CONSTANTS
  a = a
  b = b
  nowhere = nowhere
  scrap = scrap
  Names = {a}
  Spaced = {}
  Nowhere = nowhere
  Scrap = scrap
  Beginnings = {"plain", "dashes", "pluses"}
  TypeChange = FALSE
  MaxFiles = 1
  MaxHunks = 1
  MaxLines = 3
  MaxGap = 1
  MaxNotes = 1
INVARIANTS NotesFindTheirLine
CHECK_DEADLOCK FALSE
