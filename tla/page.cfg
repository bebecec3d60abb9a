SPECIFICATION PageSpec
CONSTANTS
  a = a
  b = b
  nowhere = nowhere
  scrap = scrap
  Names = {a, b}
  Spaced = {}
  Nowhere = nowhere
  Scrap = scrap
  Beginnings = {"plain"}
  TypeChange = FALSE
  MaxFiles = 2
  MaxHunks = 2
  MaxLines = 3
  MaxGap = 1
  MaxNotes = 1
INVARIANTS ReadsWhatGitShows NotesFindTheirLine OneRowPerThread MarksAreTheOpenNotes
SYMMETRY Symmetric
CHECK_DEADLOCK FALSE
