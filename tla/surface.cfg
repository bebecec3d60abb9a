SPECIFICATION SurfaceSpec
CONSTANTS
  r1 = r1
  r2 = r2
  refs = refs
  notes = notes
  Readers = {r1, r2}
  Parts = {refs, notes}
  ReadOrder <- RefsThenNotes
  MaxWrites = 1
  MaxFailures = 1
INVARIANTS MarksAreHonest ParkedPagesAreCurrent
PROPERTIES PagesOnlyMoveForward PagesCatchUp StreamsEnd
CHECK_DEADLOCK FALSE
