CONSTANTS
  Uploads = {u1, u2, u3}
  Deletes = {d1, d2}
  Contents = {text, blank}
  Blank = blank
  NoContent = NoContent
SPECIFICATION Spec
SYMMETRY Symmetry
INVARIANTS
  RowsAreSearchable
  OrphansExplained
  AnswersTrue
CHECK_DEADLOCK FALSE
