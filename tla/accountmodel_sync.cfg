SPECIFICATION Spec
CONSTANTS
  Ids = {i1, i2}
  NoId = NoId
  Details = {full, other}
  Complete = {full}
  Objects = {o1, o2, o3}
SYMMETRY Symmetry
CONSTRAINT CalmAfterwards
INVARIANTS TypeOK UniqueIds Synchronised RowsExist
PROPERTIES KeptAccountsStay EditsSurvive DeletedStaysOut
CHECK_DEADLOCK FALSE
