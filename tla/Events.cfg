SPECIFICATION FairSpec
CONSTANTS
  Columns <- AllTables
  Kinds = {"WRITE_ROWS_EVENTv1", "UPDATE_ROWS_EVENTv1", "DELETE_ROWS_EVENTv1", "WRITE_ROWS_EVENTv2", "UPDATE_ROWS_EVENTv2"}
  Formats = {6, 8}
  MaxTables = 1
  MaxRows = 2
INVARIANTS
  TypeOK
  RowsReadWithTheirMap
  KnownImagesReadWhereTheyAre
  ReadsPastTheEnd
  CrashHasACause
  UpdateInPhaseIsNested
PROPERTIES
  UpdateRestoresPhase
  RowsEnd
