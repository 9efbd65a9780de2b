SPECIFICATION Spec
CONSTANTS
  Columns <- KnownTypes
  Kinds = {"WRITE_ROWS_EVENTv1", "UPDATE_ROWS_EVENTv1"}
  Formats = {8}
  MaxTables = 1
  MaxRows = 1
INVARIANT
  NewValuesAreNested
