SPECIFICATION Spec
CONSTANTS
  Columns <- WideAndNarrow
  Kinds = {"WRITE_ROWS_EVENTv1"}
  Formats = {8}
  MaxTables = 2
  MaxRows = 1
INVARIANT
  RowsReadWithTheirMap
