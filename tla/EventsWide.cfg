SPECIFICATION FairSpec
CONSTANTS
  Columns <- NoBitmap
  Kinds = {"WRITE_ROWS_EVENTv1"}
  Formats = {8}
  MaxTables = 1
  MaxRows = 1
PROPERTY
  RowsOfAnyTableEnd
