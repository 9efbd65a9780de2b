SPECIFICATION Spec
CONSTANTS
  Columns <- NullableTiny
  Kinds = {"WRITE_ROWS_EVENTv1"}
  Formats = {8}
  MaxTables = 1
  MaxRows = 2
INVARIANT
  ImagesReadWhereTheyAre
