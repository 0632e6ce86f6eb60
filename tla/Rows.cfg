\* read(), readRows() and the arms of the boundary benchmark on the same bytes.
SPECIFICATION BoundarySpec
CONSTANTS
  MaxGroups = 1
  TopLimit = 128
  MaxDepth = 3
  Inputs <- Messages
  MinimumColumns = {0, 2}
  Datasets <- Sets
  NoDataset = NoDataset
INVARIANTS CellsAreTrue StreamedIsRead ReadIsStreamed SinksAgree
CHECK_DEADLOCK FALSE
