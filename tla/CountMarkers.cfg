\* The documented treatment of legacy count markers.
SPECIFICATION BoundarySpec
CONSTANTS
  MaxGroups = 1
  TopLimit = 128
  MaxDepth = 3
  Inputs <- Messages
  MinimumColumns = {0, 2}
  Datasets <- Sets
  NoDataset = NoDataset
INVARIANT CountMarkersIgnored
CHECK_DEADLOCK FALSE
