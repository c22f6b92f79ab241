\* ClassifyMappings and CollectAllocations over every layout of three mappings.
CONSTANTS
  Words <- ClassifyWords
  Values <- ClassifyValues
  Layouts <- ClassifyLayouts
  BlockSets <- ClassifyBlocks
  StackTops = {2, 3}
  RegSets = {{}}
  Limits = {3}

SPECIFICATION Spec

\* The child's walk ends once swept.
CHECK_DEADLOCK FALSE

INVARIANT LeaksMatchReachability
