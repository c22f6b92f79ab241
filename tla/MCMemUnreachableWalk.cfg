\* The heap walk over every memory image of a fixed layout.
CONSTANTS
  Words <- WalkWords
  Values <- WalkValues
  Layouts <- WalkLayouts
  BlockSets <- WalkBlocks
  StackTops = {7, 8}
  RegSets = {{}, {6}}
  Limits = {1, 2}

SPECIFICATION Spec

\* The child's walk ends once swept.
CHECK_DEADLOCK FALSE

INVARIANT TypeOK
INVARIANT LeaksMatchReachability
