SPECIFICATION Spec
CONSTANTS
  NUM_PAGES = 3
  PAGE_INITIAL_SIZE = 1
  COMPACT_INTERVAL = 2
  GenerationModulus = 4
  Values = {v1, v2}
  NoValue = NoValue
  Lists = {l1, l2}
  Nodes = {n1, n2, n3, n4}
  Null = Null
  Tasks = {1, 2}
  Scenes <- MCScenes
  Paths <- MCPaths
  Inodes = {1, 2, 3}
  Default = 2
  MaxFaults = 1
  Missing = Missing
INVARIANTS FreeListSound ListIsSequence TreeMade FilesRight
PROPERTY SlabIsMap
SYMMETRY Alike
CHECK_DEADLOCK FALSE
