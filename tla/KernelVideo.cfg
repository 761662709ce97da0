SPECIFICATION AllSpec
CONSTANTS
  MAX_PROCESSES = 3
  NUM_TERMINALS = 2
  Args = {}
  NoArgs = NoArgs
  Programs = {"intact", "corrupt"}
  VidmapCallers = {1, 2, 3}
  Directories = {0, 1, 2, 3}
  VIDEO_PAGE = 1
  NumPtes = 4
CONSTRAINT LoadsSucceeded
VIEW StateView
INVARIANTS
  VidmapPageOwn
  UserSpace
  KernelSpace
PROPERTIES
  SwitchSetsPages
  WindowRepaired
