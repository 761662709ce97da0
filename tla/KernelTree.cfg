SPECIFICATION FairSpec
CONSTANTS
  MAX_PROCESSES = 4
  NUM_TERMINALS = 3
  Args = {a}
  NoArgs = NoArgs
  Programs = {"intact"}
  VidmapCallers = {4}
VIEW LiveSlotsView
INVARIANTS
  TypeOK
  ProcessTree
  CpuOwner
  SavedContexts
  ActiveRecords
  KernelPageOwn
  EveryProcessStacked
PROPERTIES
  ImplementsTaskStacks
  ArgsUntilChildEnds
  EveryTerminalRuns
  CtrlCActedUpon
