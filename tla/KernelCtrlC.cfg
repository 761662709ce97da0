SPECIFICATION Spec
CONSTANTS
  MAX_PROCESSES = 3
  NUM_TERMINALS = 2
  Args = {}
  NoArgs = NoArgs
  Programs = {"intact"}
  VidmapCallers = {}
PROPERTY CtrlCHitsItsProcess
