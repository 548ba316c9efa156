SPECIFICATION RequestPathSpec
CONSTANTS
  MaxBytes = 2
  Longest = 6
  Chunks <- MCChunks
  ToolNames <- MCToolNames
  PROFILE_NAMES = {"full", "default"}
  exposure <- MCexposure
  profiles <- MCprofiles
  Deprecated = {"old"}
  PINNED_DISCOVERY_TOOLS = {"math", "edit"}
  index <- MCindex
  NoTool = "no_tool"
  WordRanks <- MCWordRanks
  Edits <- MCEdits
  Commands <- MCCommands
  Configs <- MCConfigs
CHECK_DEADLOCK FALSE
INVARIANTS
  FindingsKeepTheContract
