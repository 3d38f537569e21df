SPECIFICATION Spec
CONSTANTS
  Constants <- MCConstants
  Signals <- MCSignals
  Domains <- MCDomains
  Readable = {"C"}
  Programs <- MCPrograms
  Edits <- MCEdits
  Importing <- MCImporting
  Primary <- MCPrimary
  Libraries = {old, new}
  Followed <- MCFollowed
  Later <- MCLater
  MaxTicks = 2
  MaxOpen = 2
SYMMETRY Replacements
INVARIANTS
  KeyTellsFunctions
CHECK_DEADLOCK FALSE
