\* Four programs; and three threads, any of which may load or init at any time.
SPECIFICATION PartsSpec
CONSTANTS
  Dictionary <- MCDictionary
  Literal <- MCLiteral
  Word = 3
  Leftovers = {0, 3}
  Containing <- MCContaining
  Indexed <- MCIndexed
  Requests <- MCRequests
  Programs <- MCPrograms
  HostWrites <- MCHostWrites
  HostRequests <- MCHostRequests
  Threads = {t1, t2, t3}
  Writes = 2
INVARIANTS
  CallsMatchTheirMeaning
  InitRestoresDeclared
  InitSeesLoad
PROPERTIES
  InstancesApart
  HostTouchesOneField
  RequestsReachTheirMachine
  EveryCallReturns
  ImplementsOnce
