SPECIFICATION FairSpec
CONSTANTS
  StopOrder <- MCThreeKinds
  MaxClients = 2
  MaxStreams = 2
  MaxFaults = 1
  ReadsFail = TRUE
  Installations = {"x"}
  InstallationOf <- MCOneInstallation
  None = None
CHECK_DEADLOCK FALSE
INVARIANTS
  TypeOK
  LoopsAreOwned
PROPERTIES
  HistoryRequestsPaced
  StreamsComeBack
  GapsAreClosed
