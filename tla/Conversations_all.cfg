SPECIFICATION PartsSpec
CONSTANTS
  one = one
  two = two
  peer1 = peer1
  other = other
  None = None
  Nothing = Nothing
  NoCall = NoCall
  NoFetch = NoFetch
  Attachments <- MCAttachments
  Trusted <- Pair
  MaxConcurrent = 2
  MaxClients = 2
  MaxLoads = 3
  MaxDecisions = 1
  Names <- MCNames
  Peer = peer1
  Requester = other
  Slots <- Pair
  MaxCalls = 2
  MaxGroupFaults = 1
  Calls <- Pair
  Attempts = 2
  MaxShareClients = 2
  MaxStarts = 3
  MaxFaults = 1
  Fetches <- MCAttachments
  MaxLookClients = 2
  Senders <- MCSenders
  me = peer1
  MaxEvents = 3
  MaxOpens = 2
  MaxSyncs = 1
  Replays <- Pair
  Absent = Absent
SYMMETRY MCSymmetry
CHECK_DEADLOCK FALSE
INVARIANTS
  PartsTypeOK
  NameClaimsAreTrue
  InviteTagsHold
  ContactsAreKept
  SlotsAreCounted
  SingleFlights
  SentFlagsAreTrue
  ReactionsSettle
PROPERTIES
  HostsAreAuthorized
