SPECIFICATION MCSpec
CONSTANTS
  client = client
  resolver = resolver
  Pod = Pod
  bad = bad
  http = http
  deny = deny
  ConnectionId <- MCConnectionId
  Endpoints <- MCEndpoints
  NodeAddresses = {resolver}
  DatagramIds <- Datagrams
  SeqSpace = 2
  MaxPayload = 1
  StaleTimeout = 1
  Payloads <- MCPayloads
  NoFlow = NoFlow
  Headers = {bad}
  NoHeader = NoHeader
  RuleKeys = {http, deny}
  NoEntry = NoEntry
  Definitions <- MCDefinitions
  NoHttp = NoHttp
  ResetMayFail = TRUE
  NoPacket = NoPacket
PROPERTIES EntryFollowsFlow AllowIsEarned IdleStateReaped
