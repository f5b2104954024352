SPECIFICATION SessionSpec
CONSTANTS
  Client = Client
  Pod = Pod
  ok = ok
  bad = bad
  http = http
  deny = deny
  other = other
  ConnectionId <- MCConnectionId
  Endpoints <- MCEndpoints
  NodeAddresses = {}
  DatagramIds = {}
  SeqSpace = 8
  MaxPayload = 1
  StaleTimeout = 1
  Payloads <- MCPayloads
  NoFlow = NoFlow
  Headers = {ok, bad}
  NoHeader = NoHeader
  RuleKeys = {http, deny, other}
  NoEntry = NoEntry
  Definitions <- HttpOnly
  NoHttp = NoHttp
  ResetMayFail = FALSE
  NoPacket = NoPacket
  Profiles = {{"repolicy"}}
  Streams <- ShortStreams
  ISNs = {0}
  Window = 1
  Responses = 0
  Connections = 1
  Installed <- Nothing
PROPERTY LateBindingApplies
