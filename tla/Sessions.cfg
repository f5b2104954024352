SPECIFICATION SessionSpec
CONSTANTS
  Client = Client
  Pod = Pod
  ok = ok
  bad = bad
  http = http
  deny = deny
  other = other
  ConnectionId <- MCConnectionId
  Endpoints <- MCEndpoints
  NodeAddresses = {}
  DatagramIds = {}
  SeqSpace = 8
  MaxPayload = 2
  StaleTimeout = 2
  Payloads <- MCPayloads
  NoFlow = NoFlow
  Headers = {ok, bad}
  NoHeader = NoHeader
  RuleKeys = {http, deny, other}
  NoEntry = NoEntry
  Definitions <- Nothing
  NoHttp = NoHttp
  ResetMayFail = FALSE
  NoPacket = NoPacket
  Profiles = {{"keepalive", "repolicy"}, {"loss", "repack"}, {"time"}, {"loss", "repack", "reset", "time"}}
  Streams <- MCStreams
  ISNs = {3, 5}
  Window = 2
  Responses = 1
  Connections = 2
  Installed <- MCInstalled
INVARIANTS L7Enforced DuplicateIsSeenInOrder RulesNotBypassed ReuseAfterFinStartsFresh
PROPERTY AckedFlowsKeepEntry
