SPECIFICATION EngineSpec
CONSTANTS
  client = client
  pod = pod
  ConnectionId <- MCConnectionId
  SeqSpace = 5
  MaxPayload = 2
  StaleTimeout = 2
  Payloads = {"bytes"}
  NoFlow = NoFlow
PROPERTIES SeqNeverRegresses HalvesPartOnlyWhenStale
