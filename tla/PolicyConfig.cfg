SPECIFICATION ConfigSpec
CONSTANTS
  web = web
  dns = dns
  EmptyName = EmptyName
  Bare = Bare
  NoHttp = NoHttp
  AddrBits = 2
  OctetBits = 1
  IntMax = 7
  PortSpace = 4
  Mantissa = 2
  PodBits = 3
  RuleNames = {web, dns, EmptyName}
  EngineRules <- MCEngineRules
  EnginePorts = {}
  Packets <- MCPackets
  Requests <- MCRequests
  HttpHeaders <- MCHeaders
  NodeRequests = {{1, 9}}
INVARIANTS TreeMatchesChain LookupIsStrongest NamedPodsReset
PROPERTY ImplementsLookup
