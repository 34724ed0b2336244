SPECIFICATION NetworkSpec
CONSTANTS
  h1 = h1
  h2 = h2
  h3 = h3
  m1 = m1
  m2 = m2
  us = us
  all = all
  NET_MTU = 90
  ArpCacheSize = 2
  EthHdr = 14
  ArpPkt = 28
  IpHdr = 20
  IcmpHdr = 8
  UdpHdr = 8
  TcpHdr = 20
  EchoData = 32
  Hosts <- MCHosts
  OurIp = us
  Macs <- MCMacs
  Broadcast = all
  EchoLens <- MCEchoLens
  SegmentLens <- MCSegmentLens
  HeapLeft = 270
  MAX_SOCKETS = 2
  AppPorts <- MCAppPorts
  DataLens <- MCDataLens
  MaxFd = 4
  HTTP_PORT = 80
  DNS_PORT = 53
  DHCP_SERVER_PORT = 67
  IntBits = 20
  Ints <- MCInts
  Addresses <- MCAddresses
  Urls <- MCUrls
  HostMax = 2
  Byte = 3
  Blocks <- MCBlocks
  DNS_MAX_QNAME = 4
  Questions <- MCQuestions
  DhcpOptions = 64
  Networks <- MCNetworks
  MinResponse = 4
  Responses <- MCResponses
  Chars <- MCChars
  Directories <- MCDirectories
  Registries <- MCRegistries
  Queries <- MCQueries
  MaxMatches = 4
INVARIANTS
  NetTypeOK
  ArpCacheCurrent
  PacketsFindTheirOwner
  DescriptorNamesOneSocket
  BufferUnlessHeapFull
  DatagramsFromBoundPort
  SuccessMeansSent
  ServersHoldTheirSockets
  TextsAndSums
  RepliesAgree
  LookupsAgree
SYMMETRY MCSymmetry
CHECK_DEADLOCK FALSE
