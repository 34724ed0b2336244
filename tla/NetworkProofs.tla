---------------------------- MODULE NetworkProofs ---------------------------
(***************************************************************************)
(* The network stack and the socket table keep their invariant under       *)
(* packets, the application and the commands, for every size of the table, *)
(* heap, MTU and cache, and every set of hosts and ports. Then, what each  *)
(* call of the application leaves of its socket; and on top of these the   *)
(* users of the table: the servers, the downloads and the application hold *)
(* the sockets they think they hold.                                       *)
(***************************************************************************)
EXTENDS SocketsProofs

\* Packets that arrive, and the start of the card, keep the invariants and send no
\* datagram.
LEMMA PacketsStep ==
  ASSUME NetOK, TableOK, Packets
  PROVE  (NetOK /\ TableOK)' /\ NoDatagram(out')
<1>1. UNCHANGED <<sockets, next_fd>>
  BY DEF Packets
<1>2. Fresh \in Nets /\ Silent(Fresh) /\ arp_cache \in Caches /\ ArpCacheCurrent
  BY FreshNet DEF NetOK
<1>3. CASE rtl8139_init
  <2>1. Table' = Table
    BY <1>1, <1>3 DEF rtl8139_init, Table
  <2>2. ArpCacheCurrent'
    BY <1>3 DEF rtl8139_init, NetOK, ArpCacheCurrent, Entries
  <2>3. PacketsFindTheirOwner'
    BY <1>3 DEF rtl8139_init, PacketsFindTheirOwner
  <2> QED BY <1>3, <2>1, <2>2, <2>3 DEF rtl8139_init, NetOK, TableOK, NoDatagram
<1>4. ASSUME NEW f \in ArpFrames \cup IpFrames, net_receive_frame(f)
      PROVE  (NetOK /\ TableOK)' /\ NoDatagram(out')
  BY <1>1, <1>4, ReceiveStep
<1>5. ASSUME NEW ip \in Hosts, cmd_ping(ip)
      PROVE  (NetOK /\ TableOK)' /\ NoDatagram(out')
  <2> DEFINE size == IcmpHdr + EchoData
  <2>1. size \in Nat
    BY NetworkAssumption
  <2> HIDE DEF size
  <2>2. icmp_send_echo_request(Fresh, ip) =
          IF Room(Fresh, size) THEN ip_send_packet(Take(Fresh, size), "icmp", ip, 0, size) ELSE Fresh
    BY DEF icmp_send_echo_request, size
  <2>3. Sent(icmp_send_echo_request(Fresh, ip), Fresh) /\ NoDatagram(icmp_send_echo_request(Fresh, ip).out)
    BY <1>2, <2>1, <2>2, OtherSend
  <2>4. out' = icmp_send_echo_request(Fresh, ip).out
    BY <1>5 DEF cmd_ping, Sends
  <2> QED BY <1>1, <1>5, <2>3, <2>4, SendStep DEF cmd_ping
<1>6. ASSUME NEW ip \in Hosts, NEW len \in SegmentLens, SendSegment(ip, len)
      PROVE  (NetOK /\ TableOK)' /\ NoDatagram(out')
  <2> DEFINE size == TcpHdr + len
  <2>1. size \in Nat
    BY NetworkAssumption
  <2> HIDE DEF size
  <2>2. tcp_send_packet(Fresh, ip, 0, len) =
          IF Room(Fresh, size) THEN ip_send_packet(Take(Fresh, size), "tcp", ip, 0, size) ELSE Fresh
    BY DEF tcp_send_packet, size
  <2>3. Sent(tcp_send_packet(Fresh, ip, 0, len), Fresh) /\ NoDatagram(tcp_send_packet(Fresh, ip, 0, len).out)
    BY <1>2, <2>1, <2>2, OtherSend
  <2>4. out' = tcp_send_packet(Fresh, ip, 0, len).out
    BY <1>6 DEF SendSegment, Sends
  <2> QED BY <1>1, <1>6, <2>3, <2>4, SendStep DEF SendSegment
<1> QED BY <1>3, <1>4, <1>5, <1>6 DEF Packets, NetNext

\* sendto and send hand a datagram to UDP or send nothing.
LEMMA SendtoSent ==
  ASSUME NetOK, TableOK, NEW fd, NEW ip \in Hosts \cup {OurIp}, NEW len \in Nat
  PROVE  Sent(sendto(Fresh, fd, ip, len).n, Fresh)
<1> DEFINE found == {i \in Slots : sockets[i].fd = fd /\ sockets[i].type = "SOCK_DGRAM"}
<1>1. Fresh \in Nets /\ Silent(Fresh) /\ Sent(Fresh, Fresh) /\ arp_cache \in Caches /\ ArpCacheCurrent
  BY FreshNet DEF NetOK
<1>2. CASE found = {}
  BY <1>1, <1>2 DEF sendto
<1>3. CASE found # {}
  <2> DEFINE port == sockets[First(found)].local_port
  <2>1. First(found) \in Slots
    BY <1>3, FirstIn, SlotsNat, Zenon
  <2>2. port \in Ports
    BY <2>1 DEF TableOK, Good, Table, Tables, Sock
  <2>3. sendto(Fresh, fd, ip, len).n = udp_send_packet(Fresh, ip, port, len)
    BY <1>3 DEF sendto
  <2> HIDE DEF port
  <2> QED BY <1>1, <2>2, <2>3, UdpSend
<1> QED BY <1>2, <1>3

\* send on a socket sends at most what it is given.
LEMMA SendSent ==
  ASSUME NetOK, TableOK, NEW fd, NEW len \in Nat
  PROVE  Sent(send(Table, Fresh, fd, len).n, Fresh)
<1> DEFINE found == InState(Table, fd, "SOCK_CONNECTED")
           k == Table.table[First(found)]
<1>1. Sent(Fresh, Fresh)
  BY FreshNet
<1>2. CASE found # {} /\ k.type = "SOCK_DGRAM"
  <2>1. First(found) \in Slots
    BY <1>2, FirstIn, SlotsNat, Zenon DEF InState
  <2>2. k.remote \in Hosts \cup {OurIp}
    BY <2>1 DEF TableOK, Good, Tables, Sock
  <2>3. send(Table, Fresh, fd, len) = sendto(Fresh, fd, k.remote, len)
    BY <1>2 DEF send
  <2> HIDE DEF k
  <2> QED BY <2>2, <2>3, SendtoSent
<1>3. CASE ~(found # {} /\ k.type = "SOCK_DGRAM")
  <2>1. send(Table, Fresh, fd, len).n = Fresh
    BY <1>3 DEF send
  <2> QED BY <1>1, <2>1
<1> QED BY <1>2, <1>3

\* The calls of the application keep the invariants.
LEMMA ApplicationStep ==
  ASSUME NetOK, TableOK, Application
  PROVE  (NetOK /\ TableOK)'
<1> USE DEF TableOK
<1>1. UNCHANGED <<iface, net_iface, arp_cache, owner>> /\ DataLens \subseteq Nat
  BY SocketsAssumption DEF Application, AppNext
<1>2. ASSUME NEW type \in Types, AppSocket(type)
      PROVE  (NetOK /\ TableOK)'
  BY <1>1, <1>2, SocketGood, TableStep DEF AppSocket
<1>3. ASSUME NEW port \in AppPorts, AppBind(port)
      PROVE  (NetOK /\ TableOK)'
  <2>1. port \in Ports
    BY DEF Ports
  <2> QED BY <1>1, <1>3, <2>1, BindGood, TableStep DEF AppBind
<1>4. ASSUME NEW ip \in Hosts, AppConnect(ip)
      PROVE  (NetOK /\ TableOK)'
  BY <1>1, <1>4, ConnectGood, TableStep DEF AppConnect
<1>5. ASSUME NEW ip \in Hosts, NEW len \in DataLens, AppSendto(ip, len)
      PROVE  (NetOK /\ TableOK)'
  <2>1. Sent(sendto(Fresh, app, ip, len).n, Fresh)
    BY <1>1, SendtoSent
  <2> QED BY <1>1, <1>5, <2>1, SendStep DEF AppSendto
<1>6. ASSUME NEW len \in DataLens, AppSend(len)
      PROVE  (NetOK /\ TableOK)'
  <2>1. Sent(send(Table, Fresh, app, len).n, Fresh)
    BY <1>1, SendSent
  <2> QED BY <1>1, <1>6, <2>1, SendStep DEF AppSend
<1>7. CASE AppListen
  BY <1>1, <1>7, ListenGood, TableStep DEF AppListen
<1>8. CASE AppClose
  BY <1>1, <1>8, CloseGood, TableStep DEF AppClose
<1> QED BY <1>2, <1>3, <1>4, <1>5, <1>6, <1>7, <1>8 DEF Application, AppNext

\* The commands of the shell that use the network keep the invariants.
LEMMA CommandsStep ==
  ASSUME NetOK, TableOK, Commands
  PROVE  (NetOK /\ TableOK)'
<1> USE DEF TableOK
<1>1. UNCHANGED <<iface, net_iface, arp_cache, owner>>
  BY DEF Commands
<1>2. "SOCK_STREAM" \in Types /\ "SOCK_DGRAM" \in Types
  BY DEF Types
<1>3. CASE http_server_start
  <2>1. Good(Opened("http", "SOCK_STREAM"))
    BY <1>2, OpenedGood DEF Servers
  <2> QED BY <1>1, <1>3, <2>1, TableStep DEF http_server_start
<1>4. ASSUME NEW name \in Servers, DatagramServerStart(name)
      PROVE  (NetOK /\ TableOK)'
  <2>1. Good(Opened(name, "SOCK_DGRAM"))
    BY <1>2, OpenedGood
  <2> QED BY <1>1, <1>4, <2>1, TableStep DEF DatagramServerStart
<1>5. CASE http_server_stop
  BY <1>1, <1>5, CloseGood, TableStep DEF http_server_stop
<1>6. ASSUME NEW name \in Servers, DatagramServerStop(name)
      PROVE  (NetOK /\ TableOK)'
  BY <1>1, <1>6, CloseGood, TableStep DEF DatagramServerStop
<1>7. ASSUME NEW ip \in Hosts, http_client_get(ip)
      PROVE  (NetOK /\ TableOK)'
  <2> DEFINE s == socket(Table, "SOCK_STREAM")
             r == IF s.ret < 0 THEN s ELSE close(connect(s, s.ret, ip), s.ret)
  <2>1. Good(s)
    BY <1>2, SocketGood
  <2>2. Becomes(r)
    BY <1>7 DEF http_client_get
  <2> HIDE DEF s
  <2>3. Good(r)
    BY <2>1, ConnectGood, CloseGood
  <2> HIDE DEF r
  <2> QED BY <1>1, <2>2, <2>3, TableStep
<1> QED BY <1>3, <1>4, <1>5, <1>6, <1>7 DEF Commands, ServerCommand, dns_start, dns_stop,
            dhcp_start, dhcp_stop, Servers

\* The invariants hold when the network is started.
LEMMA InitOK == Init => NetOK /\ TableOK
<1> SUFFICES ASSUME Init PROVE NetOK /\ TableOK
  OBVIOUS
<1>1. HeapLeft \in Nat /\ NET_MTU \in Nat /\ ArpCacheSize \in Nat
  BY NetworkAssumption
<1>a. arp_cache = <<>> /\ out = <<>> /\ left = HeapLeft /\ owner = [h \in Hosts |-> NoMac]
  BY Zenon DEF Init, NetInit
<1>b. /\ next_fd = 1
      /\ sockets = [i \in Slots |-> [fd |-> 0, type |-> "none", state |-> "SOCK_CLOSED",
                                     local_port |-> 0, remote |-> OurIp, buffer |-> FALSE]]
  BY Zenon DEF Init, SocketsInit
<1>2. ArpCacheCurrent
  BY ONLY <1>a DEF ArpCacheCurrent
<1>3. PacketsFindTheirOwner
  BY ONLY <1>a DEF PacketsFindTheirOwner
<1>4. NetOK
  <2>1. arp_cache \in Caches /\ Len(arp_cache) = 0 /\ out \in Seq(Frames)
    BY ONLY <1>a DEF Caches
  <2>2. iface = FALSE /\ net_iface = FALSE /\ owner \in [Hosts -> Macs \cup {NoMac}]
    BY Zenon DEF Init, NetInit
  <2>3. iface \in BOOLEAN /\ net_iface \in BOOLEAN /\ (net_iface => iface)
    BY <2>2, Zenon
  <2>4. Len(arp_cache) <= ArpCacheSize
    BY <1>1, <2>1
  <2> QED BY <1>2, <1>3, <2>1, <2>2, <2>3, <2>4, Zenon DEF NetOK
<1>5. TableOK
  <2>1. Table \in Tables /\ Table.left <= HeapLeft
    BY <1>1, <1>a, <1>b DEF Table, Tables, Sock, States, Ports
  <2>2. \A i \in Slots : Table.table[i].fd = 0 /\ Table.table[i].state = "SOCK_CLOSED" /\ Table.next_fd = 1
    BY ONLY <1>b DEF Table
  <2> QED BY <2>1, <2>2 DEF TableOK, Good
<1> QED BY <1>4, <1>5

\* The layers and the socket table keep their invariant under packets, the
\* application and the commands.
THEOREM NetworkInvariant == Spec => [](NetOK /\ TableOK)
<1>1. NetOK /\ TableOK /\ [Next]_vars => (NetOK /\ TableOK)'
  <2> SUFFICES ASSUME NetOK, TableOK, [Next]_vars PROVE (NetOK /\ TableOK)'
    OBVIOUS
  <2>1. CASE UNCHANGED vars
    <3>1. UNCHANGED <<nvars, sockets, next_fd>>
      BY <2>1 DEF vars, svars
    <3>2. TableOK'
      BY <3>1 DEF nvars, TableOK, Table
    <3>3. ArpCacheCurrent' /\ PacketsFindTheirOwner'
      BY <3>1, Zenon DEF nvars, NetOK, ArpCacheCurrent, PacketsFindTheirOwner
    <3> QED BY <3>1, <3>2, <3>3 DEF nvars, NetOK
  <2> QED BY <2>1, PacketsStep, ApplicationStep, CommandsStep DEF Next
<1> QED BY <1>1, InitOK, PTL DEF Spec

\* Two slots never carry the same descriptor, whatever sockets are opened
\* and closed: socket() counts next_fd up and gives no number twice.
THEOREM DescriptorsNameOneSocket == Spec => []DescriptorNamesOneSocket
<1>1. TableOK => DescriptorNamesOneSocket
  BY DEF TableOK, Good, Table, DescriptorNamesOneSocket
<1> QED BY <1>1, NetworkInvariant, PTL

\* An open socket lacks the buffer that socket() does not check only when
\* the heap has no room for one any more.
THEOREM BuffersUnlessHeapFull == Spec => []BufferUnlessHeapFull
<1>1. TableOK => BufferUnlessHeapFull
  BY DEF TableOK, Good, Table, BufferUnlessHeapFull
<1> QED BY <1>1, NetworkInvariant, PTL

\* The cache of arp_cache_learn has one entry for an address, the last one
\* announced, and misses an announced address only when it is full.
THEOREM ArpCacheStaysCurrent == Spec => []ArpCacheCurrent
<1>1. NetOK => ArpCacheCurrent
  BY DEF NetOK
<1> QED BY <1>1, NetworkInvariant, PTL

\* A packet of ip_send_packet goes to the card its address announced last,
\* or is broadcast after the question for it.
THEOREM PacketsReachTheirOwner == Spec => []PacketsFindTheirOwner
<1>1. NetOK => PacketsFindTheirOwner
  BY DEF NetOK
<1> QED BY <1>1, NetworkInvariant, PTL

\* The heap is never overdrawn, and the driver never given a frame above
\* the MTU.
THEOREM NetworkTypes == Spec => []NetTypeOK
<1>1. NetOK /\ TableOK => NetTypeOK
  <2> SUFFICES ASSUME NetOK, TableOK PROVE NetTypeOK
    OBVIOUS
  <2>1. \A i \in DOMAIN arp_cache : arp_cache[i] \in [ip : Hosts, mac : Macs]
    BY ElementOfSeq, Zenon DEF NetOK, Caches
  <2>2. \A i \in DOMAIN out : out[i] \in Frames
    BY ElementOfSeq DEF NetOK
  <2>3. \A i \in DOMAIN out : out[i].kind \in Kinds /\ out[i].len \in 0 .. NET_MTU
    BY <2>2 DEF Frames
  <2>4. left \in 0 .. HeapLeft
    <3>1. left \in Nat /\ left <= HeapLeft /\ HeapLeft \in Nat
      BY NetworkAssumption DEF TableOK, Good, Table, Tables
    <3> QED BY <3>1
  <2> QED BY <2>1, <2>3, <2>4 DEF NetOK, NetTypeOK
<1> QED BY <1>1, NetworkInvariant, PTL

-----------------------------------------------------------------------------
(* The application's calls.                                                *)

\* Every slot with the application's number has the port it bound last.
Bound(table, fd, port) == \A i \in Slots : table[i].fd = fd => table[i].local_port = port

\* A stream is never connected: connect leaves it in CONNECTING.
NoStreamConnected(table) ==
  \A i \in Slots : table[i].state = "SOCK_CONNECTED" => table[i].type = "SOCK_DGRAM"

AppOK ==
  /\ 0 < next_fd /\ app \in Int /\ app # 0 /\ app < next_fd
  /\ Bound(sockets, app, sent.port)
  /\ NoStreamConnected(sockets)

Datagrams == DatagramsFromBoundPort /\ SuccessMeansSent

\* A step that sends nothing says nothing about datagrams.
LEMMA NothingSentOK ==
  ASSUME NEW port, out' = <<>>, sent' = NothingSent(port)
  PROVE  Datagrams'
  BY DEF Datagrams, DatagramsFromBoundPort, SuccessMeansSent, NothingSent

\* A slot taken by others leaves the application's alone.
LEMMA TakenApp ==
  ASSUME AppOK, TableOK, NEW t, NEW i \in Slots, Taken(t, Table, i), Becomes(t), UNCHANGED app,
         t.table[i].state # "SOCK_CONNECTED", sent'.port = sent.port
  PROVE  AppOK'
<1>1. /\ sockets' = t.table /\ next_fd' = next_fd + 1 /\ next_fd \in Nat /\ t.table[i].fd = next_fd
      /\ \A j \in Slots : j # i => t.table[j] = sockets[j]
  BY GoodTable DEF Becomes, Taken, Table, TableOK
<1>2. next_fd # app /\ 0 < next_fd' /\ app' < next_fd'
  BY <1>1 DEF AppOK
<1>3. Bound(sockets', app', sent'.port)
  BY <1>1, <1>2 DEF AppOK, Bound
<1>4. NoStreamConnected(sockets')
  BY <1>1 DEF AppOK, NoStreamConnected
<1> QED BY <1>2, <1>3, <1>4 DEF AppOK

\* A call of sendto through the application's descriptor.
LEMMA SendtoDatagram ==
  ASSUME AppOK, TableOK, NetOK, NEW ip \in Hosts \cup {OurIp}, NEW len \in DataLens, NEW op,
         LET r == sendto(Fresh, app, ip, len)
         IN Sends(r.n) /\ sent' = [op |-> op, len |-> len, port |-> sent.port, ret |-> r.ret],
         UNCHANGED <<iface, net_iface>>
  PROVE  Datagrams'
<1> DEFINE found == {i \in Slots : sockets[i].fd = app /\ sockets[i].type = "SOCK_DGRAM"}
           r == sendto(Fresh, app, ip, len)
           port == sockets[First(found)].local_port
           m == udp_send_packet(Fresh, ip, port, len)
<1>1. sent'.len = len /\ sent'.port = sent.port /\ sent'.ret = r.ret /\ out' = r.n.out /\ left' = r.n.left
  BY DEF Sends
<1>2. len \in Nat /\ EthHdr \in Nat /\ IpHdr \in Nat /\ UdpHdr \in Nat
  BY SocketsAssumption, NetworkAssumption
<1>3. CASE found = {}
  <2>1. r.ret = -1 /\ r.n.out = <<>>
    BY <1>3 DEF sendto, Fresh
  <2> QED BY <1>1, <2>1 DEF Datagrams, DatagramsFromBoundPort, SuccessMeansSent
<1>4. CASE found # {}
  <2>1. First(found) \in found
    BY <1>4, SlotsNat, FirstIn, Zenon
  <2>2. port = sent.port /\ port \in Ports
    <3>1. First(found) \in Slots /\ sockets[First(found)].fd = app
      BY <2>1
    <3>2. sockets[First(found)] \in Sock
      BY <3>1, GoodTable DEF TableOK, Table
    <3> QED BY <3>1, <3>2 DEF AppOK, Bound, Sock
  <2>3. r.n = m
    BY <1>4 DEF sendto
  <2>4. Fresh \in Nets /\ Silent(Fresh) /\ arp_cache \in Caches /\ ArpCacheCurrent
    BY FreshNet DEF NetOK
  <2> HIDE DEF port, r
  <2>5. Delivery(m, "udp", port, EthHdr + IpHdr + (UdpHdr + len))
    BY <1>2, <2>2, <2>4, UdpSend
  <2> HIDE DEF m
  <2> DEFINE total == EthHdr + IpHdr + (UdpHdr + len)
  <2>6. total = EthHdr + IpHdr + UdpHdr + len
    BY <1>2
  <2>7. out' = m.out /\ left' = m.left
    BY <1>1, <2>3
  <2>8. DatagramsFromBoundPort'
    BY <1>1, <2>2, <2>5, <2>7 DEF DatagramsFromBoundPort, Delivery
  <2> HIDE DEF total
  <2>9. (\A i \in DOMAIN out' : out'[i].kind # "udp") => ~net_iface' \/ total > NET_MTU \/ left' <= total
    BY <2>5, <2>7 DEF Delivery, total, Up, NetOK
  <2>10. SuccessMeansSent'
    BY <1>1, <2>6, <2>9 DEF SuccessMeansSent
  <2> QED BY <2>8, <2>10 DEF Datagrams
<1> QED BY <1>3, <1>4

\* The calls that change an entry leave its number, its port and, but for
\* connect, whether it is connected.
LEMMA ChangeApp ==
  ASSUME AppOK, NEW t, t.next_fd = next_fd, Becomes(t), UNCHANGED app, sent'.port = sent.port,
         \A i \in Slots : t.table[i].fd = sockets[i].fd /\ t.table[i].local_port = sockets[i].local_port,
         NoStreamConnected(t.table)
  PROVE  AppOK'
  BY DEF Becomes, AppOK, Bound

\* A step that sends no datagram leaves the port of the application.
LEMMA QuietPort ==
  ASSUME Quiet
  PROVE  sent' = NothingSent(sent.port) /\ sent'.port = sent.port
  BY DEF Quiet, NothingSent

\* A new socket of the application: it knows its number, and has sent nothing.
LEMMA AppSocketStep ==
  ASSUME AppOK, TableOK, NEW type \in Types, AppSocket(type)
  PROVE  (AppOK /\ Datagrams)'
<1> DEFINE s == socket(Table, type)
<1>1. /\ Becomes(s) /\ app' = IF s.ret < 0 THEN app ELSE s.ret
      /\ sent' = NothingSent(IF s.ret < 0 THEN sent.port ELSE 0)
  BY DEF AppSocket
<1>2. Datagrams'
  BY <1>1, NothingSentOK DEF Becomes
<1>3. \/ s.table = Table.table /\ s.next_fd = Table.next_fd /\ s.ret = -1
      \/ /\ s.next_fd = Table.next_fd + 1 /\ s.ret = Table.next_fd
         /\ \E i \in Slots :
              /\ Table.table[i].state = "SOCK_CLOSED"
              /\ s.table[i].fd = Table.next_fd /\ s.table[i].type = type
              /\ s.table[i].state = "SOCK_CREATED" /\ s.table[i].local_port = 0
              /\ \A j \in Slots : j # i => s.table[j] = Table.table[j]
  BY SocketSlots DEF TableOK
<1>4. /\ Table.table = sockets /\ Table.next_fd = next_fd /\ next_fd \in Nat
      /\ \A i \in Slots : sockets[i].fd \in Nat /\ sockets[i].fd < next_fd
  BY GoodTable DEF TableOK, Table
<1> HIDE DEF s
<1>5. CASE s.ret = -1
  <2>1. s.table = sockets /\ s.next_fd = next_fd
    BY <1>3, <1>4, <1>5
  <2>2. sent'.port = sent.port /\ app' = app
    BY <1>1, <1>5 DEF NothingSent
  <2>3. AppOK'
    BY <1>1, <2>1, <2>2, ChangeApp DEF AppOK
  <2> QED BY <1>2, <2>3
<1>6. CASE s.ret # -1
  <2>1. s.next_fd = next_fd + 1 /\ s.ret = next_fd /\ ~(s.ret < 0)
    BY <1>3, <1>4, <1>6
  <2>2. PICK i \in Slots :
          /\ s.table[i].fd = next_fd /\ s.table[i].state = "SOCK_CREATED" /\ s.table[i].local_port = 0
          /\ \A j \in Slots : j # i => s.table[j] = sockets[j]
    BY <1>3, <1>4, <1>6
  <2>3. sent'.port = 0 /\ app' = next_fd /\ sockets' = s.table /\ next_fd' = next_fd + 1
    BY <1>1, <2>1 DEF NothingSent, Becomes
  <2>4. Bound(sockets', app', sent'.port)
    BY <1>4, <2>2, <2>3 DEF Bound
  <2>5. NoStreamConnected(sockets')
    BY <2>2, <2>3 DEF NoStreamConnected, AppOK
  <2>6. 0 < next_fd' /\ app' \in Int /\ app' # 0 /\ app' < next_fd'
    BY <1>4, <2>3 DEF AppOK
  <2> QED BY <1>2, <2>4, <2>5, <2>6 DEF AppOK
<1> QED BY <1>5, <1>6

\* bind of the application: its socket has the port it asked for.
LEMMA AppBindStep ==
  ASSUME AppOK, TableOK, NEW port \in AppPorts, AppBind(port)
  PROVE  (AppOK /\ Datagrams)'
<1> DEFINE t == bind(Table, app, port)
<1>1. Becomes(t) /\ sent' = NothingSent(IF t.ret < 0 THEN sent.port ELSE port) /\ app' = app
  BY DEF AppBind
<1>2. Datagrams'
  BY <1>1, NothingSentOK DEF Becomes
<1>3. /\ t.next_fd = Table.next_fd
      /\ t.ret = IF Open(Table, app) = {} THEN -1 ELSE 0
      /\ \A i \in Slots :
           t.table[i] = IF i \in Open(Table, app) THEN [Table.table[i] EXCEPT !.local_port = port] ELSE Table.table[i]
  BY BindSlots DEF TableOK, AppOK
<1>4. Table.table = sockets /\ Table.next_fd = next_fd /\ \A i \in Slots : sockets[i] \in Sock
  BY GoodTable DEF TableOK, Table
<1> HIDE DEF t
<1>5. sockets' = t.table /\ next_fd' = next_fd
  BY <1>1, <1>3, <1>4 DEF Becomes
<1>6. ASSUME NEW i \in Slots, i \in Open(Table, app)
      PROVE  /\ t.table[i].fd = sockets[i].fd /\ t.table[i].type = sockets[i].type
             /\ t.table[i].state = sockets[i].state /\ t.table[i].local_port = port
  <2>1. t.table[i] = [sockets[i] EXCEPT !.local_port = port] /\ sockets[i] \in Sock
    BY <1>3, <1>4, <1>6
  <2> QED BY <2>1 DEF Sock
<1>7. \A i \in Slots : i \notin Open(Table, app) => t.table[i] = sockets[i]
  BY <1>3, <1>4, Zenon
<1>8. NoStreamConnected(sockets')
  BY <1>5, <1>6, <1>7 DEF AppOK, NoStreamConnected
<1>9. Bound(sockets', app', sent'.port)
  <2>1. CASE Open(Table, app) = {}
    <3>1. sent'.port = sent.port
      BY <1>1, <1>3, <2>1 DEF NothingSent
    <3> QED BY <1>1, <1>5, <1>7, <2>1, <3>1 DEF AppOK, Bound
  <2>2. CASE Open(Table, app) # {}
    <3>1. sent'.port = port
      BY <1>1, <1>3, <2>2 DEF NothingSent
    <3>2. PICK o \in Slots : o \in Open(Table, app)
      BY <2>2 DEF Open
    <3>3. \A i \in Slots : sockets[i].fd = app => i = o
      <4>1. sockets[o].fd = app
        BY <1>4, <3>2 DEF Open
      <4> QED BY <4>1, <1>4 DEF TableOK, Good, AppOK
    <3>4. \A i \in Slots : t.table[i].fd = sockets[i].fd
      BY <1>6, <1>7
    <3> QED BY <1>1, <1>5, <1>6, <3>1, <3>2, <3>3, <3>4 DEF Bound
  <2> QED BY <2>1, <2>2
<1>10. AppOK'
  BY <1>1, <1>5, <1>8, <1>9 DEF AppOK
<1> QED BY <1>2, <1>10

\* listen, connect and close, on whichever descriptor.
LEMMA ListenKeeps ==
  ASSUME NEW s, Good(s), NEW fd, fd # 0, NoStreamConnected(s.table)
  PROVE  LET t == listen(s, fd)
         IN /\ t.next_fd = s.next_fd /\ NoStreamConnected(t.table)
            /\ \A i \in Slots : t.table[i].fd = s.table[i].fd /\ t.table[i].local_port = s.table[i].local_port
<1> DEFINE t == listen(s, fd)
           found == InState(s, fd, "SOCK_CREATED")
<1>1. /\ t.next_fd = s.next_fd
      /\ \A i \in Slots :
           t.table[i] = IF i \in found THEN [s.table[i] EXCEPT !.state = "SOCK_LISTENING"] ELSE s.table[i]
  BY ListenSlots
<1> HIDE DEF t, found
<1>2. ASSUME NEW i \in Slots
      PROVE  /\ t.table[i].fd = s.table[i].fd /\ t.table[i].local_port = s.table[i].local_port
             /\ t.table[i] = s.table[i] \/ t.table[i].state = "SOCK_LISTENING"
  <2>1. s.table[i] \in Sock
    BY GoodTable
  <2> QED BY <1>1, <2>1, Zenon DEF Sock
<1>3. NoStreamConnected(t.table)
  BY <1>2 DEF NoStreamConnected
<1> QED BY <1>1, <1>2, <1>3 DEF t

\* close leaves the numbers and the ports of all slots, and connects no stream.
LEMMA CloseKeeps ==
  ASSUME NEW s, Good(s), NEW fd, fd # 0, NoStreamConnected(s.table)
  PROVE  LET t == close(s, fd)
         IN /\ t.next_fd = s.next_fd /\ NoStreamConnected(t.table)
            /\ \A i \in Slots : t.table[i].fd = s.table[i].fd /\ t.table[i].local_port = s.table[i].local_port
<1> DEFINE t == close(s, fd)
           found == Open(s, fd)
<1>1. /\ t.next_fd = s.next_fd
      /\ \A i \in Slots :
           t.table[i] = IF i \in found THEN [s.table[i] EXCEPT !.state = "SOCK_CLOSED"] ELSE s.table[i]
  BY CloseSlots
<1> HIDE DEF t, found
<1>2. ASSUME NEW i \in Slots
      PROVE  /\ t.table[i].fd = s.table[i].fd /\ t.table[i].local_port = s.table[i].local_port
             /\ t.table[i] = s.table[i] \/ t.table[i].state = "SOCK_CLOSED"
  <2>1. s.table[i] \in Sock
    BY GoodTable
  <2> QED BY <1>1, <2>1, Zenon DEF Sock
<1>3. NoStreamConnected(t.table)
  BY <1>2 DEF NoStreamConnected
<1> QED BY <1>1, <1>2, <1>3 DEF t

\* connect leaves the numbers and the ports of all slots, and connects no stream.
LEMMA ConnectKeeps ==
  ASSUME NEW s, Good(s), NEW fd, fd # 0, NoStreamConnected(s.table), NEW ip \in Hosts
  PROVE  LET t == connect(s, fd, ip)
         IN /\ t.next_fd = s.next_fd /\ NoStreamConnected(t.table)
            /\ \A i \in Slots : t.table[i].fd = s.table[i].fd /\ t.table[i].local_port = s.table[i].local_port
<1> DEFINE t == connect(s, fd, ip)
           found == InState(s, fd, "SOCK_CREATED")
<1>1. /\ t.next_fd = s.next_fd
      /\ \A i \in Slots : t.table[i] = IF i \in found THEN Connected(s.table[i], ip) ELSE s.table[i]
  BY ConnectSlots
<1> HIDE DEF t, found
<1>2. ASSUME NEW i \in Slots
      PROVE  /\ t.table[i].fd = s.table[i].fd /\ t.table[i].local_port = s.table[i].local_port
             /\ t.table[i] = s.table[i] \/ (t.table[i].state = "SOCK_CONNECTED" => t.table[i].type = "SOCK_DGRAM")
  <2>1. s.table[i] \in Sock
    BY GoodTable
  <2> QED BY <1>1, <2>1, Zenon DEF Sock, Connected
<1>3. NoStreamConnected(t.table)
  BY <1>2 DEF NoStreamConnected
<1> QED BY <1>1, <1>2, <1>3 DEF t

-----------------------------------------------------------------------------
(* The users of the table.                                                 *)

-----------------------------------------------------------------------------
(* The application.                                                        *)

\* The table socket.c works on is the state's, and the application has a descriptor.
LEMMA TableFields ==
  ASSUME TableOK, AppOK
  PROVE  /\ Table.table = sockets /\ Table.next_fd = next_fd /\ Good(Table)
         /\ app # 0 /\ NoStreamConnected(Table.table)
  BY DEF TableOK, Table, AppOK

\* What the application knows of its socket stays true in its own calls, and
\* its datagrams keep to what sendto promises.
LEMMA ApplicationApp ==
  ASSUME NetOK, TableOK, AppOK, Application
  PROVE  (AppOK /\ Datagrams)'
<1>1. /\ Table.table = sockets /\ Table.next_fd = next_fd /\ Good(Table)
      /\ app # 0 /\ NoStreamConnected(Table.table)
  BY TableFields
<1>2. ASSUME NEW t, Becomes(t), Quiet, UNCHANGED app, t.next_fd = Table.next_fd, NoStreamConnected(t.table),
             \A i \in Slots : t.table[i].fd = Table.table[i].fd /\ t.table[i].local_port = Table.table[i].local_port
      PROVE  (AppOK /\ Datagrams)'
  <2>1. sent' = NothingSent(sent.port) /\ sent'.port = sent.port
    BY <1>2, QuietPort
  <2>2. AppOK'
    BY <1>1, <1>2, <2>1, ChangeApp
  <2> QED BY <1>2, <2>1, <2>2, NothingSentOK DEF Becomes
<1>3. CASE AppListen
  <2> DEFINE t == listen(Table, app)
  <2>1. Becomes(t) /\ Quiet /\ UNCHANGED app
    BY <1>3 DEF AppListen
  <2>2. /\ t.next_fd = Table.next_fd /\ NoStreamConnected(t.table)
        /\ \A i \in Slots : t.table[i].fd = Table.table[i].fd /\ t.table[i].local_port = Table.table[i].local_port
    BY <1>1, ListenKeeps
  <2> HIDE DEF t
  <2> QED BY <1>2, <2>1, <2>2
<1>4. CASE AppClose
  <2> DEFINE t == close(Table, app)
  <2>1. Becomes(t) /\ Quiet /\ UNCHANGED app
    BY <1>4 DEF AppClose
  <2>2. /\ t.next_fd = Table.next_fd /\ NoStreamConnected(t.table)
        /\ \A i \in Slots : t.table[i].fd = Table.table[i].fd /\ t.table[i].local_port = Table.table[i].local_port
    BY <1>1, CloseKeeps
  <2> HIDE DEF t
  <2> QED BY <1>2, <2>1, <2>2
<1>5. ASSUME NEW ip \in Hosts, AppConnect(ip)
      PROVE  (AppOK /\ Datagrams)'
  <2> DEFINE t == connect(Table, app, ip)
  <2>1. Becomes(t) /\ Quiet /\ UNCHANGED app
    BY <1>5 DEF AppConnect
  <2>2. /\ t.next_fd = Table.next_fd /\ NoStreamConnected(t.table)
        /\ \A i \in Slots : t.table[i].fd = Table.table[i].fd /\ t.table[i].local_port = Table.table[i].local_port
    <3>1. Good(Table) /\ app # 0 /\ NoStreamConnected(Table.table)
      BY <1>1
    <3> QED BY <3>1, ConnectKeeps
  <2> HIDE DEF t
  <2> QED BY <1>2, <2>1, <2>2
<1>6. UNCHANGED <<iface, net_iface>>
  BY DEF Application, AppNext
<1>7. ASSUME UNCHANGED <<sockets, next_fd, app>>, sent'.port = sent.port
      PROVE  AppOK'
  BY <1>7 DEF AppOK
<1>8. ASSUME NEW ip \in Hosts, NEW len \in DataLens, AppSendto(ip, len)
      PROVE  (AppOK /\ Datagrams)'
  <2>1. Datagrams'
    BY <1>6, <1>8, SendtoDatagram DEF AppSendto
  <2> QED BY <1>7, <1>8, <2>1 DEF AppSendto
<1>9. ASSUME NEW len \in DataLens, AppSend(len)
      PROVE  (AppOK /\ Datagrams)'
  <2> DEFINE found == InState(Table, app, "SOCK_CONNECTED")
             k == Table.table[First(found)]
             r == send(Table, Fresh, app, len)
  <2>1. Sends(r.n) /\ sent' = [op |-> "send", len |-> len, port |-> sent.port, ret |-> r.ret]
    BY <1>9 DEF AppSend
  <2>2. CASE found = {}
    <3>1. r.ret = -1 /\ r.n.out = <<>>
      BY <2>2 DEF send, Fresh
    <3>2. out' = <<>> /\ sent'.ret = -1
      BY <2>1, <3>1 DEF Sends
    <3>3. Datagrams'
      BY <3>2 DEF Datagrams, DatagramsFromBoundPort, SuccessMeansSent
    <3> QED BY <1>7, <1>9, <3>3 DEF AppSend
  <2>3. CASE found # {}
    <3>1. First(found) \in Slots /\ k.state = "SOCK_CONNECTED"
      <4>1. found \subseteq Nat
        BY SlotsNat, Zenon DEF InState
      <4>2. First(found) \in found
        BY <2>3, <4>1, FirstIn
      <4> QED BY <4>2 DEF InState
    <3>2. k.type = "SOCK_DGRAM"
      BY <1>1, <3>1 DEF NoStreamConnected
    <3>3. r = sendto(Fresh, app, k.remote, len)
      BY <2>3, <3>2 DEF send
    <3>4. k.remote \in Hosts \cup {OurIp}
      <4>1. k \in Sock
        BY <1>1, <3>1, GoodTable
      <4> QED BY <4>1 DEF Sock
    <3> HIDE DEF k, r
    <3>5. Datagrams'
      BY <1>6, <2>1, <3>3, <3>4, SendtoDatagram
    <3> QED BY <1>7, <1>9, <3>5 DEF AppSend
  <2> QED BY <2>2, <2>3
<1>10. ASSUME NEW type \in Types, AppSocket(type)
       PROVE  (AppOK /\ Datagrams)'
  BY <1>10, AppSocketStep
<1>11. ASSUME NEW port \in AppPorts, AppBind(port)
       PROVE  (AppOK /\ Datagrams)'
  BY <1>11, AppBindStep
<1> QED BY <1>3, <1>4, <1>5, <1>8, <1>9, <1>10, <1>11 DEF Application, AppNext

\* A received or injected frame makes the application send nothing.
LEMMA PacketsApp ==
  ASSUME NetOK, TableOK, AppOK, Packets
  PROVE  (AppOK /\ Datagrams)'
<1>1. NoDatagram(out')
  BY PacketsStep
<1>2. Quiet /\ UNCHANGED <<sockets, next_fd, app>>
  BY DEF Packets
<1>3. sent' = NothingSent(sent.port) /\ sent'.port = sent.port
  BY <1>2, QuietPort
<1>4. Datagrams'
  BY <1>1, <1>3 DEF Datagrams, DatagramsFromBoundPort, SuccessMeansSent, NoDatagram, NothingSent
<1> QED BY <1>2, <1>3, <1>4 DEF AppOK

\* A server's start and a download take a slot or nothing.
LEMMA StartApp ==
  ASSUME TableOK, AppOK, NEW name \in Servers, NEW type \in Types, Becomes(Opened(name, type)),
         UNCHANGED app, sent'.port = sent.port
  PROVE  AppOK'
<1> DEFINE t == Opened(name, type)
<1>1. \/ t.table = sockets /\ t.next_fd = next_fd
      \/ \E i \in Slots : Taken(t, Table, i) /\ t.table[i].state # "SOCK_CONNECTED"
  <2>1. \/ t.table = sockets /\ t.next_fd = next_fd /\ t.ret = -1
        \/ /\ t.ret = next_fd
           /\ \E i \in Slots :
                /\ Taken(t, Table, i)
                /\ t.table[i].type = type /\ t.table[i].local_port = Port[name]
                /\ t.table[i].state = IF type = "SOCK_STREAM" THEN "SOCK_LISTENING" ELSE "SOCK_CREATED"
    BY OpenedSlots DEF TableOK, AppOK
  <2> HIDE DEF t
  <2> QED BY <2>1
<1>2. Becomes(t)
  OBVIOUS
<1> HIDE DEF t
<1>3. CASE t.table = sockets /\ t.next_fd = next_fd
  BY <1>2, <1>3, ChangeApp DEF AppOK
<1>4. CASE \E i \in Slots : Taken(t, Table, i) /\ t.table[i].state # "SOCK_CONNECTED"
  BY <1>2, <1>4, TakenApp
<1> QED BY <1>1, <1>3, <1>4

\* What a running server closes is a socket of its own: its number is one
\* that socket() has given.
ServerFds ==
  \A name \in Servers : server[name].running => server[name].fd \in Nat /\ server[name].fd # 0

\* The close() of another user's socket takes nothing from the application.
LEMMA StopApp ==
  ASSUME TableOK, AppOK, NEW fd, fd # 0, Becomes(close(Table, fd)), UNCHANGED app, sent'.port = sent.port
  PROVE  AppOK'
<1> DEFINE t == close(Table, fd)
<1>1. /\ t.next_fd = Table.next_fd /\ NoStreamConnected(t.table)
      /\ \A i \in Slots : t.table[i].fd = Table.table[i].fd /\ t.table[i].local_port = Table.table[i].local_port
  BY TableFields, CloseKeeps
<1>2. Becomes(t)
  OBVIOUS
<1> HIDE DEF t
<1> QED BY <1>1, <1>2, TableFields, ChangeApp

\* The shell's server commands and downloads leave the application's socket alone.
LEMMA CommandsApp ==
  ASSUME TableOK, AppOK, ServerFds, Commands
  PROVE  (AppOK /\ Datagrams)'
<1>1. Quiet /\ UNCHANGED app
  BY DEF Commands
<1>2. sent' = NothingSent(sent.port) /\ sent'.port = sent.port
  BY <1>1, QuietPort
<1>3. "SOCK_STREAM" \in Types /\ "SOCK_DGRAM" \in Types
  BY DEF Types
<1>4. CASE http_server_start
  <2>1. Becomes(Opened("http", "SOCK_STREAM")) /\ "http" \in Servers
    BY <1>4 DEF http_server_start, Servers
  <2>2. AppOK'
    BY <1>1, <1>2, <1>3, <2>1, StartApp
  <2> QED BY <1>2, <2>1, <2>2, NothingSentOK DEF Becomes
<1>5. ASSUME NEW name \in Servers, DatagramServerStart(name)
      PROVE  (AppOK /\ Datagrams)'
  <2>1. Becomes(Opened(name, "SOCK_DGRAM"))
    BY <1>5 DEF DatagramServerStart
  <2>2. AppOK'
    BY <1>1, <1>2, <1>3, <2>1, StartApp
  <2> QED BY <1>2, <2>1, <2>2, NothingSentOK DEF Becomes
<1>6. ASSUME NEW name \in Servers, server[name].running, Becomes(close(Table, server[name].fd))
      PROVE  (AppOK /\ Datagrams)'
  <2>1. server[name].fd # 0
    BY <1>6 DEF ServerFds
  <2>2. AppOK'
    BY <1>1, <1>2, <1>6, <2>1, StopApp
  <2> QED BY <1>2, <1>6, <2>2, NothingSentOK DEF Becomes
<1>7. CASE http_server_stop
  BY <1>6, <1>7 DEF http_server_stop, Servers
<1>8. ASSUME NEW name \in Servers, DatagramServerStop(name)
      PROVE  (AppOK /\ Datagrams)'
  BY <1>6, <1>8 DEF DatagramServerStop
<1>9. ASSUME NEW ip \in Hosts, http_client_get(ip)
      PROVE  (AppOK /\ Datagrams)'
  <2> DEFINE s == socket(Table, "SOCK_STREAM")
             t == IF s.ret < 0 THEN s ELSE close(connect(s, s.ret, ip), s.ret)
  <2>1. Becomes(t)
    BY <1>9 DEF http_client_get
  <2>2. \/ t.table = sockets /\ t.next_fd = next_fd
        \/ \E i \in Slots : Taken(t, Table, i) /\ t.table[i].state = "SOCK_CLOSED"
    BY GetSlots DEF TableOK, AppOK
  <2> HIDE DEF t
  <2>3. CASE t.table = sockets /\ t.next_fd = next_fd
    BY <1>1, <1>2, <2>1, <2>3, ChangeApp, NothingSentOK DEF AppOK, Becomes
  <2>4. CASE \E i \in Slots : Taken(t, Table, i) /\ t.table[i].state = "SOCK_CLOSED"
    <3>1. PICK i \in Slots : Taken(t, Table, i) /\ t.table[i].state = "SOCK_CLOSED"
      BY <2>4
    <3>2. AppOK'
      BY <1>1, <1>2, <2>1, <3>1, TakenApp
    <3> QED BY <1>2, <2>1, <3>2, NothingSentOK DEF Becomes
  <2> QED BY <2>2, <2>3, <2>4
<1> QED BY <1>4, <1>5, <1>7, <1>8, <1>9 DEF Commands, ServerCommand, dns_start, dns_stop,
            dhcp_start, dhcp_stop, Servers

-----------------------------------------------------------------------------
(* The servers' sockets.                                                   *)

\* Slot k is the socket that server sv, with name, holds.
Holds(k, sv, name) ==
  /\ k.state # "SOCK_CLOSED" /\ k.fd = sv.fd /\ k.local_port = Port[name]
  /\ IF name = "http" THEN k.state = "SOCK_LISTENING" ELSE k.type = "SOCK_DGRAM"

\* Each running server has a number of its own below next_fd, and its
\* socket; each open socket has a holder.
ServersOK ==
  /\ \A n \in Servers : server[n].running =>
       /\ server[n].fd \in Nat /\ server[n].fd # 0 /\ server[n].fd < next_fd /\ server[n].fd # app
       /\ \E i \in Slots : Holds(sockets[i], server[n], n)
  /\ \A m, n \in Servers : server[m].running /\ server[n].running /\ server[m].fd = server[n].fd => m = n
  /\ \A i \in Slots : sockets[i].state # "SOCK_CLOSED" =>
       sockets[i].fd = app \/ \E n \in Servers : server[n].running /\ server[n].fd = sockets[i].fd

ServerTypes == server \in [Servers -> [running : BOOLEAN, fd : Int]]

\* The inductive invariant about the servers says what the runs check.
LEMMA ServersHold == ServersOK => ServersHoldTheirSockets
  BY DEF ServersOK, Holds, ServersHoldTheirSockets

\* A step that leaves the servers as they are keeps ServersOK if it keeps
\* their sockets and the holder of every open one.
LEMMA ServersKept ==
  ASSUME ServersOK, UNCHANGED server,
         \A n \in Servers : server[n].running =>
           server[n].fd < next_fd' /\ server[n].fd # app' /\ \E j \in Slots : Holds(sockets'[j], server[n], n),
         \A j \in Slots : sockets'[j].state # "SOCK_CLOSED" =>
           sockets'[j].fd = app' \/ \E n \in Servers : server[n].running /\ server[n].fd = sockets'[j].fd
  PROVE  ServersOK'
<1>1. \A n \in Servers : server[n].running => server[n].fd \in Nat /\ server[n].fd # 0
  BY DEF ServersOK
<1>2. \A m, n \in Servers : server[m].running /\ server[n].running /\ server[m].fd = server[n].fd => m = n
  BY DEF ServersOK
<1> QED BY <1>1, <1>2 DEF ServersOK

\* A step that touches neither the table nor the servers keeps ServersOK.
LEMMA ServersSame ==
  ASSUME ServersOK, UNCHANGED <<sockets, next_fd, app, server>>
  PROVE  ServersOK'
<1>1. sockets' = sockets /\ next_fd' = next_fd /\ app' = app /\ server' = server
  OBVIOUS
<1>2. \A n \in Servers : server[n].running =>
        /\ server[n].fd < next_fd /\ server[n].fd # app
        /\ \E j \in Slots : Holds(sockets[j], server[n], n)
  BY Zenon DEF ServersOK
<1>3. \A j \in Slots : sockets[j].state # "SOCK_CLOSED" =>
        sockets[j].fd = app \/ \E n \in Servers : server[n].running /\ server[n].fd = sockets[j].fd
  BY Zenon DEF ServersOK
<1> QED BY <1>1, <1>2, <1>3, ServersKept, Zenon

\* The application's calls change its own slots only.
LEMMA OwnSlots ==
  ASSUME TableOK, AppOK, ServersOK, NEW t, Becomes(t), t.next_fd = next_fd, UNCHANGED <<app, server>>,
         \A i \in Slots : t.table[i].fd = sockets[i].fd /\ (sockets[i].fd # app => t.table[i] = sockets[i])
  PROVE  ServersOK'
<1>1. sockets' = t.table /\ next_fd' = next_fd
  BY DEF Becomes
<1>2. ASSUME NEW n \in Servers, server[n].running
      PROVE  \E i \in Slots : Holds(sockets'[i], server[n], n)
  <2>1. PICK i \in Slots : Holds(sockets[i], server[n], n)
    BY <1>2 DEF ServersOK
  <2>2. sockets[i].fd # app
    BY <1>2, <2>1 DEF ServersOK, Holds
  <2> QED BY <1>1, <2>1, <2>2
<1>3. ASSUME NEW i \in Slots, sockets'[i].state # "SOCK_CLOSED", sockets'[i].fd # app
      PROVE  \E n \in Servers : server[n].running /\ server[n].fd = sockets'[i].fd
  <2>1. sockets'[i] = sockets[i]
    BY <1>1, <1>3
  <2> QED BY <1>3, <2>1 DEF ServersOK
<1> QED BY <1>1, <1>2, <1>3 DEF ServersOK

\* The application's calls take no socket from a server.
LEMMA AppServers ==
  ASSUME NetOK, TableOK, AppOK, ServersOK, Application
  PROVE  ServersOK'
<1>1. /\ Table.table = sockets /\ Table.next_fd = next_fd /\ Good(Table) /\ app # 0 /\ UNCHANGED server
      /\ NoStreamConnected(Table.table)
  BY TableFields DEF Application
<1>2. \A i \in Slots : sockets[i] \in Sock
  BY <1>1, GoodTable
<1>3. CASE AppListen
  <2> DEFINE t == listen(Table, app)
  <2>1. Becomes(t) /\ UNCHANGED app
    BY <1>3 DEF AppListen
  <2>2. t.next_fd = next_fd /\ \A i \in Slots : t.table[i].fd = sockets[i].fd
    BY <1>1, ListenKeeps
  <2>3. \A i \in Slots : sockets[i].fd # app => t.table[i] = sockets[i]
    <3>1. Good(Table) /\ app # 0
      BY <1>1
    <3>2. \A i \in Slots : t.table[i] = IF i \in InState(Table, app, "SOCK_CREATED") THEN [Table.table[i] EXCEPT !.state = "SOCK_LISTENING"] ELSE Table.table[i]
      BY <3>1, ListenSlots
    <3> HIDE DEF t
    <3> QED BY <1>1, <3>2, Zenon DEF InState
  <2> HIDE DEF t
  <2> QED BY <1>1, <2>1, <2>2, <2>3, OwnSlots
<1>4. CASE AppClose
  <2> DEFINE t == close(Table, app)
  <2>1. Becomes(t) /\ UNCHANGED app
    BY <1>4 DEF AppClose
  <2>2. t.next_fd = next_fd /\ \A i \in Slots : t.table[i].fd = sockets[i].fd
    BY <1>1, CloseKeeps
  <2>3. \A i \in Slots : sockets[i].fd # app => t.table[i] = sockets[i]
    <3>1. Good(Table) /\ app # 0
      BY <1>1
    <3>2. \A i \in Slots : t.table[i] = IF i \in Open(Table, app) THEN [Table.table[i] EXCEPT !.state = "SOCK_CLOSED"] ELSE Table.table[i]
      BY <3>1, CloseSlots
    <3> HIDE DEF t
    <3> QED BY <1>1, <3>2, Zenon DEF Open
  <2> HIDE DEF t
  <2> QED BY <1>1, <2>1, <2>2, <2>3, OwnSlots
<1>5. ASSUME NEW ip \in Hosts, AppConnect(ip)
      PROVE  ServersOK'
  <2> DEFINE t == connect(Table, app, ip)
  <2>1. Becomes(t) /\ UNCHANGED app
    BY <1>5 DEF AppConnect
  <2>2. t.next_fd = next_fd /\ \A i \in Slots : t.table[i].fd = sockets[i].fd
    <3>1. Good(Table) /\ app # 0 /\ NoStreamConnected(Table.table)
      BY <1>1
    <3>2. t.next_fd = Table.next_fd /\ \A i \in Slots : t.table[i].fd = Table.table[i].fd
      BY <3>1, ConnectKeeps
    <3> HIDE DEF t
    <3> QED BY <1>1, <3>2
  <2>3. \A i \in Slots : sockets[i].fd # app => t.table[i] = sockets[i]
    <3>1. Good(Table) /\ app # 0
      BY <1>1
    <3>2. \A i \in Slots : t.table[i] = IF i \in InState(Table, app, "SOCK_CREATED") THEN Connected(Table.table[i], ip) ELSE Table.table[i]
      BY <3>1, ConnectSlots
    <3> HIDE DEF t
    <3> QED BY <1>1, <3>2 DEF InState
  <2> HIDE DEF t
  <2> QED BY <1>1, <2>1, <2>2, <2>3, OwnSlots
<1>6. ASSUME NEW port \in AppPorts, AppBind(port)
      PROVE  ServersOK'
  <2> DEFINE t == bind(Table, app, port)
  <2>1. Becomes(t) /\ UNCHANGED app
    BY <1>6 DEF AppBind
  <2>2. /\ t.next_fd = next_fd
        /\ \A i \in Slots :
             t.table[i] = IF i \in Open(Table, app) THEN [sockets[i] EXCEPT !.local_port = port] ELSE sockets[i]
    BY <1>1, BindSlots
  <2> HIDE DEF t
  <2>3. \A i \in Slots : sockets[i].fd # app => t.table[i] = sockets[i]
    BY <1>1, <2>2, Zenon DEF Open
  <2>4. ASSUME NEW i \in Slots
        PROVE  t.table[i].fd = sockets[i].fd
    BY <1>2, <2>2, Zenon DEF Sock
  <2> QED BY <1>1, <2>1, <2>2, <2>3, <2>4, OwnSlots
<1>7. ASSUME UNCHANGED <<sockets, next_fd, app>>
      PROVE  ServersOK'
  BY <1>1, <1>7, ServersSame
<1>8. ASSUME NEW type \in Types, AppSocket(type)
      PROVE  ServersOK'
  <2> DEFINE t == socket(Table, type)
  <2>1. Becomes(t) /\ app' = (IF t.ret < 0 THEN app ELSE t.ret) /\ Open(Table, app) = {}
    BY <1>8 DEF AppSocket
  <2>2. \/ t.table = Table.table /\ t.next_fd = Table.next_fd /\ t.ret = -1
        \/ /\ t.next_fd = Table.next_fd + 1 /\ t.ret = Table.next_fd
           /\ \E i \in Slots :
                /\ Table.table[i].state = "SOCK_CLOSED"
                /\ t.table[i].fd = Table.next_fd /\ t.table[i].type = type
                /\ t.table[i].state = "SOCK_CREATED" /\ t.table[i].local_port = 0
                /\ \A j \in Slots : j # i => t.table[j] = Table.table[j]
    BY <1>1, SocketSlots, SMTT(20)
  <2>3. next_fd \in Nat /\ \A i \in Slots : sockets[i].state # "SOCK_CLOSED" => sockets[i].fd # app
    BY <1>1, <2>1, GoodTable DEF Open
  <2> HIDE DEF t
  <2>4. CASE t.ret = -1
    <3>0. next_fd # -1 /\ -1 < 0
      BY <2>3
    <3>1. t.table = sockets /\ t.next_fd = next_fd /\ UNCHANGED app
      BY <1>1, <2>1, <2>2, <2>4, <3>0, Zenon
    <3>2. UNCHANGED <<sockets, next_fd>>
      BY <2>1, <3>1 DEF Becomes
    <3> QED BY <1>7, <3>1, <3>2
  <2>5. CASE t.ret # -1
    <3>1. t.next_fd = next_fd + 1 /\ t.ret = next_fd /\ ~(t.ret < 0)
      BY <1>1, <2>2, <2>3, <2>5
    <3>2. PICK i \in Slots :
            /\ sockets[i].state = "SOCK_CLOSED" /\ t.table[i].fd = next_fd
            /\ \A j \in Slots : j # i => t.table[j] = sockets[j]
      BY <1>1, <2>2, <2>5
    <3>3. sockets' = t.table /\ next_fd' = next_fd + 1 /\ app' = next_fd
      BY <2>1, <3>1 DEF Becomes
    <3>4. ASSUME NEW n \in Servers, server[n].running
          PROVE  \E j \in Slots : Holds(sockets'[j], server[n], n)
      <4>1. PICK j \in Slots : Holds(sockets[j], server[n], n)
        BY <3>4 DEF ServersOK
      <4>2. j # i
        BY <3>2, <4>1 DEF Holds
      <4> QED BY <3>2, <3>3, <4>1, <4>2
    <3>5. ASSUME NEW j \in Slots, sockets'[j].state # "SOCK_CLOSED", sockets'[j].fd # app'
          PROVE  \E n \in Servers : server[n].running /\ server[n].fd = sockets'[j].fd
      <4>1. j # i
        BY <3>2, <3>3, <3>5
      <4>2. sockets'[j] = sockets[j]
        BY <3>2, <3>3, <4>1
      <4> QED BY <2>3, <3>5, <4>2 DEF ServersOK
    <3>6. ASSUME NEW n \in Servers, server[n].running
          PROVE  /\ server[n].fd \in Nat /\ server[n].fd # 0 /\ server[n].fd < next_fd'
                 /\ server[n].fd # app'
      BY <2>3, <3>3, <3>6 DEF ServersOK
    <3>7. \A n \in Servers : server[n].running =>
            server[n].fd < next_fd' /\ server[n].fd # app' /\ \E j \in Slots : Holds(sockets'[j], server[n], n)
      BY <3>4, <3>6, Zenon
    <3>8. \A j \in Slots : sockets'[j].state # "SOCK_CLOSED" =>
            sockets'[j].fd = app' \/ \E n \in Servers : server[n].running /\ server[n].fd = sockets'[j].fd
      BY <3>5, Zenon
    <3> QED BY <1>1, <3>7, <3>8, ServersKept, Zenon
  <2> QED BY <2>4, <2>5
<1>9. ASSUME NEW ip \in Hosts, NEW len \in DataLens, AppSendto(ip, len)
      PROVE  ServersOK'
  BY <1>7, <1>9 DEF AppSendto
<1>10. ASSUME NEW len \in DataLens, AppSend(len)
       PROVE  ServersOK'
  BY <1>7, <1>10 DEF AppSend
<1> QED BY <1>3, <1>4, <1>5, <1>6, <1>8, <1>9, <1>10 DEF Application, AppNext

-----------------------------------------------------------------------------
(* The servers.                                                            *)

\* What a server's socket, bind and listen leave: nothing, or a slot that was
\* closed with the type and the port of the server.
Gives(t, name, type) ==
  \/ t.table = sockets /\ t.next_fd = next_fd /\ t.ret = -1
  \/ /\ t.ret = next_fd
     /\ \E i \in Slots :
          /\ Taken(t, Table, i)
          /\ t.table[i].type = type /\ t.table[i].local_port = Port[name]
          /\ t.table[i].state = IF type = "SOCK_STREAM" THEN "SOCK_LISTENING" ELSE "SOCK_CREATED"

\* The calls of a start give the server its socket or leave the table alone.
LEMMA OpenedGives ==
  ASSUME Good(Table), 0 < next_fd, NEW name \in Servers, NEW type \in Types
  PROVE  Gives(Opened(name, type), name, type)
  BY OpenedSlots DEF Gives

\* A start gives the server a socket, or leaves everything as it was.
LEMMA StartServers ==
  ASSUME TableOK, AppOK, ServersOK, NEW name \in Servers, NEW type \in Types,
         type = (IF name = "http" THEN "SOCK_STREAM" ELSE "SOCK_DGRAM"),
         ~server[name].running, UNCHANGED app,
         LET t == Opened(name, type)
         IN /\ Becomes(t)
            /\ t.ret < 0 => ~server'[name].running
            /\ ~(t.ret < 0) => server'[name].running /\ server'[name].fd = t.ret,
         \A n \in Servers : n # name => server'[n] = server[n]
  PROVE  ServersOK'
<1> DEFINE t == Opened(name, type)
<1>1. /\ Becomes(t)
      /\ t.ret < 0 => ~server'[name].running
      /\ ~(t.ret < 0) => server'[name].running /\ server'[name].fd = t.ret
  OBVIOUS
<1>2. \/ t.table = sockets /\ t.next_fd = next_fd /\ t.ret = -1
      \/ /\ t.ret = next_fd
         /\ \E i \in Slots :
              /\ Taken(t, Table, i)
              /\ t.table[i].type = type /\ t.table[i].local_port = Port[name]
              /\ t.table[i].state = IF type = "SOCK_STREAM" THEN "SOCK_LISTENING" ELSE "SOCK_CREATED"
  <2>1. Good(Table) /\ 0 < next_fd
    BY TableFields DEF AppOK
  <2>2. Gives(t, name, type)
    BY <2>1, OpenedGives, Zenon
  <2> HIDE DEF t
  <2> QED BY <2>2, Zenon DEF Gives
<1>3. Table.table = sockets /\ Table.next_fd = next_fd /\ next_fd \in Nat
  BY TableFields, GoodTable
<1>4. sockets' = t.table /\ next_fd' = t.next_fd
  BY <1>1 DEF Becomes
<1> HIDE DEF t
<1>5. CASE t.ret = -1
  <2>1. sockets' = sockets /\ next_fd' = next_fd /\ ~server'[name].running
    BY <1>1, <1>2, <1>3, <1>4, <1>5
  <2>2. \A n \in Servers : server'[n].running => server[n].running /\ server'[n] = server[n]
    BY <2>1
  <2>3. \A n \in Servers : server[n].running => server'[n] = server[n]
    OBVIOUS
  <2>4. \A n \in Servers : server'[n].running =>
          /\ server'[n].fd \in Nat /\ server'[n].fd # 0 /\ server'[n].fd < next_fd' /\ server'[n].fd # app'
          /\ \E i \in Slots : Holds(sockets'[i], server'[n], n)
    BY <2>1, <2>2, Zenon DEF ServersOK
  <2>5. \A m, n \in Servers : server'[m].running /\ server'[n].running /\ server'[m].fd = server'[n].fd => m = n
    BY <2>2, Zenon DEF ServersOK
  <2>6. \A i \in Slots : sockets'[i].state # "SOCK_CLOSED" =>
          sockets'[i].fd = app' \/ \E n \in Servers : server'[n].running /\ server'[n].fd = sockets'[i].fd
    <3> SUFFICES ASSUME NEW i \in Slots, sockets[i].state # "SOCK_CLOSED"
                 PROVE  sockets[i].fd = app \/ \E n \in Servers : server'[n].running /\ server'[n].fd = sockets[i].fd
      BY <2>1
    <3>1. sockets[i].fd = app \/ \E n \in Servers : server[n].running /\ server[n].fd = sockets[i].fd
      BY DEF ServersOK
    <3> QED BY <2>3, <3>1
  <2> QED BY <2>4, <2>5, <2>6, Zenon DEF ServersOK
<1>6. CASE t.ret # -1
  <2>0. ~(next_fd < 0)
    BY <1>3
  <2>1. t.ret = next_fd /\ server'[name].running /\ server'[name].fd = next_fd
    BY <1>1, <1>2, <1>6, <2>0, Zenon
  <2>2. PICK i \in Slots :
          /\ Taken(t, Table, i)
          /\ t.table[i].type = type /\ t.table[i].local_port = Port[name]
          /\ t.table[i].state = IF type = "SOCK_STREAM" THEN "SOCK_LISTENING" ELSE "SOCK_CREATED"
    BY <1>2, <1>6
  <2>3. /\ next_fd' = next_fd + 1 /\ sockets[i].state = "SOCK_CLOSED" /\ sockets'[i].fd = next_fd
        /\ \A j \in Slots : j # i => sockets'[j] = sockets[j]
    BY <1>3, <1>4, <2>2 DEF Taken
  <2>4. Holds(sockets'[i], server'[name], name)
    <3>1. sockets'[i].type = type /\ sockets'[i].local_port = Port[name]
      BY <1>4, <2>2
    <3>2. /\ name = "http" => sockets'[i].state = "SOCK_LISTENING"
          /\ name # "http" => sockets'[i].state = "SOCK_CREATED" /\ sockets'[i].type = "SOCK_DGRAM"
      BY <1>4, <2>2, <3>1
    <3> QED BY <2>1, <2>3, <3>1, <3>2 DEF Holds
  <2>5. ASSUME NEW n \in Servers, n # name, server'[n].running
        PROVE  /\ server'[n] = server[n] /\ server[n].running
               /\ server[n].fd \in Nat /\ server[n].fd # 0 /\ server[n].fd < next_fd /\ server[n].fd # app
               /\ \E j \in Slots : Holds(sockets'[j], server'[n], n)
    <3>1. server'[n] = server[n] /\ server[n].running
      BY <2>5
    <3>2. PICK j \in Slots : Holds(sockets[j], server[n], n)
      BY <3>1 DEF ServersOK
    <3>3. j # i
      BY <2>3, <3>2 DEF Holds
    <3> QED BY <2>3, <3>1, <3>2, <3>3 DEF ServersOK
  <2>6. ASSUME NEW n \in Servers, server'[n].running
        PROVE  /\ server'[n].fd \in Nat /\ server'[n].fd # 0 /\ server'[n].fd < next_fd' /\ server'[n].fd # app'
               /\ \E j \in Slots : Holds(sockets'[j], server'[n], n)
    <3>1. CASE n = name
      <4>1. next_fd # 0 /\ next_fd # app /\ next_fd < next_fd'
        BY <1>3, <2>3 DEF AppOK
      <4> QED BY <1>3, <2>1, <2>4, <3>1, <4>1
    <3>2. CASE n # name
      <4>1. next_fd' = next_fd + 1 /\ next_fd \in Nat /\ server'[n].fd \in Nat /\ server'[n].fd < next_fd
        BY <1>3, <2>3, <2>5, <2>6, <3>2
      <4>2. server'[n].fd < next_fd'
        BY <4>1
      <4> QED BY <2>5, <2>6, <3>2, <4>2
    <3> QED BY <3>1, <3>2
  <2>7. ASSUME NEW a \in Servers, NEW n \in Servers, server'[a].running, server'[n].running,
               server'[a].fd = server'[n].fd
        PROVE  a = n
    <3>1. \A b \in Servers : b # name /\ server'[b].running => server'[b].fd # next_fd
      BY <1>3, <2>5
    <3>2. CASE a = name \/ n = name
      BY <2>1, <2>7, <3>1, <3>2
    <3>3. CASE a # name /\ n # name
      BY <2>5, <2>7, <3>3 DEF ServersOK
    <3> QED BY <3>2, <3>3
  <2>8. ASSUME NEW j \in Slots, sockets'[j].state # "SOCK_CLOSED"
        PROVE  sockets'[j].fd = app' \/ \E n \in Servers : server'[n].running /\ server'[n].fd = sockets'[j].fd
    <3>1. CASE j = i
      BY <2>1, <2>3, <3>1
    <3>2. CASE j # i
      <4>1. sockets'[j] = sockets[j]
        BY <2>3, <3>2
      <4>2. sockets[j].fd = app \/ \E n \in Servers : server[n].running /\ server[n].fd = sockets[j].fd
        BY <2>8, <4>1 DEF ServersOK
      <4>3. \A n \in Servers : server[n].running => server'[n] = server[n]
        OBVIOUS
      <4> QED BY <4>1, <4>2, <4>3
    <3> QED BY <3>1, <3>2
  <2> QED BY <2>6, <2>7, <2>8 DEF ServersOK
<1> QED BY <1>5, <1>6

\* A stop closes the server's socket and no other.
LEMMA StopServers ==
  ASSUME TableOK, AppOK, ServersOK, NEW name \in Servers, server[name].running, UNCHANGED app,
         Becomes(close(Table, server[name].fd)), ~server'[name].running,
         \A n \in Servers : n # name => server'[n] = server[n]
  PROVE  ServersOK'
<1> DEFINE fd == server[name].fd
           t == close(Table, fd)
<1>1. Good(Table) /\ fd # 0 /\ Table.table = sockets /\ Table.next_fd = next_fd /\ \A i \in Slots : sockets[i] \in Sock
  BY TableFields, GoodTable DEF ServersOK
<1>2. /\ t.next_fd = Table.next_fd
      /\ \A i \in Slots :
           t.table[i] = IF i \in Open(Table, fd) THEN [Table.table[i] EXCEPT !.state = "SOCK_CLOSED"] ELSE Table.table[i]
  BY <1>1, CloseSlots
<1>3. sockets' = t.table /\ next_fd' = t.next_fd
  BY DEF Becomes
<1> HIDE DEF t
<1>4. next_fd' = next_fd
  BY <1>1, <1>2, <1>3
<1>5. ASSUME NEW i \in Slots
      PROVE  IF sockets[i].fd = fd THEN sockets'[i].state = "SOCK_CLOSED" ELSE sockets'[i] = sockets[i]
  <2>1. sockets'[i] = IF sockets[i].fd = fd /\ sockets[i].state # "SOCK_CLOSED"
                        THEN [sockets[i] EXCEPT !.state = "SOCK_CLOSED"] ELSE sockets[i]
    BY <1>1, <1>2, <1>3 DEF Open
  <2>2. sockets[i] \in Sock
    BY <1>1
  <2> QED BY <2>1, <2>2 DEF Sock
<1>6. ASSUME NEW n \in Servers, server'[n].running
      PROVE  n # name /\ server'[n] = server[n] /\ server[n].running /\ server[n].fd # fd
  <2>1. n # name /\ server'[n] = server[n] /\ server[n].running
    BY <1>6
  <2> QED BY <2>1 DEF ServersOK
<1> HIDE DEF fd
<1>7. ASSUME NEW n \in Servers, server'[n].running
      PROVE  \E i \in Slots : Holds(sockets'[i], server'[n], n)
  <2>1. PICK i \in Slots : Holds(sockets[i], server[n], n)
    BY <1>6, <1>7 DEF ServersOK
  <2>2. sockets'[i] = sockets[i]
    BY <1>5, <1>6, <1>7, <2>1 DEF Holds
  <2> QED BY <1>6, <1>7, <2>1, <2>2
<1>8. ASSUME NEW i \in Slots, sockets'[i].state # "SOCK_CLOSED"
      PROVE  sockets'[i].fd = app' \/ \E n \in Servers : server'[n].running /\ server'[n].fd = sockets'[i].fd
  <2>1. sockets'[i] = sockets[i] /\ sockets[i].fd # fd
    BY <1>5, <1>8
  <2>2. sockets[i].fd = app \/ \E n \in Servers : server[n].running /\ server[n].fd = sockets[i].fd
    BY <1>8, <2>1 DEF ServersOK
  <2>3. \A n \in Servers : server[n].fd # fd => server'[n] = server[n]
    BY DEF fd
  <2> QED BY <2>1, <2>2, <2>3
<1>9. \A n \in Servers : server[n].running =>
        server[n].fd \in Nat /\ server[n].fd # 0 /\ server[n].fd < next_fd /\ server[n].fd # app
  BY Zenon DEF ServersOK
<1>10. ASSUME NEW n \in Servers, server'[n].running
       PROVE  server'[n].fd \in Nat /\ server'[n].fd # 0 /\ server'[n].fd < next_fd' /\ server'[n].fd # app'
  BY <1>4, <1>6, <1>9, <1>10
<1>11. ASSUME NEW m \in Servers, NEW n \in Servers, server'[m].running, server'[n].running, server'[m].fd = server'[n].fd
       PROVE  m = n
  <2>1. /\ server'[m] = server[m] /\ server[m].running
        /\ server'[n] = server[n] /\ server[n].running
    BY <1>6, <1>11
  <2> QED BY <1>11, <2>1, Zenon DEF ServersOK
<1> QED BY <1>7, <1>8, <1>10, <1>11, Zenon DEF ServersOK

\* Every start and stop of a server, and a download, keeps the servers' sockets.
LEMMA CommandsServers ==
  ASSUME TableOK, AppOK, ServerTypes, ServersOK, Commands
  PROVE  (ServerTypes /\ ServersOK)'
<1>1. UNCHANGED app /\ "http" \in Servers /\ "dns" \in Servers /\ "dhcp" \in Servers
  BY DEF Commands, Servers
<1>2. "SOCK_STREAM" \in Types /\ "SOCK_DGRAM" \in Types
  BY DEF Types
<1>3. \A name \in Servers : server[name] \in [running : BOOLEAN, fd : Int]
  BY DEF ServerTypes
<1>4. CASE http_server_start
  <2> DEFINE t == Opened("http", "SOCK_STREAM")
  <2>1. /\ ~server["http"].running /\ Becomes(t)
        /\ server' = [server EXCEPT !["http"] =
                        IF t.ret < 0 THEN [server["http"] EXCEPT !.fd = t.ret] ELSE [running |-> TRUE, fd |-> t.ret]]
    BY <1>4 DEF http_server_start
  <2>2. t.ret \in Int
    BY <1>1, <1>2, OpenedGood DEF TableOK, Good, Tables
  <2> HIDE DEF t
  <2>3. /\ server'["http"] = IF t.ret < 0 THEN [server["http"] EXCEPT !.fd = t.ret] ELSE [running |-> TRUE, fd |-> t.ret]
        /\ \A n \in Servers : n # "http" => server'[n] = server[n]
    BY <1>1, <2>1 DEF ServerTypes
  <2>4. /\ t.ret < 0 => ~server'["http"].running
        /\ ~(t.ret < 0) => server'["http"].running /\ server'["http"].fd = t.ret
        /\ server'["http"] \in [running : BOOLEAN, fd : Int]
    BY <1>1, <1>3, <2>1, <2>2, <2>3
  <2>5. ServerTypes'
    BY <1>1, <2>1, <2>3, <2>4 DEF ServerTypes
  <2>6. ServersOK'
    BY <1>1, <1>2, <2>1, <2>3, <2>4, StartServers DEF t
  <2> QED BY <2>5, <2>6
<1>5. ASSUME NEW name \in Servers, name # "http", DatagramServerStart(name)
      PROVE  (ServerTypes /\ ServersOK)'
  <2> DEFINE t == Opened(name, "SOCK_DGRAM")
  <2>1. /\ ~server[name].running /\ Becomes(t)
        /\ server' = IF t.ret < 0 THEN server ELSE [server EXCEPT ![name] = [running |-> TRUE, fd |-> t.ret]]
    BY <1>5 DEF DatagramServerStart
  <2>2. t.ret \in Int
    BY <1>2, OpenedGood DEF TableOK, Good, Tables
  <2> HIDE DEF t
  <2>3. \A n \in Servers : n # name => server'[n] = server[n]
    BY <2>1 DEF ServerTypes
  <2>4. /\ t.ret < 0 => ~server'[name].running
        /\ ~(t.ret < 0) => server'[name].running /\ server'[name].fd = t.ret
    BY <2>1 DEF ServerTypes
  <2>5. ServerTypes'
    BY <2>1, <2>2 DEF ServerTypes
  <2>6. ServersOK'
    BY <1>1, <1>2, <1>5, <2>1, <2>3, <2>4, StartServers DEF t
  <2> QED BY <2>5, <2>6
<1>6. CASE http_server_stop
  <2>1. /\ server["http"].running /\ Becomes(close(Table, server["http"].fd))
        /\ server' = [server EXCEPT !["http"] = [server["http"] EXCEPT !.running = FALSE]]
    BY <1>6 DEF http_server_stop
  <2>2. /\ server'["http"] = [server["http"] EXCEPT !.running = FALSE]
        /\ \A n \in Servers : n # "http" => server'[n] = server[n]
    BY <1>1, <2>1 DEF ServerTypes
  <2>3. ~server'["http"].running /\ server'["http"] \in [running : BOOLEAN, fd : Int]
    BY <1>1, <1>3, <2>2, Zenon
  <2>4. ServerTypes'
    BY <2>1, <2>2, <2>3 DEF ServerTypes
  <2> QED BY <1>1, <2>1, <2>2, <2>3, <2>4, StopServers
<1>7. ASSUME NEW name \in Servers, DatagramServerStop(name)
      PROVE  (ServerTypes /\ ServersOK)'
  <2>1. /\ server[name].running /\ Becomes(close(Table, server[name].fd))
        /\ server' = [server EXCEPT ![name] = [running |-> FALSE, fd |-> -1]]
    BY <1>7 DEF DatagramServerStop
  <2>2. ~server'[name].running /\ \A n \in Servers : n # name => server'[n] = server[n]
    BY <2>1 DEF ServerTypes
  <2>3. ServerTypes'
    BY <2>1 DEF ServerTypes
  <2> QED BY <1>1, <2>1, <2>2, <2>3, StopServers
<1>8. ASSUME NEW ip \in Hosts, http_client_get(ip)
      PROVE  (ServerTypes /\ ServersOK)'
  <2> DEFINE s == socket(Table, "SOCK_STREAM")
             t == IF s.ret < 0 THEN s ELSE close(connect(s, s.ret, ip), s.ret)
  <2>1. Becomes(t) /\ UNCHANGED server
    BY <1>8 DEF http_client_get
  <2>2. \/ t.table = sockets /\ t.next_fd = next_fd
        \/ \E i \in Slots : Taken(t, Table, i) /\ t.table[i].state = "SOCK_CLOSED"
    BY GetSlots DEF TableOK, AppOK
  <2>3. Table.table = sockets /\ Table.next_fd = next_fd /\ next_fd \in Nat
    BY TableFields, GoodTable
  <2> HIDE DEF t
  <2>4. sockets' = t.table /\ next_fd' = t.next_fd /\ ServerTypes'
    BY <2>1 DEF Becomes, ServerTypes
  <2>5. CASE t.table = sockets /\ t.next_fd = next_fd
    BY <1>1, <2>1, <2>4, <2>5, ServersSame
  <2>6. CASE \E i \in Slots : Taken(t, Table, i) /\ t.table[i].state = "SOCK_CLOSED"
    <3>1. PICK i \in Slots : Taken(t, Table, i) /\ t.table[i].state = "SOCK_CLOSED"
      BY <2>6
    <3>2. /\ next_fd' = next_fd + 1 /\ sockets[i].state = "SOCK_CLOSED" /\ sockets'[i].state = "SOCK_CLOSED"
          /\ \A j \in Slots : j # i => sockets'[j] = sockets[j]
      BY <2>3, <2>4, <3>1 DEF Taken
    <3>3. ASSUME NEW n \in Servers, server[n].running
          PROVE  server[n].fd < next_fd' /\ server[n].fd # app' /\ \E j \in Slots : Holds(sockets'[j], server[n], n)
      <4>1. server[n].fd \in Nat /\ server[n].fd < next_fd /\ server[n].fd # app
        BY <3>3 DEF ServersOK
      <4>2. PICK j \in Slots : Holds(sockets[j], server[n], n)
        BY <3>3 DEF ServersOK
      <4>3. j # i
        BY <3>2, <4>2 DEF Holds
      <4>4. sockets'[j] = sockets[j]
        BY <3>2, <4>3
      <4>5. server[n].fd < next_fd' /\ server[n].fd # app'
        BY <1>1, <2>3, <3>2, <4>1
      <4> QED BY <4>2, <4>4, <4>5
    <3>4. ASSUME NEW j \in Slots, sockets'[j].state # "SOCK_CLOSED"
          PROVE  sockets'[j].fd = app' \/ \E n \in Servers : server[n].running /\ server[n].fd = sockets'[j].fd
      <4>1. sockets'[j] = sockets[j]
        BY <3>2, <3>4
      <4> QED BY <1>1, <3>4, <4>1 DEF ServersOK
    <3>5. ServersOK'
      BY <2>1, <3>3, <3>4, ServersKept
    <3> QED BY <2>4, <3>5
  <2> QED BY <2>2, <2>4, <2>5, <2>6
<1>9. \/ http_server_start \/ http_server_stop
      \/ DatagramServerStart("dns") \/ DatagramServerStop("dns")
      \/ DatagramServerStart("dhcp") \/ DatagramServerStop("dhcp")
      \/ \E ip \in Hosts : http_client_get(ip)
  BY Zenon DEF Commands, ServerCommand, dns_start, dns_stop, dhcp_start, dhcp_stop
<1>10. ASSUME NEW name \in Servers, name # "http", DatagramServerStart(name) \/ DatagramServerStop(name)
       PROVE  (ServerTypes /\ ServersOK)'
  BY <1>5, <1>7, <1>10, Zenon
<1>11. "dns" # "http" /\ "dhcp" # "http"
  OBVIOUS
<1> QED BY <1>1, <1>4, <1>6, <1>8, <1>9, <1>10, <1>11, Zenon

-----------------------------------------------------------------------------
(* The theorems.                                                           *)

UsersOK == AppOK /\ Datagrams /\ ServerTypes /\ ServersOK

\* At boot nobody holds a socket.
LEMMA InitUsers == Init => UsersOK
<1> SUFFICES ASSUME Init PROVE UsersOK
  OBVIOUS
<1>a. /\ next_fd = 1 /\ app = -1 /\ sent = NothingSent(0) /\ out = <<>>
      /\ sockets = [i \in Slots |-> [fd |-> 0, type |-> "none", state |-> "SOCK_CLOSED",
                                     local_port |-> 0, remote |-> OurIp, buffer |-> FALSE]]
  BY Zenon DEF Init, NetInit, SocketsInit
<1>1. AppOK
  BY ONLY <1>a DEF AppOK, Bound, NoStreamConnected, NothingSent
<1>2. Datagrams
  <2>1. out = <<>> /\ sent.op = "none"
    BY ONLY <1>a, Zenon DEF NothingSent
  <2>2. DatagramsFromBoundPort
    BY <2>1 DEF DatagramsFromBoundPort
  <2>3. SuccessMeansSent
    BY <2>1, Zenon DEF SuccessMeansSent
  <2> QED BY <2>2, <2>3 DEF Datagrams
<1>3. ServerTypes /\ \A n \in Servers : ~server[n].running
  BY DEF Init, ServerTypes
<1>4. \A i \in Slots : sockets[i].state = "SOCK_CLOSED"
  BY ONLY <1>a
<1>5. ServersOK
  BY <1>3, <1>4 DEF ServersOK
<1> QED BY <1>1, <1>2, <1>3, <1>5 DEF UsersOK

\* Every step of the network keeps what its users rely on.
LEMMA StepUsers ==
  ASSUME NetOK, TableOK, UsersOK, [Next]_vars
  PROVE  UsersOK'
<1> USE DEF UsersOK
<1>1. CASE Packets
  <2>1. UNCHANGED <<sockets, next_fd, app, server>>
    BY <1>1 DEF Packets
  <2>2. (ServerTypes /\ ServersOK)'
    BY <2>1, ServersSame DEF ServerTypes
  <2> QED BY <1>1, <2>2, PacketsApp
<1>2. CASE Application
  <2>1. ServerTypes'
    BY <1>2 DEF Application, ServerTypes
  <2> QED BY <1>2, <2>1, ApplicationApp, AppServers
<1>3. CASE Commands
  <2>1. ServerFds
    BY DEF ServersOK, ServerFds
  <2> QED BY <1>3, <2>1, CommandsApp, CommandsServers
<1>4. CASE UNCHANGED vars
  <2>1. UNCHANGED <<iface, net_iface, left, out, sockets, next_fd, app, sent, server>>
    BY <1>4 DEF vars, nvars, svars
  <2>2. AppOK'
    BY <2>1 DEF AppOK
  <2>3. Datagrams'
    BY <2>1 DEF Datagrams, DatagramsFromBoundPort, SuccessMeansSent
  <2>4. (ServerTypes /\ ServersOK)'
    BY <2>1, ServersSame DEF ServerTypes
  <2> QED BY <2>2, <2>3, <2>4
<1> QED BY <1>1, <1>2, <1>3, <1>4 DEF Next

\* The application and the servers keep to their own sockets.
THEOREM UsersInvariant == Spec => []UsersOK
<1>1. NetOK /\ TableOK /\ UsersOK /\ [Next]_vars => UsersOK'
  BY StepUsers
<1> QED BY <1>1, InitUsers, NetworkInvariant, PTL DEF Spec

\* A running server has an open socket with its port, and no socket stays
\* open that nobody holds: starts, stops and downloads leak none.
THEOREM ServersHoldSockets == Spec => []ServersHoldTheirSockets
<1>1. UsersOK => ServersHoldTheirSockets
  BY ServersHold DEF UsersOK
<1> QED BY <1>1, UsersInvariant, PTL

\* A datagram carries the port bound last to the descriptor it is sent
\* through, 0 before any, also through a descriptor that is closed.
THEOREM DatagramsCarryBoundPort == Spec => []DatagramsFromBoundPort
<1>1. UsersOK => DatagramsFromBoundPort
  BY DEF UsersOK, Datagrams
<1> QED BY <1>1, UsersInvariant, PTL

\* A datagram reported as sent is on the wire, unless eth0 is down, its
\* frame is above the MTU or the heap has no room for it.
THEOREM SuccessIsSent == Spec => []SuccessMeansSent
<1>1. UsersOK => SuccessMeansSent
  BY DEF UsersOK, Datagrams
<1> QED BY <1>1, UsersInvariant, PTL
=============================================================================
