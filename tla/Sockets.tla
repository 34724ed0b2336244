------------------------------ MODULE Sockets -------------------------------
(***************************************************************************)
(* The socket table of net/socket.c.  Its functions are operators on the   *)
(* table, the next descriptor, the bytes left on the heap and the value    *)
(* returned; a caller is a step that makes one or several of the calls.    *)
(* An application outside the source has one socket at a time, and uses    *)
(* its descriptor also after it has closed it.                             *)
(***************************************************************************)
EXTENDS Network

CONSTANTS
  MAX_SOCKETS,
  AppPorts,     \* the ports the application binds
  DataLens,     \* the lengths it sends
  MaxFd         \* bound: no call of socket once next_fd has reached it

Slots == 0 .. MAX_SOCKETS - 1
Types == {"SOCK_STREAM", "SOCK_DGRAM"}
States == {"SOCK_CLOSED", "SOCK_CREATED", "SOCK_LISTENING", "SOCK_CONNECTING", "SOCK_CONNECTED"}

ASSUME SocketsAssumption ==
  /\ MAX_SOCKETS \in Nat /\ MaxFd \in Nat
  /\ DataLens \subseteq Nat
  /\ \A len \in DataLens : EthHdr + IpHdr + UdpHdr + len < 65536

VARIABLES
  sockets,
  next_fd,
  app,       \* the descriptor the application uses, the last it got
  sent       \* for the properties: the application's last call, its port
             \* and the value sendto returned

svars == <<sockets, next_fd, app, sent>>

Free(s) == {i \in Slots : s.table[i].state = "SOCK_CLOSED"}
Open(s, fd) == {i \in Slots : s.table[i].fd = fd /\ s.table[i].state # "SOCK_CLOSED"}
InState(s, fd, state) == {i \in Slots : s.table[i].fd = fd /\ s.table[i].state = state}

-----------------------------------------------------------------------------
(* The calls.                                                              *)

\* Fault: a slot is taken over with the port of its last user.
SocketKeepsPort(s, type) ==
  IF Free(s) = {} THEN [s EXCEPT !.ret = -1]
  ELSE [table |-> [s.table EXCEPT ![First(Free(s))] =
                     [@ EXCEPT !.type = type, !.fd = s.next_fd, !.state = "SOCK_CREATED",
                               !.buffer = Room(s, NET_MTU)]],
        next_fd |-> s.next_fd + 1, ret |-> s.next_fd,
        left |-> IF Room(s, NET_MTU) THEN s.left - NET_MTU ELSE s.left]

\* Fault: the number is not used up.
SocketSameNumber(s, type) ==
  IF Free(s) = {} THEN [s EXCEPT !.ret = -1]
  ELSE [table |-> [s.table EXCEPT ![First(Free(s))] =
                     [@ EXCEPT !.type = type, !.fd = s.next_fd, !.state = "SOCK_CREATED",
                               !.local_port = 0, !.buffer = Room(s, NET_MTU)]],
        next_fd |-> s.next_fd, ret |-> s.next_fd,
        left |-> IF Room(s, NET_MTU) THEN s.left - NET_MTU ELSE s.left]

\* Fault: a stream, which cannot receive, gets no buffer.
SocketStreamUnbuffered(s, type) ==
  IF Free(s) = {} THEN [s EXCEPT !.ret = -1]
  ELSE [table |-> [s.table EXCEPT ![First(Free(s))] =
                     [@ EXCEPT !.type = type, !.fd = s.next_fd, !.state = "SOCK_CREATED",
                               !.local_port = 0, !.buffer = type = "SOCK_DGRAM" /\ Room(s, NET_MTU)]],
        next_fd |-> s.next_fd + 1, ret |-> s.next_fd,
        left |-> IF Room(s, NET_MTU) THEN s.left - NET_MTU ELSE s.left]

\* The buffer is NULL when the heap has no room; nobody looks.
socket(s, type) ==
  IF Free(s) = {} THEN [s EXCEPT !.ret = -1]
  ELSE [table |-> [s.table EXCEPT ![First(Free(s))] =
                     [@ EXCEPT !.type = type, !.fd = s.next_fd, !.state = "SOCK_CREATED",
                               !.local_port = 0, !.buffer = Room(s, NET_MTU)]],
        next_fd |-> s.next_fd + 1, ret |-> s.next_fd,
        left |-> IF Room(s, NET_MTU) THEN s.left - NET_MTU ELSE s.left]

\* A call that finds no socket returns -1, else changes the first one.
Update(s, found, Change(_)) ==
  IF found = {} THEN [s EXCEPT !.ret = -1]
  ELSE [table |-> [s.table EXCEPT ![First(found)] = Change(@)],
        next_fd |-> s.next_fd, left |-> s.left, ret |-> 0]

bind(s, fd, port) == Update(s, Open(s, fd), LAMBDA k : [k EXCEPT !.local_port = port])

listen(s, fd) ==
  Update(s, InState(s, fd, "SOCK_CREATED"), LAMBDA k : [k EXCEPT !.state = "SOCK_LISTENING"])

connect(s, fd, ip) ==
  Update(s, InState(s, fd, "SOCK_CREATED"),
         LAMBDA k : [k EXCEPT !.remote = ip,
                              !.state = IF k.type = "SOCK_DGRAM" THEN "SOCK_CONNECTED"
                                        ELSE "SOCK_CONNECTING"])

close(s, fd) == Update(s, Open(s, fd), LAMBDA k : [k EXCEPT !.state = "SOCK_CLOSED"])

\* Neither looks at the state; a datagram counts as sent whatever becomes
\* of it.
sendto(n, fd, ip, len) ==
  LET found == {i \in Slots : sockets[i].fd = fd /\ sockets[i].type = "SOCK_DGRAM"}
  IN IF found = {} THEN [n |-> n, ret |-> -1]
     ELSE [n |-> udp_send_packet(n, ip, sockets[First(found)].local_port, len), ret |-> len]

\* No stream is ever connected, and nothing is ever received: accept always
\* fails and buf_len stays 0.
send(s, n, fd, len) ==
  LET found == InState(s, fd, "SOCK_CONNECTED")
  IN IF found = {} THEN [n |-> n, ret |-> -1]
     ELSE IF s.table[First(found)].type = "SOCK_DGRAM"
            THEN sendto(n, fd, s.table[First(found)].remote, len)
     ELSE [n |-> n, ret |-> len]

-----------------------------------------------------------------------------
(* The application.                                                        *)

Table == [table |-> sockets, next_fd |-> next_fd, left |-> left, ret |-> -1]
Becomes(s) == sockets' = s.table /\ next_fd' = s.next_fd /\ left' = s.left /\ out' = <<>>
NothingSent(port) == [op |-> "none", len |-> 0, port |-> port, ret |-> 0]
Quiet == sent' = NothingSent(sent.port)

AppSocket(type) ==
  LET s == socket(Table, type)
  IN /\ Open(Table, app) = {} /\ next_fd < MaxFd
     /\ Becomes(s)
     /\ app' = IF s.ret < 0 THEN app ELSE s.ret
     /\ sent' = NothingSent(IF s.ret < 0 THEN sent.port ELSE 0)

AppBind(port) ==
  LET s == bind(Table, app, port)
  IN /\ Becomes(s)
     /\ sent' = NothingSent(IF s.ret < 0 THEN sent.port ELSE port)
     /\ UNCHANGED app

AppConnect(ip) == Becomes(connect(Table, app, ip)) /\ Quiet /\ UNCHANGED app
AppListen == Becomes(listen(Table, app)) /\ Quiet /\ UNCHANGED app
AppClose == Becomes(close(Table, app)) /\ Quiet /\ UNCHANGED app

AppSendto(ip, len) ==
  LET r == sendto(Fresh, app, ip, len)
  IN /\ Sends(r.n)
     /\ sent' = [op |-> "sendto", len |-> len, port |-> sent.port, ret |-> r.ret]
     /\ UNCHANGED <<sockets, next_fd, app>>

AppSend(len) ==
  LET r == send(Table, Fresh, app, len)
  IN /\ Sends(r.n)
     /\ sent' = [op |-> "send", len |-> len, port |-> sent.port, ret |-> r.ret]
     /\ UNCHANGED <<sockets, next_fd, app>>

SocketsInit ==
  /\ sockets = [i \in Slots |-> [fd |-> 0, type |-> "none", state |-> "SOCK_CLOSED",
                                 local_port |-> 0, remote |-> OurIp, buffer |-> FALSE]]
  /\ next_fd = 1
  /\ app = -1
  /\ sent = NothingSent(0)

AppNext ==
  /\ \/ \E type \in Types : AppSocket(type)
     \/ \E port \in AppPorts : AppBind(port)
     \/ \E ip \in Hosts : AppConnect(ip) \/ \E len \in DataLens : AppSendto(ip, len)
     \/ \E len \in DataLens : AppSend(len)
     \/ AppListen \/ AppClose
  /\ UNCHANGED <<iface, net_iface, arp_cache, owner>>

-----------------------------------------------------------------------------
(* Properties.                                                             *)

\* A descriptor names one socket for good: two slots never carry the same
\* one, also when sockets are closed and their slots taken over, because
\* socket() never gives a number twice.
DescriptorNamesOneSocket ==
  \A i, j \in Slots : sockets[i].fd # 0 /\ sockets[i].fd = sockets[j].fd => i = j

\* socket() does not check its buffer, so that a socket may be open without
\* one; that happens only when the heap has no room for one any more, and
\* then no later socket gets one either.
BufferUnlessHeapFull ==
  \A i \in Slots : sockets[i].state # "SOCK_CLOSED" /\ ~sockets[i].buffer => left <= NET_MTU

\* A datagram carries the port that the application bound to the descriptor
\* it sends through, 0 before it has bound one, also when that descriptor
\* is closed and its slot and its number could be another's.
DatagramsFromBoundPort ==
  \A i \in DOMAIN out : out[i].kind = "udp" => out[i].port = sent.port

\* sendto and send report success for a datagram that udp_send_packet,
\* ip_send_packet or the driver drops without a word; it is on the wire if
\* the driver has eth0, which a second rtl8139_init takes from it, the heap
\* has room for the frame, and the frame, the Ethernet header included, is
\* within the MTU.
SuccessMeansSent ==
  LET frame == EthHdr + IpHdr + UdpHdr + sent.len
  IN sent.op # "none" /\ sent.ret >= 0 /\ (\A i \in DOMAIN out : out[i].kind # "udp") =>
       ~net_iface \/ frame > NET_MTU \/ left <= frame
=============================================================================
