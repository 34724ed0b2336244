------------------------------ MODULE Network -------------------------------
(***************************************************************************)
(* The protocol layers of net/: the Ethernet core (net.c), ARP (arp.c), IP *)
(* (ip.c), ICMP, UDP and TCP over the driver of netdrv.c.  Every layer     *)
(* takes a buffer from the heap, which never gets one back, and calls the  *)
(* one below; the calls are operators on the bytes the heap has left and   *)
(* the frames handed to the card.  Addresses are model values, payloads    *)
(* are their lengths.                                                      *)
(***************************************************************************)
EXTENDS Integers, Sequences

CONSTANTS
  NET_MTU,
  ArpCacheSize,        \* 32
  EthHdr, ArpPkt, IpHdr, IcmpHdr, UdpHdr, TcpHdr,   \* the sizes of the headers
  EchoData,            \* the 32 bytes a ping carries
  Hosts, OurIp,        \* the addresses of the other machines and of eth0
  Macs, Broadcast,
  EchoLens,            \* lengths of the echo requests received
  SegmentLens,         \* lengths of the data given to tcp_send_packet
  HeapLeft             \* what the heap has left when the stack comes up

NoMac == "no mac"

\* The lengths are those whose sums stay within a uint16_t; an ARP frame is
\* within the MTU.
ASSUME NetworkAssumption ==
  /\ {NET_MTU, ArpCacheSize, EthHdr, ArpPkt, IpHdr, IcmpHdr, UdpHdr, TcpHdr, EchoData, HeapLeft} \subseteq Nat
  /\ EchoLens \subseteq Nat /\ SegmentLens \subseteq Nat
  /\ \A len \in SegmentLens : EthHdr + IpHdr + TcpHdr + len < 65536
  /\ EthHdr + ArpPkt <= NET_MTU
  /\ NoMac \notin Macs /\ Broadcast \notin Macs

VARIABLES
  iface,      \* eth0 is registered
  net_iface,  \* the driver's pointer to eth0 is not NULL
  arp_cache,  \* the first arp_cache_entries entries
  left,       \* HEAP_END - heap_ptr
  out,        \* the frames the last step handed to the card
  owner       \* for the properties: the card each address last announced

nvars == <<iface, net_iface, arp_cache, left, out, owner>>

ArpFrame == EthHdr + ArpPkt

\* malloc on the bytes left: the block must end before HEAP_END.
Room(n, size) == n.left > size
Take(n, size) == [n EXCEPT !.left = @ - size]

\* The first index in a set, where a loop stops.
First(S) == CHOOSE i \in S : \A j \in S : i <= j

-----------------------------------------------------------------------------
(* Sending.                                                                *)

\* Fault: a frame of any size is taken.
SendAnySize(n, f) == [n EXCEPT !.out = Append(@, f)]

rtl8139_send(n, f) == IF ~net_iface \/ f.len > NET_MTU THEN n ELSE [n EXCEPT !.out = Append(@, f)]

net_send_packet(n, f) == IF iface THEN rtl8139_send(n, f) ELSE n

Frame(kind, dst, ip, port, len) ==
  [kind |-> kind, dst |-> dst, ip |-> ip, port |-> port, len |-> len]

arp_request(n, ip) ==
  IF iface /\ Room(n, ArpFrame)
    THEN net_send_packet(Take(n, ArpFrame), Frame("arp_request", Broadcast, ip, 0, ArpFrame))
    ELSE n

arp_send_reply(n, ip, mac) ==
  IF iface /\ Room(n, ArpFrame)
    THEN net_send_packet(Take(n, ArpFrame), Frame("arp_reply", mac, ip, 0, ArpFrame))
    ELSE n

Entries(cache, ip) == {i \in DOMAIN cache : cache[i].ip = ip}

\* Fault: a miss is not asked about.
LookupSilently(n, ip) ==
  LET found == Entries(arp_cache, ip)
  IN [mac |-> IF found # {} THEN arp_cache[First(found)].mac ELSE Broadcast, n |-> n]

\* The card to send to, and what asking for it has done to n.
arp_lookup(n, ip) ==
  LET found == Entries(arp_cache, ip)
  IN IF found # {} THEN [mac |-> arp_cache[First(found)].mac, n |-> n]
     ELSE [mac |-> Broadcast, n |-> arp_request(n, ip)]

\* Fault: a packet for an unknown address waits for the answer for ever.
IpWaits(n, kind, ip, port, len) ==
  LET total == EthHdr + IpHdr + len
  IN IF iface /\ Room(n, total)
       THEN LET to == arp_lookup(Take(n, total), ip)
            IN IF to.mac = Broadcast THEN to.n
               ELSE net_send_packet(to.n, Frame(kind, to.mac, ip, port, total))
       ELSE n

ip_send_packet(n, kind, ip, port, len) ==
  LET total == EthHdr + IpHdr + len
  IN IF iface /\ Room(n, total)
       THEN LET to == arp_lookup(Take(n, total), ip)
            IN net_send_packet(to.n, Frame(kind, to.mac, ip, port, total))
       ELSE n

icmp_send_echo_request(n, ip) ==
  LET size == IcmpHdr + EchoData
  IN IF Room(n, size) THEN ip_send_packet(Take(n, size), "icmp", ip, 0, size) ELSE n

udp_send_packet(n, ip, src_port, len) ==
  LET size == UdpHdr + len
  IN IF Room(n, size) THEN ip_send_packet(Take(n, size), "udp", ip, src_port, size) ELSE n

tcp_send_packet(n, ip, src_port, len) ==
  LET size == TcpHdr + len
  IN IF Room(n, size) THEN ip_send_packet(Take(n, size), "tcp", ip, src_port, size) ELSE n

-----------------------------------------------------------------------------
(* Receiving.                                                              *)

\* Fault: an address that is known already gets a second entry.
LearnAppends(cache, ip, mac) ==
  IF Len(cache) < ArpCacheSize THEN Append(cache, [ip |-> ip, mac |-> mac]) ELSE cache

arp_cache_learn(cache, ip, mac) ==
  LET known == Entries(cache, ip)
  IN IF known # {} THEN [cache EXCEPT ![First(known)].mac = mac]
     ELSE IF Len(cache) < ArpCacheSize THEN Append(cache, [ip |-> ip, mac |-> mac])
     ELSE cache

Fresh == [left |-> left, out |-> <<>>]
Sends(n) == left' = n.left /\ out' = n.out

\* The echo reply is built in a buffer of its own and then not sent.
icmp_send_echo_reply(n, len) == IF Room(n, len) THEN Take(n, len) ELSE n

icmp_handle_packet(n, f) ==
  IF f.len >= IcmpHdr /\ f.echo THEN icmp_send_echo_reply(n, f.len) ELSE n

\* UDP and TCP packets are looked at and dropped; so is what is not for us.
ip_handle_packet(f) ==
  /\ Sends(IF iface /\ f.target = OurIp /\ f.proto = "icmp"
             THEN icmp_handle_packet(Fresh, f) ELSE Fresh)
  /\ UNCHANGED <<arp_cache, owner>>

arp_handle_packet(f) ==
  /\ arp_cache' = IF iface THEN arp_cache_learn(arp_cache, f.ip, f.mac) ELSE arp_cache
  /\ owner' = IF iface THEN [owner EXCEPT ![f.ip] = f.mac] ELSE owner
  /\ Sends(IF iface /\ f.request /\ f.target = OurIp
             THEN arp_send_reply(Fresh, f.ip, f.mac) ELSE Fresh)

ArpFrames ==
  [type : {"arp"}, ip : Hosts, mac : Macs, request : BOOLEAN, target : {OurIp, Broadcast}]
IpFrames ==
  [type : {"ip"}, target : {OurIp, Broadcast}, proto : {"icmp", "udp"},
   echo : BOOLEAN, len : EchoLens]

net_receive_frame(f) ==
  /\ \/ f.type = "arp" /\ arp_handle_packet(f)
     \/ f.type = "ip" /\ ip_handle_packet(f)
  /\ UNCHANGED <<iface, net_iface>>

-----------------------------------------------------------------------------
(* Coming up, and the callers of the layers.                               *)

NetInit ==
  /\ iface = FALSE /\ net_iface = FALSE
  /\ arp_cache = <<>>
  /\ left = HeapLeft
  /\ out = <<>>
  /\ owner = [h \in Hosts |-> NoMac]

\* A second registration is refused: eth0 stays registered, and the driver
\* forgets it.
rtl8139_init ==
  /\ iface' = TRUE /\ net_iface' = ~iface
  /\ out' = <<>>
  /\ UNCHANGED <<arp_cache, left, owner>>

cmd_ping(ip) == Sends(icmp_send_echo_request(Fresh, ip)) /\ UNCHANGED <<iface, net_iface, arp_cache, owner>>

SendSegment(ip, len) ==
  Sends(tcp_send_packet(Fresh, ip, 0, len)) /\ UNCHANGED <<iface, net_iface, arp_cache, owner>>

NetNext ==
  \/ rtl8139_init
  \/ \E f \in ArpFrames \cup IpFrames : net_receive_frame(f)
  \/ \E ip \in Hosts : cmd_ping(ip) \/ \E len \in SegmentLens : SendSegment(ip, len)

-----------------------------------------------------------------------------
(* Properties.                                                             *)

Kinds == {"arp_request", "arp_reply", "icmp", "udp", "tcp"}

NetTypeOK ==
  /\ iface \in BOOLEAN /\ net_iface \in BOOLEAN
  /\ Len(arp_cache) <= ArpCacheSize
  /\ \A i \in DOMAIN arp_cache : arp_cache[i] \in [ip : Hosts, mac : Macs]
  /\ left \in 0 .. HeapLeft
  /\ \A i \in DOMAIN out : out[i].kind \in Kinds /\ out[i].len \in 0 .. NET_MTU
  /\ owner \in [Hosts -> Macs \cup {NoMac}]

\* However announcements arrive, repeat and change, the cache that
\* arp_cache_learn keeps has one entry for an address, with the card the
\* address announced last, and lacks an announced address only when full.
ArpCacheCurrent ==
  /\ \A i, j \in DOMAIN arp_cache : arp_cache[i].ip = arp_cache[j].ip => i = j
  /\ \A i \in DOMAIN arp_cache : arp_cache[i].mac = owner[arp_cache[i].ip]
  /\ \A h \in Hosts :
       owner[h] # NoMac /\ Len(arp_cache) < ArpCacheSize => Entries(arp_cache, h) # {}

\* What ip_send_packet puts on the wire reaches its owner: a packet for a
\* known address goes to the card that announced it last, and one that is
\* broadcast, as arp_lookup does on a miss, follows the question that will
\* make the address known, unless the heap had no room for that question.
PacketsFindTheirOwner ==
  \A i \in DOMAIN out :
    out[i].kind \in {"icmp", "udp", "tcp"} =>
      IF Entries(arp_cache, out[i].ip) # {}
        THEN out[i].dst = owner[out[i].ip]
        ELSE /\ out[i].dst = Broadcast
             /\ \/ i > 1 /\ out[i - 1].kind = "arp_request" /\ out[i - 1].ip = out[i].ip
                \/ left <= ArpFrame
=============================================================================
