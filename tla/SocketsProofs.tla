---------------------------- MODULE SocketsProofs ---------------------------
(***************************************************************************)
(* Proofs about the calls on the socket table, for every size of the table *)
(* and of the heap: the invariant each call keeps, and what it leaves in   *)
(* every slot. Then about the layers below the sockets: what a call of the *)
(* driver, ARP, IP, UDP and TCP leaves of the heap and what it sends; and  *)
(* the invariant of the stack under a packet that arrives.                 *)
(***************************************************************************)
EXTENDS Services, WellFoundedInduction, TLAPS

-----------------------------------------------------------------------------
(* The calls on the table.                                                 *)

Ports == AppPorts \cup {0, HTTP_PORT, DNS_PORT, DHCP_SERVER_PORT}
Sock == [fd : Nat, type : Types \cup {"none"}, state : States,
         local_port : Ports, remote : Hosts \cup {OurIp}, buffer : BOOLEAN]

\* What the calls are made on and return.
Tables == [table : [Slots -> Sock], next_fd : Nat, left : Nat, ret : Int]

\* The invariant of the table: numbers below next_fd, no number in two
\* slots, and no open socket without buffer while the heap has room for one.
Good(s) ==
  /\ s \in Tables
  /\ s.left <= HeapLeft
  /\ \A i \in Slots : s.table[i].fd < s.next_fd
  /\ \A i, j \in Slots : s.table[i].fd # 0 /\ s.table[i].fd = s.table[j].fd => i = j
  /\ \A i \in Slots : s.table[i].state # "SOCK_CLOSED" /\ ~s.table[i].buffer => s.left <= NET_MTU

\* A loop that looks for the first of some numbers finds it.
LEMMA FirstIn ==
  ASSUME NEW S, S \subseteq Nat, S # {}
  PROVE  First(S) \in S /\ \A j \in S : First(S) <= j
<1>1. \E x \in S : \A y \in S : ~ (<<y, x>> \in OpToRel(<, Nat))
  BY NatLessThanWellFounded, WFMin, Zenon
<1>2. PICK x \in S : \A y \in S : ~ (<<y, x>> \in OpToRel(<, Nat))
  BY <1>1
<1>3. \A y \in S : x <= y
  <2>1. TAKE y \in S
  <2>2. ~(y < x)
    BY <1>2, <2>1, Zenon DEF OpToRel
  <2> QED BY <2>2
<1> QED BY <1>3, Zenon DEF First

\* Changing the entry of a slot other than its number, without opening it
\* or taking its buffer away, keeps the table good.
LEMMA ReplaceGood ==
  ASSUME NEW s, Good(s), NEW i \in Slots, NEW k \in Sock, NEW r \in Int,
         k.fd = s.table[i].fd,
         k.state # "SOCK_CLOSED" /\ ~k.buffer => s.table[i].state # "SOCK_CLOSED" /\ ~s.table[i].buffer
  PROVE  Good([table |-> [s.table EXCEPT ![i] = k], next_fd |-> s.next_fd, left |-> s.left, ret |-> r])
<1> DEFINE t == [table |-> [s.table EXCEPT ![i] = k], next_fd |-> s.next_fd, left |-> s.left, ret |-> r]
<1>1. s.table \in [Slots -> Sock] /\ s.next_fd \in Nat /\ s.left \in Nat
  BY DEF Good, Tables
<1>2. t \in Tables
  BY <1>1 DEF Tables
<1>3. t.next_fd = s.next_fd /\ t.left = s.left
  OBVIOUS
<1>4. \A j \in Slots : t.table[j] = IF j = i THEN k ELSE s.table[j]
  BY <1>1
<1>5. \A j \in Slots : t.table[j].fd = s.table[j].fd
  BY <1>4
<1> HIDE DEF t
<1>6. Good(t)
  BY <1>2, <1>3, <1>4, <1>5 DEF Good
<1> QED BY <1>6 DEF t

\* A call that fails changes the value returned only.
LEMMA FailGood ==
  ASSUME NEW s, Good(s), NEW r \in Int
  PROVE  Good([s EXCEPT !.ret = r])
<1> DEFINE t == [s EXCEPT !.ret = r]
<1>1. t \in Tables /\ t.table = s.table /\ t.next_fd = s.next_fd /\ t.left = s.left
  BY DEF Good, Tables
<1> HIDE DEF t
<1>2. Good(t) BY <1>1 DEF Good
<1> QED BY <1>2 DEF t

\* A heap with less room leaves a good table good.
LEMMA LessHeapGood ==
  ASSUME NEW s, Good(s), NEW t \in Tables, t.table = s.table, t.next_fd = s.next_fd, t.left <= s.left
  PROVE  Good(t)
<1>1. t.left \in Nat /\ s.left \in Nat /\ HeapLeft \in Nat /\ NET_MTU \in Nat
  BY NetworkAssumption DEF Good, Tables
<1>2. t.left <= HeapLeft
  BY <1>1 DEF Good
<1>3. s.left <= NET_MTU => t.left <= NET_MTU
  BY <1>1
<1> QED BY <1>2, <1>3 DEF Good

\* The slots the loops look through are numbers.
LEMMA SlotsNat == Slots \subseteq Nat
  BY SocketsAssumption DEF Slots

\* socket() takes a free slot, a new number, and a buffer if there is room.
LEMMA SocketGood ==
  ASSUME NEW s, Good(s), NEW type \in Types
  PROVE  Good(socket(s, type))
<1>1. CASE Free(s) = {}
  BY <1>1, FailGood DEF socket
<1>2. CASE Free(s) # {}
  <2> DEFINE i == First(Free(s))
             k == [s.table[i] EXCEPT !.type = type, !.fd = s.next_fd, !.state = "SOCK_CREATED",
                                     !.local_port = 0, !.buffer = Room(s, NET_MTU)]
             l == IF Room(s, NET_MTU) THEN s.left - NET_MTU ELSE s.left
             t == [table |-> [s.table EXCEPT ![i] = k],
                   next_fd |-> s.next_fd + 1, ret |-> s.next_fd, left |-> l]
  <2>1. i \in Slots
    BY <1>2, FirstIn, SlotsNat, Zenon DEF Free
  <2>2. s.table \in [Slots -> Sock] /\ s.next_fd \in Nat /\ s.left \in Nat /\ NET_MTU \in Nat
    BY NetworkAssumption DEF Good, Tables
  <2>3. k \in Sock /\ k.fd = s.next_fd /\ k.buffer = Room(s, NET_MTU)
    <3>1. Room(s, NET_MTU) \in BOOLEAN /\ 0 \in Ports /\ "SOCK_CREATED" \in States
      BY DEF Room, Ports, States
    <3>2. s.table[i] \in Sock
      BY <2>1, <2>2
    <3> QED BY <2>2, <3>1, <3>2, Zenon DEF Sock
  <2>4. l \in Nat /\ l <= s.left /\ (~Room(s, NET_MTU) => l <= NET_MTU)
    BY <2>2 DEF Room
  <2>5. socket(s, type) = t
    BY <1>2 DEF socket
  <2> HIDE DEF i, k, l
  <2>6. /\ t \in Tables /\ t.next_fd = s.next_fd + 1 /\ t.left = l
        /\ \A j \in Slots : t.table[j] = IF j = i THEN k ELSE s.table[j]
    BY <2>1, <2>2, <2>3, <2>4 DEF Tables
  <2> HIDE DEF t
  <2>7. \A j \in Slots : s.table[j].fd < s.next_fd /\ s.table[j].fd \in Nat
    BY <2>2 DEF Good, Sock
  <2>8. Good(t)
    <3>1. \A j \in Slots : t.table[j].fd < t.next_fd
      BY <2>2, <2>3, <2>6, <2>7
    <3>2. ASSUME NEW a \in Slots, NEW b \in Slots, t.table[a].fd # 0, t.table[a].fd = t.table[b].fd
          PROVE  a = b
      BY <2>2, <2>3, <2>6, <2>7, <3>2 DEF Good
    <3>3. ASSUME NEW a \in Slots, t.table[a].state # "SOCK_CLOSED", ~t.table[a].buffer
          PROVE  t.left <= NET_MTU
      <4>1. CASE a = i
        BY <2>3, <2>4, <2>6, <3>3, <4>1
      <4>2. CASE a # i
        <5>1. s.left <= NET_MTU
          BY <2>6, <3>3, <4>2 DEF Good
        <5> QED BY <2>2, <2>4, <2>6, <5>1
      <4> QED BY <4>1, <4>2
    <3>4. t.left <= HeapLeft
      BY <2>2, <2>4, <2>6, NetworkAssumption DEF Good
    <3> QED BY <2>6, <3>1, <3>2, <3>3, <3>4 DEF Good
  <2> QED BY <2>5, <2>8
<1> QED BY <1>1, <1>2

\* The calls that look for a socket and change it.
LEMMA BindGood ==
  ASSUME NEW s, Good(s), NEW fd, NEW port \in Ports
  PROVE  Good(bind(s, fd, port))
<1>1. CASE Open(s, fd) = {}
  BY <1>1, FailGood DEF bind, Update
<1>2. CASE Open(s, fd) # {}
  <2> DEFINE i == First(Open(s, fd))
             k == [s.table[i] EXCEPT !.local_port = port]
  <2>1. i \in Slots
    BY <1>2, FirstIn, SlotsNat, Zenon DEF Open
  <2>2. s.table[i] \in Sock
    BY <2>1 DEF Good, Tables
  <2>3. k \in Sock /\ k.fd = s.table[i].fd /\ k.state = s.table[i].state /\ k.buffer = s.table[i].buffer
    BY <2>2 DEF Sock
  <2>4. bind(s, fd, port) = [table |-> [s.table EXCEPT ![i] = k], next_fd |-> s.next_fd, left |-> s.left, ret |-> 0]
    BY <1>2 DEF bind, Update
  <2> HIDE DEF i, k
  <2> QED BY <2>1, <2>3, <2>4, ReplaceGood
<1> QED BY <1>1, <1>2

\* listen keeps the invariant of the table.
LEMMA ListenGood ==
  ASSUME NEW s, Good(s), NEW fd
  PROVE  Good(listen(s, fd))
<1> DEFINE found == InState(s, fd, "SOCK_CREATED")
<1>1. CASE found = {}
  BY <1>1, FailGood DEF listen, Update
<1>2. CASE found # {}
  <2> DEFINE i == First(found)
             k == [s.table[i] EXCEPT !.state = "SOCK_LISTENING"]
  <2>1. i \in Slots /\ s.table[i].state = "SOCK_CREATED"
    <3>1. found \subseteq Nat /\ found \subseteq Slots
      BY SlotsNat, Zenon DEF InState
    <3>2. i \in found
      BY <1>2, <3>1, FirstIn
    <3> QED BY <3>2 DEF InState
  <2>2. s.table[i] \in Sock
    BY <2>1 DEF Good, Tables
  <2>3. k \in Sock /\ k.fd = s.table[i].fd /\ k.buffer = s.table[i].buffer
    BY <2>2 DEF Sock, States
  <2>4. listen(s, fd) = [table |-> [s.table EXCEPT ![i] = k], next_fd |-> s.next_fd, left |-> s.left, ret |-> 0]
    BY <1>2 DEF listen, Update
  <2> HIDE DEF i, k
  <2> QED BY <2>1, <2>3, <2>4, ReplaceGood
<1> QED BY <1>1, <1>2

\* connect keeps the invariant of the table.
LEMMA ConnectGood ==
  ASSUME NEW s, Good(s), NEW fd, NEW ip \in Hosts
  PROVE  Good(connect(s, fd, ip))
<1> DEFINE found == InState(s, fd, "SOCK_CREATED")
<1>1. CASE found = {}
  BY <1>1, FailGood DEF connect, Update
<1>2. CASE found # {}
  <2> DEFINE i == First(found)
             state == IF s.table[i].type = "SOCK_DGRAM" THEN "SOCK_CONNECTED" ELSE "SOCK_CONNECTING"
             k == [s.table[i] EXCEPT !.remote = ip, !.state = state]
  <2>1. i \in Slots /\ s.table[i].state = "SOCK_CREATED"
    <3>1. found \subseteq Nat /\ found \subseteq Slots
      BY SlotsNat, Zenon DEF InState
    <3>2. i \in found
      BY <1>2, <3>1, FirstIn
    <3> QED BY <3>2 DEF InState
  <2>2. s.table[i] \in Sock
    BY <2>1 DEF Good, Tables
  <2>3. k \in Sock /\ k.fd = s.table[i].fd /\ k.buffer = s.table[i].buffer
    BY <2>2, Zenon DEF Sock, States
  <2>4. connect(s, fd, ip) = [table |-> [s.table EXCEPT ![i] = k], next_fd |-> s.next_fd, left |-> s.left, ret |-> 0]
    BY <1>2 DEF connect, Update
  <2> HIDE DEF i, k
  <2> QED BY <2>1, <2>3, <2>4, ReplaceGood
<1> QED BY <1>1, <1>2

\* close keeps the invariant of the table.
LEMMA CloseGood ==
  ASSUME NEW s, Good(s), NEW fd
  PROVE  Good(close(s, fd))
<1>1. CASE Open(s, fd) = {}
  BY <1>1, FailGood DEF close, Update
<1>2. CASE Open(s, fd) # {}
  <2> DEFINE i == First(Open(s, fd))
             k == [s.table[i] EXCEPT !.state = "SOCK_CLOSED"]
  <2>1. i \in Slots
    BY <1>2, FirstIn, SlotsNat, Zenon DEF Open
  <2>2. s.table[i] \in Sock
    BY <2>1 DEF Good, Tables
  <2>3. k \in Sock /\ k.fd = s.table[i].fd /\ k.state = "SOCK_CLOSED"
    BY <2>2 DEF Sock, States
  <2>4. close(s, fd) = [table |-> [s.table EXCEPT ![i] = k], next_fd |-> s.next_fd, left |-> s.left, ret |-> 0]
    BY <1>2 DEF close, Update
  <2> HIDE DEF i, k
  <2> QED BY <2>1, <2>3, <2>4, ReplaceGood
<1> QED BY <1>1, <1>2

\* The calls that start a server, in whichever way they end.
LEMMA OpenedGood ==
  ASSUME Good(Table), NEW name \in Servers, NEW type \in Types
  PROVE  Good(Opened(name, type))
<1> DEFINE s == socket(Table, type)
           b == bind(s, s.ret, Port[name])
           l == IF type = "SOCK_STREAM" THEN listen(b, s.ret) ELSE b
<1>1. Good(s)
  BY SocketGood
<1>2. Port[name] \in Ports
  BY DEF Servers, Port, Ports
<1>3. Good(b)
  <2> HIDE DEF s
  <2> QED BY <1>1, <1>2, BindGood
<1>4. Good(l)
  <2> HIDE DEF s, b
  <2> QED BY <1>3, ListenGood
<1>5. s.ret \in Int
  BY <1>1 DEF Good, Tables
<1>6. Opened(name, type) =
        IF s.ret < 0 THEN s
        ELSE IF b.ret < 0 THEN [close(b, s.ret) EXCEPT !.ret = -1]
        ELSE IF l.ret < 0 THEN [close(l, s.ret) EXCEPT !.ret = -1]
        ELSE [l EXCEPT !.ret = s.ret]
  BY DEF Opened
<1> HIDE DEF s, b, l
<1>7. Good(close(b, s.ret)) /\ Good(close(l, s.ret))
  BY <1>3, <1>4, CloseGood
<1>8. Good([close(b, s.ret) EXCEPT !.ret = -1]) /\ Good([close(l, s.ret) EXCEPT !.ret = -1])
  BY <1>7, FailGood
<1>9. Good([l EXCEPT !.ret = s.ret])
  BY <1>4, <1>5, FailGood
<1> QED BY <1>1, <1>6, <1>8, <1>9

-----------------------------------------------------------------------------
(* What the calls leave, slot by slot.                                     *)

\* A call that changes the one slot it finds.
LEMMA OneSlot ==
  ASSUME NEW table, NEW S, table \in [Slots -> S], NEW found, found \subseteq Slots, found # {},
         \A i, j \in found : i = j, NEW k
  PROVE  \A i \in Slots : [table EXCEPT ![First(found)] = k][i] = IF i \in found THEN k ELSE table[i]
<1>1. First(found) \in found
  <2>1. found \subseteq Nat
    BY SlotsNat
  <2> QED BY <2>1, FirstIn, Zenon
<1>2. \A i \in Slots : i \in found <=> i = First(found)
  BY <1>1
<1> HIDE DEF First
<1> QED BY <1>1, <1>2

\* The sockets of the table, which TableOK types.
LEMMA GoodTable ==
  ASSUME NEW s, Good(s)
  PROVE  /\ s.table \in [Slots -> Sock] /\ s.next_fd \in Nat /\ s.left \in Nat
         /\ \A i \in Slots : s.table[i] \in Sock /\ s.table[i].fd \in Nat /\ s.table[i].fd < s.next_fd
<1>1. s.table \in [Slots -> Sock] /\ s.next_fd \in Nat /\ s.left \in Nat
  BY DEF Good, Tables
<1>2. \A i \in Slots : s.table[i] \in Sock
  BY <1>1
<1>3. \A i \in Slots : s.table[i].fd \in Nat
  BY <1>2 DEF Sock
<1> QED BY <1>1, <1>2, <1>3 DEF Good

\* A descriptor finds one slot at most.
LEMMA OneOpen ==
  ASSUME NEW s, Good(s), NEW fd, fd # 0, NEW found \in SUBSET {i \in Slots : s.table[i].fd = fd}
  PROVE  \A i, j \in found : i = j
  BY DEF Good

\* A call that only returns a value leaves the table.
LEMMA SameTable ==
  ASSUME NEW s, Good(s), NEW r
  PROVE  LET t == [s EXCEPT !.ret = r] IN t.table = s.table /\ t.next_fd = s.next_fd /\ t.ret = r
  BY DEF Good, Tables

\* bind changes the port of the open socket of the descriptor.
LEMMA BindSlots ==
  ASSUME NEW s, Good(s), NEW fd, fd # 0, NEW port
  PROVE  LET t == bind(s, fd, port)
         IN /\ t.next_fd = s.next_fd
            /\ t.ret = IF Open(s, fd) = {} THEN -1 ELSE 0
            /\ \A i \in Slots :
                 t.table[i] = IF i \in Open(s, fd) THEN [s.table[i] EXCEPT !.local_port = port] ELSE s.table[i]
<1> DEFINE found == Open(s, fd)
<1>1. CASE found = {}
  BY <1>1, SameTable DEF bind, Update
<1>2. CASE found # {}
  <2> DEFINE k == [s.table[First(found)] EXCEPT !.local_port = port]
  <2>1. found \subseteq Slots /\ \A i, j \in found : i = j
    <3>1. found \in SUBSET {i \in Slots : s.table[i].fd = fd}
      BY DEF Open
    <3> HIDE DEF found
    <3> QED BY <3>1, OneOpen
  <2>2. First(found) \in found
    BY <1>2, <2>1, SlotsNat, FirstIn, Zenon
  <2>3. bind(s, fd, port) = [table |-> [s.table EXCEPT ![First(found)] = k],
                             next_fd |-> s.next_fd, left |-> s.left, ret |-> 0]
    BY <1>2 DEF bind, Update
  <2>4. \A i \in found : [s.table[i] EXCEPT !.local_port = port] = k
    BY <2>1, <2>2
  <2>5. s.table \in [Slots -> Sock]
    BY GoodTable
  <2> HIDE DEF found, k
  <2>6. \A i \in Slots : [s.table EXCEPT ![First(found)] = k][i] = IF i \in found THEN k ELSE s.table[i]
    BY <1>2, <2>1, <2>5, OneSlot, Zenon
  <2> QED BY <1>2, <2>3, <2>4, <2>6 DEF found
<1> QED BY <1>1, <1>2

\* listen and connect change the socket of the descriptor when it is new,
\* close the open one: fd, type and port stay.
LEMMA ListenSlots ==
  ASSUME NEW s, Good(s), NEW fd, fd # 0
  PROVE  LET t == listen(s, fd)
             found == InState(s, fd, "SOCK_CREATED")
         IN /\ t.next_fd = s.next_fd
            /\ t.ret = IF found = {} THEN -1 ELSE 0
            /\ \A i \in Slots :
                 t.table[i] = IF i \in found THEN [s.table[i] EXCEPT !.state = "SOCK_LISTENING"] ELSE s.table[i]
<1> DEFINE found == InState(s, fd, "SOCK_CREATED")
<1>1. CASE found = {}
  BY <1>1, SameTable DEF listen, Update
<1>2. CASE found # {}
  <2> DEFINE k == [s.table[First(found)] EXCEPT !.state = "SOCK_LISTENING"]
  <2>1. found \subseteq Slots /\ \A i, j \in found : i = j
    <3>1. found \in SUBSET {i \in Slots : s.table[i].fd = fd}
      BY DEF InState
    <3> HIDE DEF found
    <3> QED BY <3>1, OneOpen
  <2>2. First(found) \in found
    BY <1>2, <2>1, SlotsNat, FirstIn, Zenon
  <2>3. listen(s, fd) = [table |-> [s.table EXCEPT ![First(found)] = k],
                         next_fd |-> s.next_fd, left |-> s.left, ret |-> 0]
    BY <1>2 DEF listen, Update
  <2>4. \A i \in found : [s.table[i] EXCEPT !.state = "SOCK_LISTENING"] = k
    BY <2>1, <2>2
  <2>5. s.table \in [Slots -> Sock]
    BY GoodTable
  <2> HIDE DEF found, k
  <2>6. \A i \in Slots : [s.table EXCEPT ![First(found)] = k][i] = IF i \in found THEN k ELSE s.table[i]
    BY <1>2, <2>1, <2>5, OneSlot, Zenon
  <2> QED BY <1>2, <2>3, <2>4, <2>6 DEF found
<1> QED BY <1>1, <1>2

\* close closes the open slots with the number it is given, and no other slot.
LEMMA CloseSlots ==
  ASSUME NEW s, Good(s), NEW fd, fd # 0
  PROVE  LET t == close(s, fd)
             found == Open(s, fd)
         IN /\ t.next_fd = s.next_fd
            /\ t.ret = IF found = {} THEN -1 ELSE 0
            /\ \A i \in Slots :
                 t.table[i] = IF i \in found THEN [s.table[i] EXCEPT !.state = "SOCK_CLOSED"] ELSE s.table[i]
<1> DEFINE found == Open(s, fd)
<1>1. CASE found = {}
  BY <1>1, SameTable DEF close, Update
<1>2. CASE found # {}
  <2> DEFINE k == [s.table[First(found)] EXCEPT !.state = "SOCK_CLOSED"]
  <2>1. found \subseteq Slots /\ \A i, j \in found : i = j
    <3>1. found \in SUBSET {i \in Slots : s.table[i].fd = fd}
      BY DEF Open
    <3> HIDE DEF found
    <3> QED BY <3>1, OneOpen
  <2>2. First(found) \in found
    BY <1>2, <2>1, SlotsNat, FirstIn, Zenon
  <2>3. close(s, fd) = [table |-> [s.table EXCEPT ![First(found)] = k],
                         next_fd |-> s.next_fd, left |-> s.left, ret |-> 0]
    BY <1>2 DEF close, Update
  <2>4. \A i \in found : [s.table[i] EXCEPT !.state = "SOCK_CLOSED"] = k
    BY <2>1, <2>2
  <2>5. s.table \in [Slots -> Sock]
    BY GoodTable
  <2> HIDE DEF found, k
  <2>6. \A i \in Slots : [s.table EXCEPT ![First(found)] = k][i] = IF i \in found THEN k ELSE s.table[i]
    BY <1>2, <2>1, <2>5, OneSlot, Zenon
  <2> QED BY <1>2, <2>3, <2>4, <2>6 DEF found
<1> QED BY <1>1, <1>2

\* What connect makes of a socket.
Connected(k, ip) ==
  [k EXCEPT !.remote = ip,
            !.state = IF k.type = "SOCK_DGRAM" THEN "SOCK_CONNECTED" ELSE "SOCK_CONNECTING"]

\* connect connects the created slots with the number it is given, and no other.
LEMMA ConnectSlots ==
  ASSUME NEW s, Good(s), NEW fd, fd # 0, NEW ip
  PROVE  LET t == connect(s, fd, ip)
             found == InState(s, fd, "SOCK_CREATED")
         IN /\ t.next_fd = s.next_fd
            /\ t.ret = IF found = {} THEN -1 ELSE 0
            /\ \A i \in Slots :
                 t.table[i] = IF i \in found THEN Connected(s.table[i], ip) ELSE s.table[i]
<1> DEFINE found == InState(s, fd, "SOCK_CREATED")
<1>1. CASE found = {}
  <2>1. connect(s, fd, ip) = [s EXCEPT !.ret = -1]
    BY <1>1 DEF connect, Update
  <2> QED BY <1>1, <2>1, SameTable
<1>2. CASE found # {}
  <2> DEFINE k == Connected(s.table[First(found)], ip)
  <2>1. found \subseteq Slots /\ \A i, j \in found : i = j
    <3>1. found \in SUBSET {i \in Slots : s.table[i].fd = fd}
      BY DEF InState
    <3> HIDE DEF found
    <3> QED BY <3>1, OneOpen
  <2>2. First(found) \in found
    BY <1>2, <2>1, SlotsNat, FirstIn, Zenon
  <2>3. connect(s, fd, ip) = [table |-> [s.table EXCEPT ![First(found)] = k],
                              next_fd |-> s.next_fd, left |-> s.left, ret |-> 0]
    BY <1>2 DEF connect, Update, Connected
  <2>4. \A i \in found : Connected(s.table[i], ip) = k
    BY <2>1, <2>2
  <2>5. s.table \in [Slots -> Sock]
    BY GoodTable
  <2> HIDE DEF found, k
  <2>6. \A i \in Slots : [s.table EXCEPT ![First(found)] = k][i] = IF i \in found THEN k ELSE s.table[i]
    BY <1>2, <2>1, <2>5, OneSlot, Zenon
  <2> QED BY <1>2, <2>3, <2>4, <2>6 DEF found
<1> QED BY <1>1, <1>2

\* socket() takes a closed slot for a socket of its own, or fails.
LEMMA SocketSlots ==
  ASSUME NEW s, Good(s), NEW type \in Types
  PROVE  LET t == socket(s, type)
         IN \/ t.table = s.table /\ t.next_fd = s.next_fd /\ t.ret = -1
            \/ /\ t.next_fd = s.next_fd + 1 /\ t.ret = s.next_fd
               /\ \E i \in Slots :
                    /\ s.table[i].state = "SOCK_CLOSED"
                    /\ t.table[i].fd = s.next_fd /\ t.table[i].type = type
                    /\ t.table[i].state = "SOCK_CREATED" /\ t.table[i].local_port = 0
                    /\ \A j \in Slots : j # i => t.table[j] = s.table[j]
<1>1. CASE Free(s) = {}
  BY <1>1, SameTable DEF socket
<1>2. CASE Free(s) # {}
  <2> DEFINE i == First(Free(s))
             k == [s.table[i] EXCEPT !.type = type, !.fd = s.next_fd, !.state = "SOCK_CREATED",
                                     !.local_port = 0, !.buffer = Room(s, NET_MTU)]
  <2>1. i \in Slots /\ s.table[i].state = "SOCK_CLOSED"
    <3>1. Free(s) \subseteq Nat
      BY SlotsNat, Zenon DEF Free
    <3>2. i \in Free(s)
      BY <1>2, <3>1, FirstIn
    <3> QED BY <3>2 DEF Free
  <2>2. s.table \in [Slots -> Sock] /\ s.table[i] \in Sock
    BY <2>1, GoodTable
  <2>3. k.fd = s.next_fd /\ k.type = type /\ k.state = "SOCK_CREATED" /\ k.local_port = 0
    BY <2>2 DEF Sock
  <2>4. /\ socket(s, type).table = [s.table EXCEPT ![i] = k]
        /\ socket(s, type).next_fd = s.next_fd + 1 /\ socket(s, type).ret = s.next_fd
    BY <1>2 DEF socket
  <2> HIDE DEF i, k
  <2>5. socket(s, type).table[i] = k /\ \A j \in Slots : j # i => socket(s, type).table[j] = s.table[j]
    BY <2>1, <2>2, <2>4
  <2> QED BY <2>1, <2>3, <2>4, <2>5
<1> QED BY <1>1, <1>2

-----------------------------------------------------------------------------
(* The calls of a server's start and of a download.                        *)

\* What the calls leave of one table: nothing new, or a slot that was closed
\* with a new number in it.
Taken(t, s, i) ==
  /\ t.next_fd = s.next_fd + 1
  /\ s.table[i].state = "SOCK_CLOSED" /\ t.table[i].fd = s.next_fd
  /\ \A j \in Slots : j # i => t.table[j] = s.table[j]

\* The start of a server takes one slot, bound to its port and listening when it is
\* of TCP, or changes nothing and fails.
LEMMA OpenedSlots ==
  ASSUME Good(Table), 0 < next_fd, NEW name \in Servers, NEW type \in Types
  PROVE  LET t == Opened(name, type)
         IN \/ t.table = sockets /\ t.next_fd = next_fd /\ t.ret = -1
            \/ /\ t.ret = next_fd
               /\ \E i \in Slots :
                    /\ Taken(t, Table, i)
                    /\ t.table[i].type = type /\ t.table[i].local_port = Port[name]
                    /\ t.table[i].state = IF type = "SOCK_STREAM" THEN "SOCK_LISTENING" ELSE "SOCK_CREATED"
<1> DEFINE s == socket(Table, type)
           b == bind(s, s.ret, Port[name])
           l == IF type = "SOCK_STREAM" THEN listen(b, s.ret) ELSE b
<1>1. Good(s) /\ Table.table = sockets /\ Table.next_fd = next_fd /\ next_fd \in Nat
  BY SocketGood, GoodTable DEF Table
<1>2. Opened(name, type) =
        IF s.ret < 0 THEN s
        ELSE IF b.ret < 0 THEN [close(b, s.ret) EXCEPT !.ret = -1]
        ELSE IF l.ret < 0 THEN [close(l, s.ret) EXCEPT !.ret = -1]
        ELSE [l EXCEPT !.ret = s.ret]
  BY DEF Opened
<1>3. \/ s.table = Table.table /\ s.next_fd = Table.next_fd /\ s.ret = -1
      \/ /\ s.next_fd = Table.next_fd + 1 /\ s.ret = Table.next_fd
         /\ \E i \in Slots :
              /\ Table.table[i].state = "SOCK_CLOSED"
              /\ s.table[i].fd = Table.next_fd /\ s.table[i].type = type
              /\ s.table[i].state = "SOCK_CREATED" /\ s.table[i].local_port = 0
              /\ \A j \in Slots : j # i => s.table[j] = Table.table[j]
  BY SocketSlots
<1> HIDE DEF s
<1>4. CASE s.ret = -1
  <2>1. s.table = sockets /\ s.next_fd = next_fd
    BY <1>1, <1>3, <1>4
  <2>2. Opened(name, type) = s
    BY <1>2, <1>4
  <2> QED BY <1>4, <2>1, <2>2
<1>5. CASE s.ret # -1
  <2>1. s.next_fd = next_fd + 1 /\ s.ret = next_fd /\ s.ret # 0 /\ ~(s.ret < 0)
    BY <1>1, <1>3, <1>5
  <2>2. PICK i \in Slots :
          /\ Table.table[i].state = "SOCK_CLOSED"
          /\ s.table[i].fd = next_fd /\ s.table[i].type = type
          /\ s.table[i].state = "SOCK_CREATED" /\ s.table[i].local_port = 0
          /\ \A j \in Slots : j # i => s.table[j] = Table.table[j]
    BY <1>1, <1>3, <1>5
  <2>3. \A j \in Slots : s.table[j] \in Sock /\ (j # i => s.table[j].fd # next_fd)
    <3>1. \A j \in Slots : s.table[j] \in Sock /\ Table.table[j].fd \in Nat /\ Table.table[j].fd < next_fd
      BY <1>1, GoodTable
    <3> QED BY <1>1, <2>2, <3>1
  <2>4. Open(s, s.ret) = {i}
    BY <2>1, <2>2, <2>3 DEF Open
  <2>5. /\ b.next_fd = s.next_fd /\ b.ret = 0
        /\ \A j \in Slots : b.table[j] = IF j = i THEN [s.table[i] EXCEPT !.local_port = Port[name]] ELSE s.table[j]
    <3>1. /\ b.next_fd = s.next_fd /\ b.ret = IF Open(s, s.ret) = {} THEN -1 ELSE 0
          /\ \A j \in Slots : b.table[j] = IF j \in Open(s, s.ret) THEN [s.table[j] EXCEPT !.local_port = Port[name]]
                                          ELSE s.table[j]
      BY <1>1, <2>1, BindSlots
    <3> HIDE DEF b
    <3> QED BY <2>4, <3>1, Zenon
  <2>6. Good(b)
    <3>1. Port[name] \in Ports
      BY DEF Servers, Port, Ports
    <3> QED BY <1>1, <3>1, BindGood
  <2> HIDE DEF b
  <2>7. /\ b.table[i].fd = next_fd /\ b.table[i].type = type /\ b.table[i].state = "SOCK_CREATED"
        /\ b.table[i].local_port = Port[name] /\ b.table[i] \in Sock
    <3>1. b.table[i] = [s.table[i] EXCEPT !.local_port = Port[name]]
      BY <2>5
    <3>2. s.table[i] \in Sock /\ b.table[i] \in Sock
      BY <2>3, <2>6, GoodTable
    <3> QED BY <2>2, <3>1, <3>2 DEF Sock
  <2>8. /\ l.next_fd = s.next_fd /\ l.ret = 0
        /\ \A j \in Slots : j # i => l.table[j] = s.table[j]
        /\ l.table[i].fd = next_fd /\ l.table[i].type = type /\ l.table[i].local_port = Port[name]
        /\ l.table[i].state = IF type = "SOCK_STREAM" THEN "SOCK_LISTENING" ELSE "SOCK_CREATED"
    <3>1. CASE type = "SOCK_STREAM"
      <4>1. InState(b, s.ret, "SOCK_CREATED") = {i}
        BY <2>1, <2>3, <2>5, <2>7 DEF InState
      <4>2. l = listen(b, s.ret)
        BY <3>1
      <4>3. /\ l.next_fd = b.next_fd /\ l.ret = 0
            /\ \A j \in Slots : l.table[j] = IF j = i THEN [b.table[i] EXCEPT !.state = "SOCK_LISTENING"] ELSE b.table[j]
        BY <2>1, <2>6, <4>1, <4>2, ListenSlots, Zenon
      <4> HIDE DEF l
      <4>4. l.table[i] = [b.table[i] EXCEPT !.state = "SOCK_LISTENING"]
        BY <4>3
      <4>5. /\ l.table[i].fd = next_fd /\ l.table[i].type = type /\ l.table[i].local_port = Port[name]
            /\ l.table[i].state = "SOCK_LISTENING"
        BY <2>7, <4>4 DEF Sock
      <4> QED BY <2>5, <3>1, <4>3, <4>5
    <3>2. CASE type # "SOCK_STREAM"
      BY <2>5, <2>7, <3>2
    <3> QED BY <3>1, <3>2
  <2>9. Good(l)
    BY <2>6, ListenGood
  <2>10. Opened(name, type) = [l EXCEPT !.ret = s.ret]
    BY <1>2, <2>1, <2>5, <2>8
  <2> HIDE DEF l
  <2>11. LET t == Opened(name, type) IN t.table = l.table /\ t.next_fd = l.next_fd /\ t.ret = s.ret
    BY <2>9, <2>10, SameTable
  <2>12. Taken(Opened(name, type), Table, i)
    BY <1>1, <2>1, <2>2, <2>8, <2>11 DEF Taken
  <2> QED BY <2>1, <2>8, <2>11, <2>12
<1> QED BY <1>4, <1>5

\* A download leaves the slot it took closed.
LEMMA GetSlots ==
  ASSUME Good(Table), 0 < next_fd, NEW ip \in Hosts
  PROVE  LET s == socket(Table, "SOCK_STREAM")
             t == IF s.ret < 0 THEN s ELSE close(connect(s, s.ret, ip), s.ret)
         IN \/ t.table = sockets /\ t.next_fd = next_fd
            \/ \E i \in Slots : Taken(t, Table, i) /\ t.table[i].state = "SOCK_CLOSED"
<1> DEFINE s == socket(Table, "SOCK_STREAM")
           c == connect(s, s.ret, ip)
           t == IF s.ret < 0 THEN s ELSE close(c, s.ret)
<1>1. Good(s) /\ Table.table = sockets /\ Table.next_fd = next_fd /\ next_fd \in Nat
  BY SocketGood, GoodTable DEF Table, Types
<1>2. \/ s.table = Table.table /\ s.next_fd = Table.next_fd /\ s.ret = -1
      \/ /\ s.next_fd = Table.next_fd + 1 /\ s.ret = Table.next_fd
         /\ \E i \in Slots :
              /\ Table.table[i].state = "SOCK_CLOSED"
              /\ s.table[i].fd = Table.next_fd /\ s.table[i].type = "SOCK_STREAM"
              /\ s.table[i].state = "SOCK_CREATED" /\ s.table[i].local_port = 0
              /\ \A j \in Slots : j # i => s.table[j] = Table.table[j]
  BY SocketSlots DEF Types
<1> HIDE DEF s
<1>3. CASE s.ret = -1
  <2>1. s.table = sockets /\ s.next_fd = next_fd
    BY <1>1, <1>2, <1>3
  <2>2. t = s
    BY <1>3
  <2> HIDE DEF t
  <2>3. t.table = sockets /\ t.next_fd = next_fd
    BY <2>1, <2>2
  <2> QED BY <2>3 DEF t, c, s
<1>4. CASE s.ret # -1
  <2>1. s.next_fd = next_fd + 1 /\ s.ret = next_fd /\ s.ret # 0 /\ ~(s.ret < 0)
    BY <1>1, <1>2, <1>4
  <2>2. PICK i \in Slots :
          /\ Table.table[i].state = "SOCK_CLOSED"
          /\ s.table[i].fd = next_fd /\ s.table[i].state = "SOCK_CREATED"
          /\ \A j \in Slots : j # i => s.table[j] = Table.table[j]
    BY <1>1, <1>2, <1>4
  <2>3. \A j \in Slots : s.table[j] \in Sock /\ (j # i => s.table[j].fd # next_fd)
    <3>1. \A j \in Slots : s.table[j] \in Sock /\ Table.table[j].fd \in Nat /\ Table.table[j].fd < next_fd
      BY <1>1, GoodTable
    <3> QED BY <1>1, <2>2, <3>1
  <2>4. InState(s, s.ret, "SOCK_CREATED") = {i}
    BY <2>1, <2>2, <2>3 DEF InState
  <2>5. /\ c.next_fd = s.next_fd
        /\ \A j \in Slots : c.table[j] = IF j = i THEN Connected(s.table[i], ip) ELSE s.table[j]
    BY <1>1, <2>1, <2>4, ConnectSlots
  <2>6. Good(c)
    BY <1>1, ConnectGood
  <2> HIDE DEF c
  <2>7. c.table[i].fd = next_fd /\ c.table[i].state # "SOCK_CLOSED" /\ c.table[i] \in Sock
    <3>1. c.table[i] = Connected(s.table[i], ip) /\ s.table[i] \in Sock
      BY <2>3, <2>5
    <3>2. c.table[i] \in Sock
      BY <2>6, GoodTable
    <3> QED BY <2>2, <3>1, <3>2 DEF Connected, Sock
  <2>8. Open(c, s.ret) = {i}
    BY <2>1, <2>3, <2>5, <2>7 DEF Open
  <2> DEFINE r == close(c, s.ret)
  <2>9. /\ r.next_fd = c.next_fd
        /\ \A j \in Slots : r.table[j] = IF j = i THEN [c.table[i] EXCEPT !.state = "SOCK_CLOSED"] ELSE c.table[j]
    BY <2>1, <2>6, <2>8, CloseSlots, Zenon
  <2>10. t = r
    BY <2>1
  <2> HIDE DEF r, t
  <2>11. r.table[i].fd = next_fd /\ r.table[i].state = "SOCK_CLOSED"
    <3>1. r.table[i] = [c.table[i] EXCEPT !.state = "SOCK_CLOSED"]
      BY <2>9
    <3> QED BY <2>7, <3>1 DEF Sock
  <2>12. Taken(t, Table, i) /\ t.table[i].state = "SOCK_CLOSED"
    BY <1>1, <2>1, <2>2, <2>5, <2>9, <2>10, <2>11 DEF Taken
  <2> QED BY <2>12 DEF t, c, s
<1> QED BY <1>3, <1>4

-----------------------------------------------------------------------------
(* The layers below the sockets.                                           *)

Frames == [kind : Kinds, dst : Macs \cup {Broadcast}, ip : Hosts \cup {OurIp}, port : Ports,
           len : 0 .. NET_MTU]
Built == [kind : Kinds, dst : Macs \cup {Broadcast}, ip : Hosts \cup {OurIp}, port : Ports, len : Nat]
Nets == [left : Nat, out : Seq(Frames)]
Caches == Seq([ip : Hosts, mac : Macs])

\* Memory taken for a packet is less for the next one, and sends nothing.
LEMMA TakeNet ==
  ASSUME NEW n \in Nets, NEW size \in Nat, Room(n, size)
  PROVE  Take(n, size) \in Nets /\ Take(n, size).left = n.left - size /\ Take(n, size).out = n.out
  BY DEF Nets, Room, Take

\* The fields of the state of a call: the memory left, and the frames sent.
LEMMA NetFields ==
  ASSUME NEW n \in Nets
  PROVE  n.left \in Nat /\ n.out \in Seq(Frames)
  BY DEF Nets

\* The fields of a frame that is built.
LEMMA FrameFields ==
  ASSUME NEW kind \in Kinds, NEW dst \in Macs \cup {Broadcast}, NEW ip \in Hosts \cup {OurIp},
         NEW port \in Ports, NEW len \in Nat
  PROVE  LET f == Frame(kind, dst, ip, port, len)
         IN f \in Built /\ f.kind = kind /\ f.dst = dst /\ f.ip = ip /\ f.port = port /\ f.len = len
  BY DEF Frame, Built

\* The driver has eth0.
Up == iface /\ net_iface

\* The driver takes a frame within the MTU and drops a larger one, and every
\* frame once it has lost eth0.
LEMMA SendNet ==
  ASSUME NEW n \in Nets, NEW f \in Built
  PROVE  LET m == net_send_packet(n, f)
         IN /\ m \in Nets /\ m.left = n.left
            /\ Up /\ f.len <= NET_MTU => m.out = Append(n.out, f)
            /\ ~(Up /\ f.len <= NET_MTU) => m.out = n.out
<1> DEFINE m == net_send_packet(n, f)
<1>1. f.len \in Nat /\ NET_MTU \in Nat
  BY NetworkAssumption DEF Built
<1>2. f.len <= NET_MTU => f \in Frames
  BY <1>1 DEF Built, Frames
<1>3. CASE Up /\ f.len <= NET_MTU
  <2>1. m = [n EXCEPT !.out = Append(n.out, f)]
    BY <1>1, <1>3 DEF net_send_packet, rtl8139_send, Up
  <2>2. Append(n.out, f) \in Seq(Frames)
    BY <1>2, <1>3, NetFields
  <2> QED BY <1>3, <2>1, <2>2 DEF Nets
<1>4. CASE ~(Up /\ f.len <= NET_MTU)
  <2>1. m = n
    BY <1>1, <1>4 DEF net_send_packet, rtl8139_send, Up
  <2> QED BY <1>4, <2>1 DEF Nets
<1> QED BY <1>3, <1>4

\* The question arp_lookup sends on a miss.
Question(ip) == Frame("arp_request", Broadcast, ip, 0, ArpFrame)

\* arp_request asks everybody for an address, unless there is no memory for it.
LEMMA RequestNet ==
  ASSUME NEW n \in Nets, Up, NEW ip \in Hosts \cup {OurIp}
  PROVE  LET m == arp_request(n, ip)
         IN /\ m \in Nets /\ m.left <= n.left
            /\ \/ m.out = Append(n.out, Question(ip))
               \/ m = n /\ n.left <= ArpFrame
<1>1. ArpFrame \in Nat /\ ArpFrame <= NET_MTU /\ "arp_request" \in Kinds /\ 0 \in Ports
  BY NetworkAssumption DEF ArpFrame, Kinds, Ports
<1>2. CASE Room(n, ArpFrame)
  <2> DEFINE t == Take(n, ArpFrame)
  <2>1. t \in Nets /\ t.left = n.left - ArpFrame /\ t.out = n.out
    BY <1>1, <1>2, TakeNet
  <2>2. arp_request(n, ip) = net_send_packet(t, Question(ip))
    BY <1>2 DEF arp_request, Question, Up
  <2> HIDE DEF t
  <2>3. /\ net_send_packet(t, Question(ip)) \in Nets
        /\ net_send_packet(t, Question(ip)).left = t.left
        /\ net_send_packet(t, Question(ip)).out = Append(t.out, Question(ip))
    <3>1. Question(ip) \in Built /\ Question(ip).len = ArpFrame
      BY <1>1, FrameFields DEF Question
    <3> QED BY <1>1, <2>1, <3>1, SendNet
  <2>4. t.left <= n.left
    BY <1>1, <2>1, NetFields
  <2> QED BY <2>1, <2>2, <2>3, <2>4
<1>3. CASE ~Room(n, ArpFrame)
  BY <1>1, <1>3 DEF arp_request, Room, Nets
<1> QED BY <1>2, <1>3

\* Without eth0 in the driver, arp_lookup puts nothing on the wire.
LEMMA LookupDetached ==
  ASSUME NEW n \in Nets, ~Up, NEW ip \in Hosts \cup {OurIp}, arp_lookup(n, ip).n # n
  PROVE  LET m == arp_lookup(n, ip).n
         IN m \in Nets /\ m.left <= n.left /\ m.out = n.out
<1>1. ArpFrame \in Nat /\ "arp_request" \in Kinds /\ 0 \in Ports
  BY NetworkAssumption DEF ArpFrame, Kinds, Ports
<1>2. /\ arp_lookup(n, ip).n = arp_request(n, ip)
      /\ arp_request(n, ip) = net_send_packet(Take(n, ArpFrame), Question(ip)) /\ Room(n, ArpFrame)
  <2>1. arp_lookup(n, ip).n = n \/ arp_lookup(n, ip).n = arp_request(n, ip)
    BY DEF arp_lookup
  <2> QED BY <2>1 DEF arp_request, Question
<1> DEFINE t == Take(n, ArpFrame)
<1>3. t \in Nets /\ t.left = n.left - ArpFrame /\ t.out = n.out
  BY <1>1, <1>2, TakeNet
<1> HIDE DEF t
<1>4. Question(ip) \in Built
  BY <1>1, FrameFields DEF Question
<1>5. /\ net_send_packet(t, Question(ip)) \in Nets
      /\ net_send_packet(t, Question(ip)).left = t.left
      /\ net_send_packet(t, Question(ip)).out = t.out
  BY <1>3, <1>4, SendNet
<1>6. t.left <= n.left
  BY <1>1, <1>3, NetFields
<1> QED BY <1>2, <1>3, <1>5, <1>6 DEF t

\* The elements of a sequence are in its set.
LEMMA ElementOfSeq ==
  ASSUME NEW S, NEW q \in Seq(S), NEW i \in DOMAIN q
  PROVE  q[i] \in S
  OBVIOUS

\* arp_lookup finds the card an address announced last, or asks for it.
LEMMA LookupNet ==
  ASSUME NEW n \in Nets, Up, arp_cache \in Caches, ArpCacheCurrent, NEW ip \in Hosts \cup {OurIp}
  PROVE  LET to == arp_lookup(n, ip)
         IN /\ to.n \in Nets /\ to.n.left <= n.left
            /\ to.mac \in Macs \cup {Broadcast}
            /\ Entries(arp_cache, ip) # {} => to.n = n /\ to.mac = owner[ip]
            /\ Entries(arp_cache, ip) = {} =>
                 /\ to.mac = Broadcast
                 /\ \/ to.n.out = Append(n.out, Question(ip))
                    \/ to.n = n /\ n.left <= ArpFrame
<1> DEFINE found == Entries(arp_cache, ip)
<1>1. CASE found # {}
  <2>1. found \subseteq Nat /\ found \subseteq DOMAIN arp_cache
    BY DEF Entries, Caches
  <2>2. First(found) \in found
    BY <1>1, <2>1, FirstIn
  <2> DEFINE e == arp_cache[First(found)]
  <2>3. e.ip = ip
    BY <2>2 DEF Entries
  <2>4. e \in [ip : Hosts, mac : Macs]
    BY <2>1, <2>2, ElementOfSeq, Zenon DEF Caches
  <2>5. e.mac = owner[ip]
    BY <2>1, <2>2, <2>3 DEF ArpCacheCurrent
  <2>6. arp_lookup(n, ip) = [mac |-> e.mac, n |-> n]
    BY <1>1 DEF arp_lookup
  <2> HIDE DEF e
  <2>7. n.left \in Nat
    BY DEF Nets
  <2> QED BY <1>1, <2>4, <2>5, <2>6, <2>7
<1>2. CASE found = {}
  <2>1. arp_lookup(n, ip) = [mac |-> Broadcast, n |-> arp_request(n, ip)]
    BY <1>2 DEF arp_lookup
  <2>2. arp_lookup(n, ip).mac = Broadcast /\ arp_lookup(n, ip).n = arp_request(n, ip)
    BY <2>1
  <2> QED BY <1>2, <2>2, RequestNet
<1> QED BY <1>1, <1>2

\* PacketsFindTheirOwner of the frames o, when l bytes are left.
Found(o, l) ==
  \A i \in DOMAIN o :
    o[i].kind \in {"icmp", "udp", "tcp"} =>
      IF Entries(arp_cache, o[i].ip) # {}
        THEN o[i].dst = owner[o[i].ip]
        ELSE /\ o[i].dst = Broadcast
             /\ \/ i > 1 /\ o[i - 1].kind = "arp_request" /\ o[i - 1].ip = o[i].ip
                \/ l <= ArpFrame

\* It is true of no frames.
LEMMA NothingFound ==
  ASSUME NEW l
  PROVE  Found(<<>>, l)
  BY DEF Found

Silent(n) == n.out = <<>>

\* What ip_send_packet leaves: the frame, addressed as PacketsFindTheirOwner
\* says, or a reason for which there is none.
Delivery(m, kind, port, total) ==
  /\ Found(m.out, m.left)
  /\ \A i \in DOMAIN m.out :
       \/ m.out[i].kind = "arp_request"
       \/ m.out[i].kind = kind /\ m.out[i].port = port
  /\ (\A i \in DOMAIN m.out : m.out[i].kind # kind) => ~Up \/ total > NET_MTU \/ m.left <= total

\* ip_send_packet sends the frame to the card that owns the address, or leaves a
\* reason for which there is none.
LEMMA IpSend ==
  ASSUME NEW n \in Nets, Silent(n), arp_cache \in Caches, ArpCacheCurrent,
         NEW kind \in {"icmp", "udp", "tcp"}, NEW ip \in Hosts \cup {OurIp}, NEW port \in Ports, NEW len \in Nat
  PROVE  LET m == ip_send_packet(n, kind, ip, port, len)
         IN m \in Nets /\ m.left <= n.left /\ Delivery(m, kind, port, EthHdr + IpHdr + len)
<1> DEFINE total == EthHdr + IpHdr + len
           m == ip_send_packet(n, kind, ip, port, len)
<1>1. total \in Nat /\ NET_MTU \in Nat /\ kind \in Kinds /\ n.left \in Nat
  <2>1. EthHdr \in Nat /\ IpHdr \in Nat /\ NET_MTU \in Nat
    BY NetworkAssumption
  <2>2. kind \in Kinds
    BY DEF Kinds
  <2> QED BY <2>1, <2>2, NetFields
<1>2. CASE Up /\ Room(n, total)
  <2> DEFINE t == Take(n, total)
             to == arp_lookup(t, ip)
             f == Frame(kind, to.mac, ip, port, total)
  <2>1. t \in Nets /\ t.left = n.left - total /\ Silent(t)
    BY <1>1, <1>2, TakeNet DEF Silent
  <2>2. m = net_send_packet(to.n, f)
    BY <1>2 DEF ip_send_packet, Up
  <2> HIDE DEF t, total
  <2>3. /\ to.n \in Nets /\ to.n.left <= t.left
        /\ to.mac \in Macs \cup {Broadcast}
        /\ Entries(arp_cache, ip) # {} => to.n = t /\ to.mac = owner[ip]
        /\ Entries(arp_cache, ip) = {} =>
             /\ to.mac = Broadcast
             /\ to.n.out = Append(t.out, Question(ip)) \/ (to.n = t /\ t.left <= ArpFrame)
    BY <1>2, <2>1, LookupNet
  <2> HIDE DEF to, m
  <2>4. /\ m \in Nets /\ m.left = to.n.left
        /\ total <= NET_MTU => m.out = Append(to.n.out, f)
        /\ total > NET_MTU => m.out = to.n.out
    <3>1. f \in Built /\ f.len = total
      <4> DEFINE mac == to.mac
      <4>1. mac \in Macs \cup {Broadcast} /\ kind \in Kinds /\ total \in Nat
        BY <1>1, <2>3
      <4> HIDE DEF mac
      <4>2. LET g == Frame(kind, mac, ip, port, total) IN g \in Built /\ g.len = total
        BY <4>1, FrameFields
      <4> QED BY <4>2 DEF mac
    <3>2. to.n \in Nets /\ Up
      BY <1>2, <2>3
    <3> HIDE DEF f
    <3> QED BY <1>1, <2>2, <3>1, <3>2, SendNet
  <2>5. f.kind = kind /\ f.dst = to.mac /\ f.ip = ip /\ f.port = port
    BY DEF Frame
  <2>6. Question(ip).kind = "arp_request" /\ Question(ip).ip = ip
    BY DEF Question, Frame
  <2> DEFINE q == Question(ip)
  <2> HIDE DEF f, q
  <2>7. to.n.out = <<>> \/ to.n.out = <<q>>
    BY <2>1, <2>3 DEF q, Silent
  <2>8. \/ m.out = <<>> /\ total > NET_MTU
        \/ m.out = <<q>> /\ total > NET_MTU
        \/ m.out = <<f>> /\ to.n = t
        \/ m.out = <<q, f>> /\ Entries(arp_cache, ip) = {}
    <3>1. CASE total > NET_MTU
      BY <1>1, <2>4, <2>7, <3>1
    <3>2. CASE total <= NET_MTU /\ to.n.out = <<>>
      <4>1. m.out = <<f>>
        BY <2>4, <3>2
      <4>2. to.n = t
        BY <2>1, <2>3, <3>2 DEF Silent
      <4> QED BY <4>1, <4>2
    <3>3. CASE total <= NET_MTU /\ to.n.out = <<q>>
      <4>1. m.out = <<q, f>>
        BY <2>4, <3>3
      <4>2. to.n # t
        <5>1. Len(to.n.out) = 1 /\ Len(t.out) = 0
          BY <2>1, <3>3 DEF Silent
        <5> QED BY <5>1
      <4>3. Entries(arp_cache, ip) = {}
        BY <2>3, <4>2
      <4> QED BY <4>1, <4>3
    <3>4. total > NET_MTU \/ total <= NET_MTU
      BY <1>1
    <3> QED BY <2>7, <3>1, <3>2, <3>3, <3>4
  <2>9. m.left <= n.left
    <3>1. m.left \in Nat /\ t.left \in Nat
      BY <2>1, <2>4, NetFields
    <3> QED BY <1>1, <2>1, <2>3, <2>4, <3>1
  <2>10. Found(m.out, m.left)
    <3>1. CASE m.out = <<>> \/ m.out = <<q>>
      BY <2>6, <3>1 DEF Found, q
    <3>2. CASE m.out = <<f>> /\ to.n = t
      <4>1. Entries(arp_cache, ip) = {} => to.mac = Broadcast /\ m.left <= ArpFrame
        <5>1. Append(t.out, Question(ip)) # t.out
          BY <2>1 DEF Silent
        <5> QED BY <2>3, <2>4, <3>2, <5>1
      <4>2. \A i \in DOMAIN m.out : m.out[i] = f
        BY <3>2
      <4> QED BY <2>3, <2>5, <4>1, <4>2 DEF Found
    <3>3. CASE m.out = <<q, f>> /\ Entries(arp_cache, ip) = {}
      <4>1. DOMAIN m.out = {1, 2} /\ m.out[1] = q /\ m.out[2] = f
        BY <3>3
      <4>2. q.kind = "arp_request" /\ q.ip = ip
        BY <2>6 DEF q
      <4>3. to.mac = Broadcast
        BY <2>3, <3>3
      <4> QED BY <2>5, <3>3, <4>1, <4>2, <4>3 DEF Found
    <3> QED BY <2>8, <3>1, <3>2, <3>3
  <2>11. Delivery(m, kind, port, total)
    BY <2>5, <2>6, <2>8, <2>10 DEF Delivery, q
  <2> QED BY <2>4, <2>9, <2>11 DEF total, m
<1>3. CASE ~(iface /\ Room(n, total))
  <2>1. m = n
    BY <1>3 DEF ip_send_packet
  <2>2. ~Up \/ n.left <= total
    BY <1>1, <1>3 DEF Room, Up
  <2>3. Found(<<>>, n.left)
    BY NothingFound
  <2>4. Delivery(n, kind, port, total)
    BY <2>2, <2>3 DEF Delivery, Silent
  <2> QED BY <1>1, <2>1, <2>4
<1>4. CASE iface /\ ~Up /\ Room(n, total)
  <2> DEFINE t == Take(n, total)
             to == arp_lookup(t, ip)
             f == Frame(kind, to.mac, ip, port, total)
  <2>1. t \in Nets /\ t.left = n.left - total /\ Silent(t)
    BY <1>1, <1>4, TakeNet DEF Silent
  <2>2. m = net_send_packet(to.n, f)
    BY <1>4 DEF ip_send_packet
  <2> HIDE DEF t
  <2>3. to.n \in Nets /\ to.n.left <= t.left /\ to.n.out = t.out
    <3>1. CASE to.n = t
      BY <2>1, <3>1, NetFields
    <3>2. CASE to.n # t
      BY <1>4, <2>1, <3>2, LookupDetached
    <3> QED BY <3>1, <3>2
  <2>4. m = to.n
    BY <1>4, <2>2, Zenon DEF net_send_packet, rtl8139_send, Up
  <2> HIDE DEF to, m
  <2>5. m \in Nets /\ m.left <= n.left /\ m.out = <<>>
    BY <1>1, <2>1, <2>3, <2>4, NetFields DEF Silent
  <2>6. Found(<<>>, m.left)
    BY NothingFound
  <2>7. Delivery(m, kind, port, total)
    BY <1>4, <2>5, <2>6 DEF Delivery
  <2> QED BY <2>5, <2>7 DEF m
<1> QED BY <1>2, <1>3, <1>4

\* What the callers of ip_send_packet leave of a Silent n.
Sent(m, n) == m \in Nets /\ m.left <= n.left /\ Found(m.out, m.left)

\* udp_send_packet does the same with the datagram and its port.
LEMMA UdpSend ==
  ASSUME NEW n \in Nets, Silent(n), arp_cache \in Caches, ArpCacheCurrent,
         NEW ip \in Hosts \cup {OurIp}, NEW port \in Ports, NEW len \in Nat
  PROVE  LET m == udp_send_packet(n, ip, port, len)
         IN Sent(m, n) /\ Delivery(m, "udp", port, EthHdr + IpHdr + (UdpHdr + len))
<1> DEFINE size == UdpHdr + len
           m == udp_send_packet(n, ip, port, len)
<1>1. size \in Nat /\ n.left \in Nat /\ EthHdr \in Nat /\ IpHdr \in Nat
  BY NetworkAssumption DEF Nets
<1>2. CASE Room(n, size)
  <2> DEFINE t == Take(n, size)
  <2>1. t \in Nets /\ t.left = n.left - size /\ Silent(t)
    BY <1>1, <1>2, TakeNet DEF Silent
  <2>2. m = ip_send_packet(t, "udp", ip, port, size)
    BY <1>2 DEF udp_send_packet
  <2> HIDE DEF t, m, size
  <2>3. m \in Nets /\ m.left <= t.left /\ Delivery(m, "udp", port, EthHdr + IpHdr + size)
    BY <1>1, <2>1, <2>2, IpSend
  <2>4. m.left <= n.left
    BY <1>1, <2>1, <2>3, NetFields
  <2> QED BY <2>3, <2>4 DEF Sent, Delivery, m, size
<1>3. CASE ~Room(n, size)
  <2>1. m = n
    BY <1>3 DEF udp_send_packet
  <2>2. n.left <= EthHdr + IpHdr + size
    BY <1>1, <1>3 DEF Room
  <2>3. Found(<<>>, n.left)
    BY NothingFound
  <2>4. Delivery(n, "udp", port, EthHdr + IpHdr + size)
    BY <2>2, <2>3 DEF Delivery, Silent
  <2>5. Sent(n, n)
    BY <1>1, <2>3 DEF Sent, Silent
  <2> QED BY <2>1, <2>4, <2>5
<1> QED BY <1>2, <1>3

NoDatagram(o) == \A i \in DOMAIN o : o[i].kind # "udp"

\* The same for the layers without ports.
LEMMA OtherSend ==
  ASSUME NEW n \in Nets, Silent(n), arp_cache \in Caches, ArpCacheCurrent,
         NEW kind \in {"icmp", "tcp"}, NEW ip \in Hosts, NEW size \in Nat
  PROVE  LET m == IF Room(n, size) THEN ip_send_packet(Take(n, size), kind, ip, 0, size) ELSE n
         IN Sent(m, n) /\ NoDatagram(m.out)
<1>1. n.left \in Nat /\ 0 \in Ports
  BY DEF Nets, Ports
<1>2. CASE Room(n, size)
  <2> DEFINE t == Take(n, size)
             m == ip_send_packet(t, kind, ip, 0, size)
  <2>1. t \in Nets /\ t.left = n.left - size /\ Silent(t)
    BY <1>1, <1>2, TakeNet DEF Silent
  <2>2. kind \in {"icmp", "udp", "tcp"}
    OBVIOUS
  <2> HIDE DEF t
  <2>3. m \in Nets /\ m.left <= t.left /\ Delivery(m, kind, 0, EthHdr + IpHdr + size)
    BY <1>1, <2>1, <2>2, IpSend
  <2> HIDE DEF m
  <2>4. m.left <= n.left
    BY <1>1, <2>1, <2>3, NetFields
  <2>5. Sent(m, n) /\ NoDatagram(m.out)
    BY <2>3, <2>4 DEF Sent, Delivery, NoDatagram
  <2> QED BY <1>2, <2>5 DEF m, t
<1>3. CASE ~Room(n, size)
  <2>1. Found(<<>>, n.left)
    BY NothingFound
  <2> QED BY <1>1, <1>3, <2>1 DEF Sent, Silent, NoDatagram
<1> QED BY <1>2, <1>3

-----------------------------------------------------------------------------
(* The invariant, and the packets that arrive.                             *)

NetOK ==
  /\ iface \in BOOLEAN /\ net_iface \in BOOLEAN /\ (net_iface => iface)
  /\ arp_cache \in Caches /\ Len(arp_cache) <= ArpCacheSize
  /\ owner \in [Hosts -> Macs \cup {NoMac}]
  /\ out \in Seq(Frames)
  /\ ArpCacheCurrent
  /\ PacketsFindTheirOwner

TableOK == Good(Table)

\* A step of the sockets that calls on the table and sends nothing.
LEMMA TableStep ==
  ASSUME NetOK, NEW s, Good(s), Becomes(s), UNCHANGED <<iface, net_iface, arp_cache, owner>>
  PROVE  (NetOK /\ TableOK)'
<1>1. Table' = [s EXCEPT !.ret = -1]
  BY DEF Becomes, Table, Good, Tables
<1>2. TableOK'
  BY <1>1, FailGood DEF TableOK
<1>3. ArpCacheCurrent'
  BY DEF NetOK, ArpCacheCurrent, Entries
<1>4. out' \in Seq(Frames) /\ PacketsFindTheirOwner'
  BY DEF Becomes, PacketsFindTheirOwner
<1> QED BY <1>2, <1>3, <1>4 DEF NetOK

\* A step that sends what a layer leaves, on the same table.
LEMMA SendStep ==
  ASSUME NetOK, TableOK, NEW m, Sent(m, Fresh), Sends(m),
         UNCHANGED <<iface, net_iface, arp_cache, owner, sockets, next_fd>>
  PROVE  (NetOK /\ TableOK)'
<1>1. /\ m.left \in Nat /\ m.out \in Seq(Frames) /\ m.left <= left
      /\ left' = m.left /\ out' = m.out /\ left \in Nat
  BY DEF Sent, Nets, Fresh, Sends, TableOK, Good, Table, Tables
<1>2. /\ Table'.table = Table.table /\ Table'.next_fd = Table.next_fd
      /\ Table'.left = m.left /\ Table.left = left
  BY <1>1 DEF Table
<1>3. Table' \in Tables
  BY <1>1 DEF TableOK, Good, Tables, Table
<1>4. TableOK'
  BY <1>1, <1>2, <1>3, LessHeapGood DEF TableOK
<1>5. ArpCacheCurrent'
  BY DEF NetOK, ArpCacheCurrent, Entries
<1>6. PacketsFindTheirOwner'
  BY <1>1 DEF Sent, Found, PacketsFindTheirOwner, Entries
<1> QED BY <1>1, <1>4, <1>5, <1>6 DEF NetOK

\* arp_cache_learn keeps one entry for an address, and up to date.
LEMMA LearnCurrent ==
  ASSUME NetOK, NEW ip \in Hosts, NEW mac \in Macs,
         arp_cache' = arp_cache_learn(arp_cache, ip, mac), owner' = [owner EXCEPT ![ip] = mac]
  PROVE  /\ arp_cache' \in Caches /\ Len(arp_cache') <= ArpCacheSize
         /\ owner' \in [Hosts -> Macs \cup {NoMac}]
         /\ ArpCacheCurrent'
<1> DEFINE known == Entries(arp_cache, ip)
           S == [ip : Hosts, mac : Macs]
           e == [ip |-> ip, mac |-> mac]
<1>1. /\ arp_cache \in Seq(S) /\ DOMAIN arp_cache = 1 .. Len(arp_cache) /\ Len(arp_cache) \in Nat
      /\ ArpCacheSize \in Nat /\ e \in S
  BY NetworkAssumption DEF NetOK, Caches
<1>2. \A h \in Hosts : owner'[h] = IF h = ip THEN mac ELSE owner[h]
  BY DEF NetOK
<1>3. owner' \in [Hosts -> Macs \cup {NoMac}]
  BY DEF NetOK
<1>4. \A i \in DOMAIN arp_cache : arp_cache[i] \in S
  BY <1>1, ElementOfSeq, Zenon
<1>5. CASE known # {}
  <2> DEFINE k == First(known)
  <2>1. k \in known
    <3>1. known \subseteq Nat
      BY <1>1 DEF Entries
    <3> QED BY <1>5, <3>1, FirstIn
  <2>2. k \in DOMAIN arp_cache /\ arp_cache[k].ip = ip
    BY <2>1 DEF Entries
  <2>3. arp_cache' = [arp_cache EXCEPT ![k] = [arp_cache[k] EXCEPT !.mac = mac]]
    BY <1>5 DEF arp_cache_learn
  <2>4. [arp_cache[k] EXCEPT !.mac = mac] = e
    BY <1>4, <2>2
  <2> HIDE DEF k, e
  <2>5. arp_cache' = [arp_cache EXCEPT ![k] = e]
    BY <2>3, <2>4, Zenon
  <2>6. arp_cache' \in Seq(S) /\ Len(arp_cache') = Len(arp_cache) /\ DOMAIN arp_cache' = DOMAIN arp_cache
    BY <1>1, <2>2, <2>5
  <2>7. \A i \in DOMAIN arp_cache : arp_cache'[i] = IF i = k THEN e ELSE arp_cache[i]
    BY <1>1, <2>5
  <2>8. e.ip = ip /\ e.mac = mac
    BY DEF e
  <2>9. \A i \in DOMAIN arp_cache : arp_cache'[i].ip = arp_cache[i].ip
    BY <2>2, <2>7, <2>8
  <2>10. \A i \in DOMAIN arp_cache : arp_cache[i].ip = ip => i = k
    BY <2>2 DEF NetOK, ArpCacheCurrent
  <2>11. \A i \in DOMAIN arp_cache' : arp_cache'[i].mac = owner'[arp_cache'[i].ip]
    <3> SUFFICES ASSUME NEW i \in DOMAIN arp_cache
                 PROVE  arp_cache'[i].mac = owner'[arp_cache'[i].ip]
      BY <2>6
    <3>1. CASE i = k
      BY <1>2, <2>7, <2>8, <3>1
    <3>2. CASE i # k
      <4>1. arp_cache[i].ip # ip /\ arp_cache[i].ip \in Hosts
        BY <1>4, <2>10, <3>2
      <4>2. arp_cache[i].mac = owner[arp_cache[i].ip]
        BY DEF NetOK, ArpCacheCurrent
      <4> QED BY <1>2, <2>7, <3>2, <4>1, <4>2
    <3> QED BY <3>1, <3>2
  <2>12. \A h \in Hosts : Entries(arp_cache', h) = Entries(arp_cache, h)
    BY <2>6, <2>9 DEF Entries
  <2>13. ASSUME NEW h \in Hosts, owner'[h] # NoMac, Len(arp_cache') < ArpCacheSize
         PROVE  Entries(arp_cache', h) # {}
    <3>1. CASE h = ip
      BY <1>5, <2>12, <3>1
    <3>2. CASE h # ip
      <4>1. owner[h] # NoMac
        BY <1>2, <2>13, <3>2
      <4> QED BY <2>6, <2>12, <2>13, <4>1 DEF NetOK, ArpCacheCurrent
    <3> QED BY <3>1, <3>2
  <2>14. \A i, j \in DOMAIN arp_cache' : arp_cache'[i].ip = arp_cache'[j].ip => i = j
    BY <2>6, <2>9 DEF NetOK, ArpCacheCurrent
  <2>15. ArpCacheCurrent'
    BY <2>11, <2>13, <2>14 DEF ArpCacheCurrent
  <2> QED BY <1>3, <2>6, <2>15 DEF NetOK, Caches
<1>6. CASE known = {} /\ Len(arp_cache) < ArpCacheSize
  <2> DEFINE n == Len(arp_cache) + 1
  <2>1. arp_cache' = Append(arp_cache, e)
    BY <1>6 DEF arp_cache_learn
  <2> HIDE DEF e
  <2>2. arp_cache' \in Seq(S) /\ Len(arp_cache') = n /\ DOMAIN arp_cache' = 1 .. n
    BY <1>1, <2>1
  <2>3. arp_cache'[n] = e /\ \A i \in DOMAIN arp_cache : arp_cache'[i] = arp_cache[i]
    BY <1>1, <2>1
  <2>4. e.ip = ip /\ e.mac = mac
    BY DEF e
  <2>5. \A i \in DOMAIN arp_cache' : i = n \/ i \in DOMAIN arp_cache
    BY <1>1, <2>2
  <2>6. \A i \in DOMAIN arp_cache : arp_cache[i].ip # ip
    BY <1>6 DEF Entries
  <2>7. \A i, j \in DOMAIN arp_cache' : arp_cache'[i].ip = arp_cache'[j].ip => i = j
    BY <2>3, <2>4, <2>5, <2>6 DEF NetOK, ArpCacheCurrent
  <2>8. ASSUME NEW i \in DOMAIN arp_cache'
        PROVE  arp_cache'[i].mac = owner'[arp_cache'[i].ip]
    <3>1. CASE i = n
      BY <1>2, <2>3, <2>4, <3>1
    <3>2. CASE i \in DOMAIN arp_cache
      <4>1. arp_cache[i].ip # ip /\ arp_cache[i].ip \in Hosts
        BY <1>4, <2>6, <3>2
      <4>2. arp_cache[i].mac = owner[arp_cache[i].ip]
        BY <3>2 DEF NetOK, ArpCacheCurrent
      <4> QED BY <1>2, <2>3, <3>2, <4>1, <4>2
    <3> QED BY <2>5, <3>1, <3>2
  <2>9. ASSUME NEW h \in Hosts, owner'[h] # NoMac
        PROVE  Entries(arp_cache', h) # {}
    <3>1. CASE h = ip
      <4>1. n \in Entries(arp_cache', h)
        BY <1>1, <2>2, <2>3, <2>4, <3>1 DEF Entries
      <4> QED BY <4>1
    <3>2. CASE h # ip
      <4>1. owner[h] # NoMac
        BY <1>2, <2>9, <3>2
      <4>2. PICK i \in DOMAIN arp_cache : arp_cache[i].ip = h
        BY <1>6, <4>1 DEF NetOK, ArpCacheCurrent, Entries
      <4>3. i \in Entries(arp_cache', h)
        BY <1>1, <2>2, <2>3, <4>2 DEF Entries
      <4> QED BY <4>3
    <3> QED BY <3>1, <3>2
  <2>10. ArpCacheCurrent'
    BY <2>7, <2>8, <2>9 DEF ArpCacheCurrent
  <2>11. Len(arp_cache') <= ArpCacheSize
    BY <1>1, <1>6, <2>2
  <2> QED BY <1>3, <2>2, <2>10, <2>11 DEF Caches
<1>7. CASE known = {} /\ ~(Len(arp_cache) < ArpCacheSize)
  <2>1. arp_cache' = arp_cache
    BY <1>7 DEF arp_cache_learn
  <2>2. \A i \in DOMAIN arp_cache : arp_cache[i].ip # ip /\ arp_cache[i].ip \in Hosts
    BY <1>4, <1>7 DEF Entries
  <2>3. \A i \in DOMAIN arp_cache : arp_cache[i].mac = owner'[arp_cache[i].ip]
    BY <1>2, <2>2 DEF NetOK, ArpCacheCurrent
  <2>4. ArpCacheCurrent'
    BY <1>7, <2>1, <2>3 DEF NetOK, ArpCacheCurrent
  <2> QED BY <1>3, <2>1, <2>4 DEF NetOK
<1> QED BY <1>5, <1>6, <1>7

\* Every call starts with nothing sent and the memory that is left.
LEMMA FreshNet ==
  ASSUME NetOK, TableOK
  PROVE  Fresh \in Nets /\ Silent(Fresh) /\ Sent(Fresh, Fresh)
<1>1. left \in Nat
  BY DEF TableOK, Good, Table, Tables
<1>2. Fresh \in Nets /\ Fresh.out = <<>> /\ Fresh.left = left
  BY <1>1 DEF Fresh, Nets
<1>3. Found(<<>>, left)
  BY DEF Found
<1> QED BY <1>1, <1>2, <1>3 DEF Silent, Sent

\* The answer to an announcement, or to a question for us.
Reply(f) == IF iface /\ f.request /\ f.target = OurIp THEN arp_send_reply(Fresh, f.ip, f.mac) ELSE Fresh

\* The only answer to a packet that arrives is an ARP reply.
LEMMA ReplyNet ==
  ASSUME NetOK, TableOK, NEW f, f.ip \in Hosts, f.mac \in Macs
  PROVE  LET m == Reply(f)
         IN m \in Nets /\ m.left <= left /\ \A i \in DOMAIN m.out : m.out[i].kind = "arp_reply"
<1> DEFINE m == Reply(f)
<1>1. Fresh \in Nets /\ Fresh.out = <<>> /\ Fresh.left = left /\ left \in Nat
  BY FreshNet, NetFields DEF Fresh, Silent
<1>2. CASE m = Fresh
  BY <1>1, <1>2
<1>3. CASE m # Fresh
  <2> DEFINE t == Take(Fresh, ArpFrame)
             a == Frame("arp_reply", f.mac, f.ip, 0, ArpFrame)
  <2>1. Room(Fresh, ArpFrame) /\ m = net_send_packet(t, a)
    BY <1>3 DEF Reply, arp_send_reply
  <2>2. ArpFrame \in Nat /\ "arp_reply" \in Kinds /\ 0 \in Ports
    BY NetworkAssumption DEF ArpFrame, Kinds, Ports
  <2>3. t \in Nets /\ t.left = left - ArpFrame /\ t.out = <<>>
    BY <1>1, <2>1, <2>2, TakeNet
  <2> HIDE DEF t, m
  <2>4. a \in Built
    <3>1. f.mac \in Macs \cup {Broadcast} /\ f.ip \in Hosts \cup {OurIp}
      OBVIOUS
    <3> QED BY <2>2, <3>1, FrameFields
  <2>5. a.kind = "arp_reply"
    BY DEF Frame
  <2> HIDE DEF a
  <2>6. m \in Nets /\ m.left = t.left /\ (m.out = t.out \/ m.out = Append(t.out, a))
    BY <2>1, <2>3, <2>4, SendNet
  <2>7. m.out = <<>> \/ m.out = <<a>>
    BY <2>3, <2>6
  <2>8. \A i \in DOMAIN m.out : m.out[i].kind = "arp_reply"
    BY <2>5, <2>7
  <2>9. m.left <= left
    BY <1>1, <2>2, <2>3, <2>6
  <2> QED BY <2>6, <2>8, <2>9 DEF m
<1> QED BY <1>2, <1>3

\* A frame received: an announcement is learnt and perhaps answered, an
\* echo request takes a buffer, all else is dropped.
LEMMA ReceiveStep ==
  ASSUME NetOK, TableOK, NEW f \in ArpFrames \cup IpFrames, net_receive_frame(f),
         UNCHANGED <<sockets, next_fd>>
  PROVE  (NetOK /\ TableOK)' /\ NoDatagram(out')
<1>1. Fresh \in Nets /\ Silent(Fresh) /\ Sent(Fresh, Fresh) /\ Fresh.left = left /\ left \in Nat
  BY FreshNet DEF Fresh, Nets
<1>2. CASE f.type = "ip" /\ ip_handle_packet(f)
  <2>1. f \in IpFrames
    BY <1>2 DEF ArpFrames
  <2> DEFINE m == IF iface /\ f.target = OurIp /\ f.proto = "icmp"
                    THEN icmp_handle_packet(Fresh, f) ELSE Fresh
  <2>2. f.len \in Nat
    <3>1. f.len \in EchoLens
      BY <2>1 DEF IpFrames
    <3>2. EchoLens \subseteq Nat
      BY NetworkAssumption
    <3> QED BY <3>1, <3>2, Zenon
  <2>3. m = Fresh \/ (Room(Fresh, f.len) /\ m = Take(Fresh, f.len))
    BY DEF icmp_handle_packet, icmp_send_echo_reply
  <2>4. Sends(m) /\ UNCHANGED <<iface, net_iface, arp_cache, owner>>
    BY <1>2 DEF ip_handle_packet, net_receive_frame
  <2> HIDE DEF m
  <2>5. Sent(m, Fresh) /\ NoDatagram(m.out)
    <3>1. CASE m = Fresh
      BY <1>1, <3>1 DEF NoDatagram, Silent
    <3>2. CASE Room(Fresh, f.len) /\ m = Take(Fresh, f.len)
      <4>1. m \in Nets /\ m.left = Fresh.left - f.len /\ m.out = <<>>
        BY <1>1, <2>2, <3>2, TakeNet DEF Silent
      <4>2. m.left <= Fresh.left
        BY <1>1, <2>2, <4>1
      <4>3. Found(<<>>, m.left)
        BY NothingFound
      <4> QED BY <4>1, <4>2, <4>3 DEF Sent, NoDatagram
    <3> QED BY <2>3, <3>1, <3>2
  <2>6. out' = m.out
    BY <2>4 DEF Sends
  <2> QED BY <2>4, <2>5, <2>6, SendStep
<1>3. CASE f.type = "arp" /\ arp_handle_packet(f)
  <2>1. f.ip \in Hosts /\ f.mac \in Macs
    BY <1>3 DEF ArpFrames, IpFrames
  <2> DEFINE m == Reply(f)
  <2>2. UNCHANGED <<iface, net_iface>>
    BY DEF net_receive_frame
  <2>3. Sends(m)
    BY <1>3 DEF arp_handle_packet, Reply
  <2>4. /\ m \in Nets /\ m.left <= left
        /\ \A i \in DOMAIN m.out : m.out[i].kind = "arp_reply"
    BY <1>1, <2>1, ReplyNet
  <2> HIDE DEF m
  <2>5. out' = m.out /\ left' = m.left /\ m.out \in Seq(Frames) /\ m.left \in Nat
    BY <2>3, <2>4 DEF Sends, Nets
  <2>6. PacketsFindTheirOwner'
    BY <2>4, <2>5 DEF PacketsFindTheirOwner
  <2>7. TableOK'
    <3>1. /\ Table'.table = Table.table /\ Table'.next_fd = Table.next_fd
          /\ Table'.left = m.left /\ Table.left = left /\ m.left <= left
      BY <2>4, <2>5 DEF Table
    <3>2. Table' \in Tables
      BY <2>5 DEF TableOK, Good, Tables, Table
    <3> QED BY <3>1, <3>2, LessHeapGood DEF TableOK
  <2>8. /\ arp_cache' \in Caches /\ Len(arp_cache') <= ArpCacheSize
        /\ owner' \in [Hosts -> Macs \cup {NoMac}]
        /\ ArpCacheCurrent'
    <3>1. CASE iface
      BY <1>3, <2>1, <3>1, LearnCurrent, Zenon DEF arp_handle_packet
    <3>2. CASE ~iface
      BY <1>3, <3>2 DEF arp_handle_packet, NetOK, ArpCacheCurrent, Entries
    <3> QED BY <3>1, <3>2
  <2>9. NoDatagram(out')
    BY <2>4, <2>5 DEF NoDatagram
  <2> QED BY <2>2, <2>5, <2>6, <2>7, <2>8, <2>9 DEF NetOK
<1> QED BY <1>2, <1>3 DEF net_receive_frame
=============================================================================
