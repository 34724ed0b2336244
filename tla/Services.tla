------------------------------ MODULE Services ------------------------------
(***************************************************************************)
(* The users of the sockets in the source: the servers of net/http.c,      *)
(* net/dns.c and net/dhcp.c, started and stopped by commands of            *)
(* net/netcmd.c, and the client of net/http_client.c behind wget.  Their   *)
(* poll functions find nothing to do, because accept always fails and      *)
(* recvfrom returns the buf_len 0 that no code changes.                    *)
(***************************************************************************)
EXTENDS Sockets

CONSTANTS HTTP_PORT, DNS_PORT, DHCP_SERVER_PORT

Servers == {"http", "dns", "dhcp"}
Port == [http |-> HTTP_PORT, dns |-> DNS_PORT, dhcp |-> DHCP_SERVER_PORT]

VARIABLE server    \* by server: running, and its descriptor, 0 before any

vars == <<nvars, svars, server>>

\* socket, bind and, for a stream, listen, each undone when it fails: what
\* the calls leave behind, with the descriptor or -1 in ret.
Opened(name, type) ==
  LET s == socket(Table, type)
      b == bind(s, s.ret, Port[name])
      l == IF type = "SOCK_STREAM" THEN listen(b, s.ret) ELSE b
  IN IF s.ret < 0 THEN s
     ELSE IF b.ret < 0 THEN [close(b, s.ret) EXCEPT !.ret = -1]
     ELSE IF l.ret < 0 THEN [close(l, s.ret) EXCEPT !.ret = -1]
     ELSE [l EXCEPT !.ret = s.ret]

\* The web server keeps the result of socket() as its descriptor.
http_server_start ==
  LET s == Opened("http", "SOCK_STREAM")
  IN /\ ~server["http"].running /\ next_fd < MaxFd
     /\ Becomes(s)
     /\ server' = [server EXCEPT !["http"] =
                     IF s.ret < 0 THEN [@ EXCEPT !.fd = s.ret] ELSE [running |-> TRUE, fd |-> s.ret]]

DatagramServerStart(name) ==
  LET s == Opened(name, "SOCK_DGRAM")
  IN /\ ~server[name].running /\ next_fd < MaxFd
     /\ Becomes(s)
     /\ server' = IF s.ret < 0 THEN server
                  ELSE [server EXCEPT ![name] = [running |-> TRUE, fd |-> s.ret]]

dns_start == DatagramServerStart("dns")
dhcp_start == DatagramServerStart("dhcp")

\* The web server's descriptor stays, the others become -1.
http_server_stop ==
  /\ server["http"].running
  /\ Becomes(close(Table, server["http"].fd))
  /\ server' = [server EXCEPT !["http"].running = FALSE]

DatagramServerStop(name) ==
  /\ server[name].running
  /\ Becomes(close(Table, server[name].fd))
  /\ server' = [server EXCEPT ![name] = [running |-> FALSE, fd |-> -1]]

dns_stop == DatagramServerStop("dns")
dhcp_stop == DatagramServerStop("dhcp")

\* Fault: a request that cannot be sent leaves its socket open.
GetLeavesSocket(ip) ==
  /\ next_fd < MaxFd
  /\ LET s == socket(Table, "SOCK_STREAM")
     IN Becomes(IF s.ret < 0 THEN s ELSE connect(s, s.ret, ip))
  /\ UNCHANGED server

\* connect leaves a stream in CONNECTING, so that send fails; nothing is
\* sent or read, and the socket is closed as on every other way out.
http_client_get(ip) ==
  /\ next_fd < MaxFd
  /\ LET s == socket(Table, "SOCK_STREAM")
     IN Becomes(IF s.ret < 0 THEN s ELSE close(connect(s, s.ret, ip), s.ret))
  /\ UNCHANGED server

ServerCommand ==
  \/ http_server_start \/ http_server_stop
  \/ dns_start \/ dns_stop
  \/ dhcp_start \/ dhcp_stop
  \/ \E ip \in Hosts : http_client_get(ip)

Init ==
  /\ NetInit /\ SocketsInit
  /\ server = [name \in Servers |-> [running |-> FALSE, fd |-> 0]]

Packets == NetNext /\ Quiet /\ UNCHANGED <<sockets, next_fd, app, server>>
Application == AppNext /\ UNCHANGED server
Commands == ServerCommand /\ Quiet /\ UNCHANGED <<iface, net_iface, arp_cache, owner, app>>

Next == Packets \/ Application \/ Commands

Spec == Init /\ [][Next]_vars

-----------------------------------------------------------------------------
(* Properties.                                                             *)

\* A server that runs has one open socket, of its type and bound to its
\* port, the web server's listening; and no socket is open that neither a
\* running server nor the application holds, whatever starts, stops and
\* downloads came before: a start or a download that fails leaves nothing
\* behind.
ServersHoldTheirSockets ==
  LET open == {i \in Slots : sockets[i].state # "SOCK_CLOSED"}
      up == {name \in Servers : server[name].running}
  IN /\ \A name \in up :
          \E i \in open :
            /\ sockets[i].fd = server[name].fd
            /\ sockets[i].local_port = Port[name]
            /\ IF name = "http" THEN sockets[i].state = "SOCK_LISTENING"
               ELSE sockets[i].type = "SOCK_DGRAM"
     /\ \A i \in open : sockets[i].fd \in {server[name].fd : name \in up} \cup {app}
=============================================================================
