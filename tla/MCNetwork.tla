----------------------------- MODULE MCNetwork ------------------------------
(***************************************************************************)
(* Three machines and room for two in the ARP cache; two sockets for the   *)
(* application, three servers and the downloads.  A behaviour exercises    *)
(* the protocols with packets in and out, or the sockets, with eth0 up or  *)
(* not and an empty cache, or one call of a pure function.                 *)
(***************************************************************************)
EXTENDS Services, Formats, TLC

CONSTANTS h1, h2, h3, m1, m2, us, all

MCHosts == {h1, h2, h3}
MCMacs == {m1, m2}
MCAppPorts == {9}
MCDataLens == {10, 50}
MCEchoLens == {4, 30}
MCSegmentLens == {40}
MCSymmetry == Permutations(MCHosts) \cup Permutations(MCMacs)

Texts(chars, n) == UNION {[1 .. k -> chars] : k \in 0 .. n}

MCInts == -(2 ^ 19) .. -(2 ^ 19) + 20 \cup -120 .. 1100 \cup 2 ^ 19 - 20 .. 2 ^ 19 - 1
MCAddresses == Texts({"2", "."}, 8) \cup {Dotted(q) : q \in [1 .. 4 -> {2, 22, 222}]}
MCUrls ==
  [host : Texts({"7", "."}, 3),
   port : {<<>>, <<":">>, <<":", "8", "1">>, <<":", "6", "5", "5", "3", "5">>, <<":", "6", "5", "6", "1", "6">>},
   path : {<<>>, <<"/">>, <<"/", "7", ":">>}]
MCBlocks == Texts(0 .. 2, 5)
MCQuestions == Texts({0, 1, 2, 7}, 6)
MCNetworks == LET quads == {<<255, 255, 53, 1>>, <<53, 1, 2, 255>>, <<0, 0, 0, 0>>}
              IN [netmask : quads, gateway : quads, server_ip : quads]
MCResponses == Texts({" ", "x", Cr, Lf}, 6) \cup {<<"x", " ", "x", "x", "x">> \o t : t \in Texts({"x", Cr, Lf}, 6)}
MCChars == {"a", "b", "A", " ", "deleted", "end", "x", "7", ".", ":", "/", Cr, Lf}
MCDirectories ==
  Texts([filename : {<<"a", " ">>, <<"a", "b">>, <<"deleted", "b">>, <<"end", " ">>},
         extension : {<<" ">>, <<"b">>}, volume : BOOLEAN], 3)
MCRegistries == UNION {[1 .. k -> [title : {<<"A", "b">>, <<"b", "b", "a">>, <<"b", "b", "b">>},
                                   content : {<<"a">>, <<"b">>}]] : k \in 0 .. 4}
MCQueries == {<<"a">>, <<"A">>, <<"b", "a">>}

VARIABLE part

NetworkInit == Init /\ FormatsInit /\ part \in {"packets", "sockets", "formats"}

NetworkNext ==
  \/ part = "packets" /\ Packets /\ UNCHANGED <<job, part>>
  \/ part = "sockets" /\ (Application \/ Commands) /\ UNCHANGED <<job, part>>
  \/ part = "sockets" /\ rtl8139_init /\ Quiet
                      /\ UNCHANGED <<sockets, next_fd, app, server, job, part>>
  \/ part = "formats" /\ FormatsNext /\ UNCHANGED <<vars, part>>

NetworkSpec == NetworkInit /\ [][NetworkNext]_<<vars, job, part>>
=============================================================================
