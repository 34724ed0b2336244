------------------------------ MODULE Formats -------------------------------
(***************************************************************************)
(* The pure algorithms: numbers (libc/string.c), addresses and URLs        *)
(* (net/netcmd.c), the Internet checksum (net/net.c), names, options and   *)
(* responses of the services (net/dns.c, net/dhcp.c, net/http_client.c),   *)
(* the names of files (kernel/filesystem.c) and the search engine          *)
(* (utils/search.c).  Each is an operator from its input to its result; a  *)
(* step calls one of them on one input.  The characters of texts are       *)
(* strings, the bytes of packets numbers.                                  *)
(***************************************************************************)
EXTENDS Integers, Sequences, FiniteSets

CONSTANTS
  IntBits,                  \* the width of an int
  Ints, Addresses, Urls,    \* the inputs, by function
  HostMax,                  \* 63: the longest host of a URL
  Byte,                     \* 256: the values of a byte, in checksums
  Blocks,                   \* the data to sum
  DNS_MAX_QNAME, Questions,
  DhcpOptions,              \* 312: the bytes of the options area
  Networks,                 \* netmask, gateway and address of the DHCP server
  MinResponse, Responses,   \* the shortest response parsed, 12
  Chars, Directories,
  Registries, Queries, MaxMatches   \* room for 32 matches

DirEntries == [filename : Seq(Chars), extension : Seq(Chars), volume : BOOLEAN]
Topics == [title : Seq(Chars), content : Seq(Chars)]

VARIABLE job    \* the last call: the function, its input, its result

\* What a loop of n turns leaves that starts from a, when step[k] is what its
\* k-th turn makes of the values before it.  The turns of a while loop after
\* the one that ends it change nothing.
Runs(step, a, n) ==
  LET after[k \in 0 .. n] == IF k = 0 THEN a ELSE step[k][after[k - 1]] IN after[n]

FirstOf(S) == CHOOSE i \in S : \A j \in S : i <= j

\* The length of the longest prefix of characters in C, and of that outside.
Spn(s, C) ==
  LET stops == {i \in 1 .. Len(s) : s[i] \notin C} IN IF stops = {} THEN Len(s) ELSE FirstOf(stops) - 1
Cspn(s, C) ==
  LET stops == {i \in 1 .. Len(s) : s[i] \in C} IN IF stops = {} THEN Len(s) ELSE FirstOf(stops) - 1

From(s, i) == SubSeq(s, i, Len(s))
AtMost(i, n) == IF i < n THEN i ELSE n

Blanks == {" "}
Signs == {"-", "+"}
HostEnd == {":", "/"}

-----------------------------------------------------------------------------
(* Numbers.                                                                *)

\* The numbers of five digits, and the values of a port.
FiveDigits == 100 * 1000
PortRange == 256 * 256

DigitChars == <<"0", "1", "2", "3", "4", "5", "6", "7", "8", "9">>
DigitSet == {DigitChars[d] : d \in 1 .. 10}
Digit(c) == (CHOOSE d \in 1 .. 10 : DigitChars[d] = c) - 1

\* IntBits - 1 ones in a row.
IntMax == Runs([k \in 1 .. IntBits - 1 |-> [v \in Nat |-> 2 * v + 1]], 0, IntBits - 1)
IntMin == -IntMax - 1
AsInt(n) == ((n - IntMin) % (2 * (IntMax + 1))) + IntMin

Value(digits) ==
  Runs([k \in 1 .. Len(digits) |-> [r \in Int |-> AsInt(r * 10 + Digit(digits[k]))]], 0, Len(digits))

atoi(str) ==
  LET s == From(str, Spn(str, Blanks) + 1)
      signed == s # <<>> /\ s[1] \in Signs
      rest == IF signed THEN From(s, 2) ELSE s
      n == Value(SubSeq(rest, 1, Spn(rest, DigitSet)))
  IN IF signed /\ s[1] = "-" THEN AsInt(-n) ELSE n

\* A digit in base 10, the base a number that is read again is written in.
DigitStep(s) ==
  IF s.value = 0 THEN s
  ELSE [value |-> s.value \div 10, out |-> <<DigitChars[(s.value % 10) + 1]>> \o s.out]

\* A number has less digits than bits.
Digits(n) ==
  Runs([k \in 1 .. IntBits |-> [s \in [value : Nat, out : Seq(DigitSet)] |-> DigitStep(s)]],
       [value |-> n, out |-> <<>>], IntBits).out

\* -value overflows for the smallest int and leaves it as it is, less than
\* zero, so that no digit is written.
itoa(value) ==
  LET n == IF value < 0 THEN AsInt(-value) ELSE value
  IN (IF value < 0 THEN <<"-">> ELSE <<>>)
     \o (IF n = 0 THEN <<"0">> ELSE IF n < 0 THEN <<>> ELSE Digits(n))

-----------------------------------------------------------------------------
(* Addresses and URLs.                                                     *)

\* One character; what is neither a dot nor a digit with room is skipped.
OctetStep(p, c) ==
  CASE Len(p.octets) < 4 /\ c = "." /\ p.num # <<>> ->
         [octets |-> Append(p.octets, atoi(p.num) % 256), num |-> <<>>]
    [] Len(p.octets) < 4 /\ c \in DigitSet /\ Len(p.num) < 3 ->
         [octets |-> p.octets, num |-> Append(p.num, c)]
    [] OTHER -> p

\* cmd_ping and http_client_get read a dotted quad the same way; the empty
\* sequence stands for a text that is refused.
ParseAddress(text) ==
  LET p == Runs([k \in 1 .. Len(text) |->
                   [q \in [octets : Seq(0 .. 255), num : Seq(DigitSet)] |-> OctetStep(q, text[k])]],
                [octets |-> <<>>, num |-> <<>>], Len(text))
      octets == IF Len(p.octets) < 4 THEN Append(p.octets, atoi(p.num) % 256) ELSE p.octets
  IN IF Len(octets) = 4 THEN octets ELSE <<>>

\* cmd_wget, on what follows http://.
ParseUrl(t) ==
  LET n == AtMost(Cspn(t, HostEnd), HostMax)
      rest == From(t, n + 1)
      colon == rest # <<>> /\ rest[1] = ":"
      digits == IF colon THEN SubSeq(rest, 2, 1 + AtMost(Spn(From(rest, 2), DigitSet), 5)) ELSE <<>>
      path == IF colon THEN From(rest, 2 + Len(digits)) ELSE rest
  IN [host |-> SubSeq(t, 1, n),
      port |-> IF digits = <<>> THEN 80 ELSE atoi(digits) % PortRange,
      path |-> IF path # <<>> /\ path[1] = "/" THEN path ELSE <<"/">>]

-----------------------------------------------------------------------------
(* Packets.                                                                *)

WordRange == Byte * Byte

\* Fault: a carry is dropped.
CarryDropped(sum) == sum % WordRange

\* Two turns of the loop are enough for a sum of twice the bits of a word.
Carry(sum) == (sum % WordRange) + (sum \div WordRange)
Carried(sum) == Carry(Carry(sum))

\* The last byte of an odd number of them counts as a low byte.
net_checksum(data) ==
  LET n == Len(data) \div 2
      words == Runs([k \in 1 .. n |-> [a \in Nat |->
                       (a + data[2 * k - 1] * Byte + data[2 * k]) % (WordRange * WordRange)]], 0, n)
      odd == IF Len(data) % 2 = 1 THEN data[Len(data)] ELSE 0
  IN WordRange - 1 - Carried((words + odd) % (WordRange * WordRange))

Dot == 46

\* Fault: the room for the dot between two labels is forgotten.
LabelFitsBare(name, len) == Len(name) + len < DNS_MAX_QNAME

LabelFits(name, len) == Len(name) + len + 1 < DNS_MAX_QNAME

NoName == [consumed |-> -1, name |-> <<>>]

\* One label.  When the packet cuts it short the loop ends, without a name.
DecodeStep(s, buf) ==
  LET len == buf[s.pos + 1]
      label == SubSeq(buf, s.pos + 2, AtMost(s.pos + 1 + len, Len(buf)))
  IN CASE s.ret # "reading" \/ s.pos >= Len(buf) -> s
       [] s.ret = "reading" /\ s.pos < Len(buf) /\ len = 0 ->
            [pos |-> s.pos + 1, name |-> IF s.name = <<>> THEN <<Dot>> ELSE s.name, ret |-> "name"]
       [] s.ret = "reading" /\ s.pos < Len(buf) /\ len # 0 /\ ~LabelFits(s.name, len) ->
            [s EXCEPT !.ret = "failed"]
       [] OTHER ->
            [s EXCEPT !.pos = s.pos + 1 + Len(label),
                      !.name = (IF s.name = <<>> THEN <<>> ELSE Append(s.name, Dot)) \o label]

Decoding == [pos : Nat, name : Seq(0 .. 255), ret : {"reading", "name", "failed"}]

\* Every label takes a byte or more.
dns_decode_qname(buf) ==
  LET s == Runs([k \in 1 .. Len(buf) |-> [s \in Decoding |-> DecodeStep(s, buf)]],
                [pos |-> 0, name |-> <<>>, ret |-> "reading"], Len(buf))
  IN IF s.ret = "name" THEN [consumed |-> s.pos, name |-> s.name] ELSE NoName

\* One label.  An empty one ends the loop, and so does a zero byte, which ends
\* the string.  The buffer of the answer has room for every name that was
\* decoded: its code takes no more bytes than the question (Repeated).
EncodeStep(s, name) ==
  LET n == Cspn(From(name, s.start), {Dot, 0})
      dot == s.start + n
  IN IF n = 0
       THEN s
       ELSE [start |-> IF dot <= Len(name) /\ name[dot] = Dot THEN dot + 1 ELSE dot,
             out |-> s.out \o <<n>> \o SubSeq(name, s.start, dot - 1)]

dns_encode_qname(name) ==
  Append(Runs([k \in 1 .. Len(name) |-> [s \in [start : Nat, out : Seq(Nat)] |-> EncodeStep(s, name)]],
              [start |-> 1, out |-> <<>>], Len(name)).out, 0)

DHCPOFFER == 2
DHCPACK == 5

dhcp_fill_offer(net) ==
  LET opt == <<99, 130, 83, 99, 53, 1, DHCPOFFER, 1, 4>> \o net.netmask \o <<3, 4>> \o net.gateway
               \o <<54, 4>> \o net.server_ip \o <<51, 4, 0, 0, 14, 16, 255>>
  IN [p \in 1 .. DhcpOptions |-> IF p <= Len(opt) THEN opt[p] ELSE 0]

\* The option at offset i is the message type.
IsType(opt, i) == i + 1 < DhcpOptions /\ opt[i + 1] = 53 /\ opt[i + 2] >= 1

OptionStep(opt, i) ==
  IF i + 1 >= DhcpOptions \/ opt[i + 1] = 255 \/ IsType(opt, i) THEN i ELSE i + 2 + opt[i + 2]

\* Every option takes two bytes or more.
dhcp_fill_ack(net) ==
  LET opt == dhcp_fill_offer(net)
      turns == DhcpOptions \div 2
      at == Runs([k \in 1 .. turns |-> [i \in Nat |-> OptionStep(opt, i)]], 4, turns)
  IN IF IsType(opt, at) THEN [opt EXCEPT ![at + 3] = DHCPACK] ELSE opt

Cr == "cr"
Lf == "lf"

\* From the start i of a header line to that of the next one.
HeaderStep(buf, i) ==
  IF i > Len(buf) \/ buf[i] = Lf THEN i ELSE i + Cspn(From(buf, i), {Lf}) + 1

\* The body; the status code and Content-Length are only displayed.
http_client_parse_response(buf) ==
  LET code == Cspn(buf, Blanks) + 2
      line == From(buf, code + 3)
      first == code + 3 + Cspn(line, {Lf}) + 1
      empty == Runs([k \in 1 .. Len(buf) |-> [i \in Nat |-> HeaderStep(buf, i)]], first, Len(buf))
  IN IF Len(buf) < MinResponse \/ code + 2 > Len(buf) \/ first > Len(buf) + 1
       THEN [ret |-> -1, body |-> <<>>]
       ELSE [ret |-> 0, body |-> From(buf, empty + 1)]

-----------------------------------------------------------------------------
(* Names in the root directory.  The first character of an entry may mark  *)
(* it as deleted, or as the end of the directory.                          *)

EndMark == "end"
Deleted == "deleted"

\* The name and the extension, padded with spaces in the entry.
FullName(e) ==
  SubSeq(e.filename, 1, Cspn(e.filename, Blanks))
    \o (IF e.extension[1] = " " THEN <<>>
        ELSE <<".">> \o SubSeq(e.extension, 1, Cspn(e.extension, Blanks)))

\* The entries before the end mark.
InUse(dir) == 1 .. Cspn([i \in 1 .. Len(dir) |-> dir[i].filename[1]], {EndMark})

dir_find_entry(dir, name) ==
  LET found == {i \in InUse(dir) : dir[i].filename[1] # Deleted /\ FullName(dir[i]) = name}
  IN IF found = {} THEN -1 ELSE FirstOf(found)

\* The entries ls leaves out: deleted ones and the volume label.
Hidden(dir, i) == i \notin InUse(dir) \/ dir[i].filename[1] = Deleted \/ dir[i].volume

fs_list_dir(dir) ==
  Runs([i \in 1 .. Len(dir) |-> [shown \in Seq(Nat) |-> IF Hidden(dir, i) THEN shown ELSE Append(shown, i)]],
       <<>>, Len(dir))

-----------------------------------------------------------------------------
(* The search engine.                                                      *)

Lower(c) == CASE c = "A" -> "a" [] c = "B" -> "b" [] OTHER -> c

IsAt(text, pattern, i) ==
  \A j \in 1 .. Len(pattern) : i + j - 1 \in 1 .. Len(text) /\ text[i + j - 1] = pattern[j]

contains_pattern(text, pattern) ==
  \E i \in 1 .. Len(text) - Len(pattern) + 1 :
    \A j \in 1 .. Len(pattern) : Lower(text[i + j - 1]) = Lower(pattern[j])

calculate_relevance(e, pattern) ==
  LET title == contains_pattern(e.title, pattern)
  IN (IF title THEN 10 ELSE 0)
     + (IF title /\ (IsAt(e.title, pattern, 1) \/ IsAt(e.title, pattern, 3)) THEN 20 ELSE 0)
     + (IF contains_pattern(e.content, pattern) THEN 5 ELSE 0)

\* Fault: equal neighbours are exchanged too.
SwapEqual(m, j) ==
  IF m[j].relevance <= m[j + 1].relevance THEN [m EXCEPT ![j] = m[j + 1], ![j + 1] = m[j]] ELSE m

SwapStep(m, j) ==
  IF m[j].relevance < m[j + 1].relevance THEN [m EXCEPT ![j] = m[j + 1], ![j + 1] = m[j]] ELSE m

Matches == Seq([entry : Nat, relevance : Nat])

\* All matches in the order of the registry, as long as there is room.
Found(registry, query) ==
  Runs([i \in 1 .. Len(registry) |-> [m \in Matches |->
          LET relevance == calculate_relevance(registry[i], query)
          IN IF relevance > 0 /\ Len(m) < MaxMatches
               THEN Append(m, [entry |-> i, relevance |-> relevance]) ELSE m]], <<>>, Len(registry))

\* A pass of the bubble sort, over the first n pairs of neighbours.
Pass(m, n) == Runs([j \in 1 .. n |-> [b \in Matches |-> SwapStep(b, j)]], m, n)

search_system(registry, query) ==
  LET m == Found(registry, query)
  IN Runs([i \in 1 .. Len(m) |-> [b \in Matches |-> Pass(b, Len(m) - i)]], m, Len(m))

-----------------------------------------------------------------------------
(* The calls, and the inputs they are made with.                           *)

\* An int has five digits or more.  A URL is taken apart at the first colon
\* and at the slash its path begins with.
ASSUME TextsAssumption ==
  /\ IntBits \in Nat \ {0} /\ IntMax >= FiveDigits /\ Ints \subseteq IntMin .. IntMax
  /\ Addresses \subseteq Seq(DigitSet \cup {"."}) /\ HostMax \in Nat
  /\ \A u \in Urls :
       /\ u.host \in Seq(Chars) /\ \A i \in 1 .. Len(u.host) : u.host[i] \notin HostEnd
       /\ u.port \in Seq(DigitSet \cup {":"})
       /\ u.port = <<>> \/ (u.port[1] = ":" /\ Tail(u.port) \in Seq(DigitSet))
       /\ u.path \in Seq(Chars) /\ (u.path = <<>> \/ u.path[1] = "/")

\* A sum of 2 * Byte * Byte bytes has no more bits than two words.  No byte
\* of a name is the dot that its labels are put together with.
ASSUME PacketsAssumption ==
  /\ Byte \in Nat \ {0, 1} /\ \A d \in Blocks : d \in Seq(0 .. Byte - 1) /\ Len(d) < WordRange
  /\ DNS_MAX_QNAME \in Nat \ {0, 1} /\ Questions \subseteq Seq((0 .. 255) \ {Dot})
  /\ DhcpOptions \in Nat /\ DhcpOptions > 6
  /\ Networks \subseteq [netmask : Seq(0 .. 255), gateway : Seq(0 .. 255), server_ip : Seq(0 .. 255)]
  /\ MinResponse \in Nat /\ Responses \subseteq Seq(Chars)

ASSUME LookupsAssumption ==
  /\ Directories \subseteq Seq(DirEntries)
  /\ Registries \subseteq Seq(Topics) /\ Queries \subseteq Seq(Chars) \ {<<>>} /\ MaxMatches \in Nat

Called(fn, in, out) == job' = [fn |-> fn, in |-> in, out |-> out]

CallItoa == \E v \in Ints : Called("itoa", v, itoa(v))
CallParseAddress == \E t \in Addresses : Called("address", t, ParseAddress(t))
CallParseUrl == \E u \in Urls : Called("url", u, ParseUrl(u.host \o u.port \o u.path))
CallChecksum == \E d \in Blocks : Called("checksum", d, net_checksum(d))
CallDecode == \E q \in Questions : Called("qname", q, dns_decode_qname(q))
CallFillAck == \E n \in Networks : Called("ack", n, dhcp_fill_ack(n))
CallParseResponse == \E r \in Responses : Called("response", r, http_client_parse_response(r))
CallSearch ==
  \E r \in Registries, q \in Queries :
    Called("search", [registry |-> r, query |-> q], search_system(r, q))
CallListDir == \E d \in Directories : Called("list", d, fs_list_dir(d))

FormatsInit == job = [fn |-> "none", in |-> 0, out |-> 0]

\* The functions keep no state, so one call is all there is to see.
FormatsNext ==
  /\ job.fn = "none"
  /\ \/ CallItoa \/ CallParseAddress \/ CallParseUrl \/ CallChecksum
     \/ CallDecode \/ CallFillAck \/ CallParseResponse \/ CallListDir \/ CallSearch

FormatsSpec == FormatsInit /\ [][FormatsNext]_job

-----------------------------------------------------------------------------
(* Properties.                                                             *)

\* Every int but the smallest, which itoa writes as a bare minus, is read
\* back by atoi as it was written.
NumbersRoundTrip == job.fn = "itoa" /\ job.in # IntMin => atoi(job.out) = job.in

Dotted(q) == itoa(q[1]) \o <<".">> \o itoa(q[2]) \o <<".">> \o itoa(q[3]) \o <<".">> \o itoa(q[4])

\* ping and wget take four numbers up to 255 with dots between them for the
\* address they are, and refuse a text with less than three of the dots
\* that end a number; a text that ends in the third such dot they take for
\* an address that ends in 0.
Ends(text) == {i \in 2 .. Len(text) : text[i] = "." /\ text[i - 1] # "."}
Quads == [1 .. 4 -> {2, 22, 222}]
AddressRead(text, out) ==
  /\ \A q \in Quads : text = Dotted(q) => out = q
  /\ out = <<>> <=> Cardinality(Ends(text)) < 3
  /\ Cardinality(Ends(text)) = 3 /\ text[Len(text)] = "." => out[4] = 0
AddressesRead == job.fn = "address" => AddressRead(job.in, job.out)

\* wget takes host, port and path from a URL as they were put together: 80
\* and / where there is none, up to the port 65535.
TakenApart(u, out) ==
  /\ out.host = u.host
  /\ out.path = IF u.path = <<>> THEN <<"/">> ELSE u.path
  /\ Len(u.port) <= 1 => out.port = 80
  /\ Len(u.port) > 1 /\ atoi(Tail(u.port)) < PortRange => out.port = atoi(Tail(u.port))
UrlTakenApart ==
  job.fn = "url" /\ Len(job.in.host) <= HostMax /\ Len(job.in.port) <= 6 => TakenApart(job.in, job.out)

\* Data of an even length with its net_checksum behind it, high byte first,
\* passes the receiver's test, it sums to 0, whichever order of bytes the
\* receiver sums in: exchanging the bytes of every word exchanges those of
\* the checksum, which holds only if no carry is lost.
Verifies(data, out) ==
  LET whole == data \o <<out \div Byte, out % Byte>>
      exchanged == [i \in 1 .. Len(whole) |-> IF i % 2 = 1 THEN whole[i + 1] ELSE whole[i - 1]]
  IN net_checksum(whole) = 0 /\ net_checksum(exchanged) = 0
ChecksumVerifies == job.fn = "checksum" /\ Len(job.in) % 2 = 0 => Verifies(job.in, job.out)

\* dns_poll repeats the question it answers by encoding the name it decoded:
\* the two undo each other on every well-formed question whose labels hold no
\* zero byte; a zero byte ends the name early, and then the repetition is no
\* longer than the question.  The name with its final zero stays within its
\* buffer, however labels add up.
Repeated(buf, out) ==
  /\ (\A i \in 1 .. Len(out.name) : out.name[i] # 0) =>
       dns_encode_qname(out.name) = SubSeq(buf, 1, out.consumed)
  /\ Len(dns_encode_qname(out.name)) <= out.consumed
  /\ Len(out.name) < DNS_MAX_QNAME
QuestionRepeated == job.fn = "qname" /\ job.out # NoName => Repeated(job.in, job.out)

\* The acknowledgement is the offer but for the message type, whatever
\* bytes the addresses between the options hold.
AckIsOfferButType ==
  job.fn = "ack" => job.out = [dhcp_fill_offer(job.in) EXCEPT ![7] = DHCPACK]

\* The body is what follows the first line feed behind a line feed, from the
\* end of the status line on, and empty when there is none: lines that end
\* in a carriage return and a line feed leave no such place, so that of a
\* response written that way the parser finds no body.
BodyFound(buf, body) ==
  LET space == FirstOf({i \in 1 .. Len(buf) : buf[i] \in Blanks})
      status == FirstOf({i \in space + 4 .. Len(buf) : buf[i] = Lf})
      empty == {i \in status + 1 .. Len(buf) : buf[i] = Lf /\ buf[i - 1] = Lf}
  IN body = IF empty = {} THEN <<>> ELSE From(buf, FirstOf(empty) + 1)
BodyAfterEmptyLine == job.fn = "response" /\ job.out.ret = 0 => BodyFound(job.in, job.out.body)

\* What ls shows, cat and file find: the name fs_list_dir builds from an
\* entry leads dir_find_entry to that entry, or to an earlier one of that
\* name, and a name that is found is shown unless it is the volume label's.
ListAgrees(dir, out) ==
  LET shown == {out[k] : k \in 1 .. Len(out)}
  IN /\ \A i \in shown :
          LET at == dir_find_entry(dir, FullName(dir[i]))
          IN at \in 1 .. i /\ FullName(dir[at]) = FullName(dir[i])
     /\ \A i \in 1 .. Len(dir) :
          LET at == dir_find_entry(dir, FullName(dir[i]))
          IN at # -1 => at \in shown \/ dir[at].volume
ListedFilesAreFound == job.fn = "list" => ListAgrees(job.in, job.out)

\* A search shows exactly the entries in which the query occurs, whatever
\* the case of its letters, the most relevant first and equally relevant
\* ones in the order of the registry, as long as all of them have room.
Lowered(text) == [i \in 1 .. Len(text) |-> Lower(text[i])]
Occurs(query, text) == \E i \in 1 .. Len(text) : IsAt(Lowered(text), Lowered(query), i)
Ranked(registry, query, out) ==
  /\ {out[k].entry : k \in 1 .. Len(out)} =
       {i \in 1 .. Len(registry) : Occurs(query, registry[i].title) \/ Occurs(query, registry[i].content)}
  /\ \A k, l \in 1 .. Len(out) : k < l =>
       LET a == calculate_relevance(registry[out[k].entry], query)
           b == calculate_relevance(registry[out[l].entry], query)
       IN a > b \/ (a = b /\ out[k].entry < out[l].entry)
ResultsRanked ==
  job.fn = "search" /\ Len(job.in.registry) <= MaxMatches => Ranked(job.in.registry, job.in.query, job.out)

\* Numbers, addresses and URLs are read as they are written, and a checksum
\* verifies.
TextsAndSums == NumbersRoundTrip /\ AddressesRead /\ UrlTakenApart /\ ChecksumVerifies

\* The DNS server repeats the question it answers, up to a zero byte in it;
\* the DHCP server's acknowledgement repeats its offer; and the client takes
\* as the body of a response what follows the first line feed behind a line
\* feed, which is nothing when the lines end in a carriage return and a line
\* feed.
RepliesAgree == QuestionRepeated /\ AckIsOfferButType /\ BodyAfterEmptyLine

\* The file names shown are the ones found, and a search ranks its results.
LookupsAgree == ListedFilesAreFound /\ ResultsRanked
=============================================================================
