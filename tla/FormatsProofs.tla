--------------------------- MODULE FormatsProofs ----------------------------
(***************************************************************************)
(* What module Formats promises of packets, directories and searches, for  *)
(* every registry, query, directory and packet: the answers of the DNS and *)
(* DHCP servers, the body the HTTP client finds, the file names that ls    *)
(* shows, and the results of a search. First what the proofs about its     *)
(* functions have in common: the loops of the C code, whose invariants are *)
(* shown by induction along their turns; strspn and strcspn; and that a    *)
(* call returns what its function makes of its inputs.                     *)
(***************************************************************************)
EXTENDS Formats, WellFoundedInduction, TLAPS

-----------------------------------------------------------------------------
(* Loops.                                                                  *)

\* Induction along the indices of a loop.
LEMMA LoopInduction ==
  ASSUME NEW n \in Nat, NEW T, 0 \in T, \A k \in 1 .. n : k - 1 \in T => k \in T
  PROVE  \A k \in 0 .. n : k \in T
<1> DEFINE R == OpToRel(<, Nat)
           U == (0 .. n) \ T
<1>1. SUFFICES ASSUME U # {} PROVE FALSE
  OBVIOUS
<1>2. U \subseteq Nat
  OBVIOUS
<1>3. IsWellFoundedOn(R, Nat)
  BY NatLessThanWellFounded, Zenon
<1> HIDE DEF R
<1>4. PICK x \in U : \A y \in U : ~(<<y, x>> \in R)
  BY <1>1, <1>2, <1>3, WFMin, Zenon
<1>5. x # 0 /\ x \in 1 .. n /\ x - 1 \in 0 .. n /\ x - 1 \in Nat /\ x \in Nat /\ x - 1 < x
  BY <1>4
<1>6. <<x - 1, x>> \in R
  BY <1>5 DEF R, OpToRel
<1>7. x - 1 \in T
  BY <1>4, <1>5, <1>6
<1> QED BY <1>4, <1>5, <1>7

\* The values of a loop up to its n-th turn, given those before it: a at the
\* start, and g says what a turn makes of a value.
Turns(f, g, a, n) == [k \in 0 .. n |-> IF k = 0 THEN a ELSE g[k][f[k - 1]]]

\* A loop has a value after each of its turns.
LEMMA LoopRuns ==
  ASSUME NEW n \in Nat, NEW g, NEW a
  PROVE  \E f : f = Turns(f, g, a, n)
<1> DEFINE T == {m \in 0 .. n : \E f : f = Turns(f, g, a, m)}
<1>1. 0 \in T
  <2> DEFINE e == [k \in 0 .. 0 |-> a]
  <2>1. e = Turns(e, g, a, 0)
    BY DEF Turns
  <2>2. \E f : f = Turns(f, g, a, 0)
    <3> HIDE DEF e
    <3> QED BY <2>1
  <2> QED BY <2>2
<1>2. ASSUME NEW m \in 1 .. n, m - 1 \in T PROVE m \in T
  <2>1. PICK f : f = Turns(f, g, a, m - 1)
    BY <1>2
  <2> DEFINE e == [k \in 0 .. m |-> IF k = m THEN g[m][f[m - 1]] ELSE f[k]]
             h == Turns(e, g, a, m)
  <2>3. ASSUME NEW k \in 0 .. m PROVE e[k] = h[k]
    <3>0. h[k] = IF k = 0 THEN a ELSE g[k][e[k - 1]]
      BY DEF Turns
    <3>1. CASE k = 0
      <4>1. f[0] = a
        BY <1>2, <2>1 DEF Turns
      <4> QED BY <1>2, <3>0, <3>1, <4>1
    <3>2. CASE k = m
      <4>1. e[m - 1] = f[m - 1] /\ m # 0 /\ m \in 0 .. m
        BY <1>2
      <4>2. e[m] = g[m][f[m - 1]]
        BY <4>1, Zenon
      <4> QED BY <3>0, <3>2, <4>1, <4>2, Zenon
    <3>3. CASE k # 0 /\ k # m
      <4>1. e[k] = f[k] /\ e[k - 1] = f[k - 1]
        BY <1>2, <3>3
      <4>2. f[k] = g[k][f[k - 1]]
        BY <1>2, <2>1, <3>3 DEF Turns
      <4> QED BY <3>0, <3>3, <4>1, <4>2
    <3> QED BY <3>1, <3>2, <3>3
  <2>4. e = h
    BY <2>3 DEF Turns
  <2>5. \E d : d = Turns(d, g, a, m)
    <3> HIDE DEF e
    <3> QED BY <2>4
  <2> QED BY <2>5
<1>3. \A k \in 0 .. n : k \in T
  <2> HIDE DEF T
  <2> QED BY <1>1, <1>2, LoopInduction, Zenon
<1>4. n \in T
  <2> HIDE DEF T
  <2> QED BY <1>3
<1> QED BY <1>4

\* f has the values a loop goes through.
Through(f, step, a, n) ==
  /\ f[0] = a /\ f[n] = Runs(step, a, n)
  /\ \A k \in 1 .. n : f[k] = step[k][f[k - 1]]

\* The values Runs goes through.
LEMMA RunsBy ==
  ASSUME NEW n \in Nat, NEW a, NEW step
  PROVE  \E f : Through(f, step, a, n)
<1> DEFINE h == CHOOSE f : f = Turns(f, step, a, n)
<1>1. PICK f : f = Turns(f, step, a, n)
  BY LoopRuns
<1>2. h = Turns(h, step, a, n)
  BY <1>1, Zenon
<1>3. Runs(step, a, n) = h[n]
  BY Zenon DEF Runs, Turns
<1> HIDE DEF h
<1>4. h[0] = a /\ \A k \in 1 .. n : h[k] = step[k][h[k - 1]]
  BY <1>2 DEF Turns
<1> QED BY <1>3, <1>4, Zenon DEF Through

\* The invariant of a loop holds at its end: P[k] has the values that it
\* allows after the k-th turn.
LEMMA RunsIn ==
  ASSUME NEW n \in Nat, NEW a, NEW step, NEW P, a \in P[0],
         \A k \in 1 .. n : \A u \in P[k - 1] : step[k][u] \in P[k]
  PROVE  Runs(step, a, n) \in P[n]
<1>1. PICK f : Through(f, step, a, n)
  BY RunsBy
<1> DEFINE T == {k \in 0 .. n : f[k] \in P[k]}
<1>2. \A k \in 0 .. n : k \in T
  <2>1. 0 \in T
    BY <1>1 DEF Through
  <2>2. ASSUME NEW k \in 1 .. n, k - 1 \in T PROVE k \in T
    BY <1>1, <2>2 DEF Through
  <2> HIDE DEF T
  <2> QED BY <2>1, <2>2, LoopInduction, Zenon
<1> QED BY <1>1, <1>2 DEF Through

-----------------------------------------------------------------------------
(* Prefixes and rests of texts.                                            *)

\* A set of natural numbers has a least one.
LEMMA Least ==
  ASSUME NEW S \in SUBSET Nat, S # {}
  PROVE  FirstOf(S) \in S /\ \A j \in S : FirstOf(S) <= j
<1> DEFINE R == OpToRel(<, Nat)
<1>1. IsWellFoundedOn(R, Nat)
  BY NatLessThanWellFounded, Zenon
<1> HIDE DEF R
<1>2. PICK x \in S : \A y \in S : ~(<<y, x>> \in R)
  BY <1>1, WFMin, Zenon
<1>3. ASSUME NEW y \in S PROVE x <= y
  <2>1. x \in Nat /\ y \in Nat
    BY <1>2
  <2>2. ASSUME y < x PROVE <<y, x>> \in R
    BY <2>1, <2>2 DEF R, OpToRel
  <2> QED BY <1>2, <2>1, <2>2
<1> QED BY <1>2, <1>3 DEF FirstOf

\* n is the length of the longest prefix of s before the places in X.
Stops(s, X, n) ==
  /\ n \in 0 .. Len(s) /\ \A k \in 1 .. n : k \notin X
  /\ n = Len(s) \/ n + 1 \in X

\* What Spn and Cspn have in common.
LEMMA StopsAt ==
  ASSUME NEW s, Len(s) \in Nat, NEW X \in SUBSET (1 .. Len(s)),
         NEW n, n = IF X = {} THEN Len(s) ELSE FirstOf(X) - 1
  PROVE  Stops(s, X, n) /\ \A m : Stops(s, X, m) => m = n
<1>1. ASSUME X # {} PROVE FirstOf(X) \in X /\ (\A j \in X : FirstOf(X) <= j) /\ FirstOf(X) \in 1 .. Len(s)
  <2>1. X \in SUBSET Nat
    OBVIOUS
  <2> QED BY <1>1, <2>1, Least
<1>2. Stops(s, X, n)
  <2>1. CASE X = {}
    BY <2>1 DEF Stops
  <2>2. CASE X # {}
    <3> DEFINE x == FirstOf(X)
    <3>1. x \in X /\ (\A j \in X : x <= j) /\ x \in 1 .. Len(s) /\ n = x - 1
      BY <1>1, <2>2
    <3> HIDE DEF x
    <3> QED BY <3>1 DEF Stops
  <2> QED BY <2>1, <2>2
<1>3. ASSUME NEW m, Stops(s, X, m) PROVE m = n
  BY <1>2, <1>3 DEF Stops
<1> QED BY <1>2, <1>3

\* n characters of s are in C, and no more.
InPrefix(s, C, n) ==
  /\ n \in 0 .. Len(s) /\ \A k \in 1 .. n : s[k] \in C
  /\ n = Len(s) \/ s[n + 1] \notin C
OutPrefix(s, C, n) ==
  /\ n \in 0 .. Len(s) /\ \A k \in 1 .. n : s[k] \notin C
  /\ n = Len(s) \/ s[n + 1] \in C

\* The longest prefix in C.
LEMMA SpnIs ==
  ASSUME NEW s, Len(s) \in Nat, NEW C
  PROVE  InPrefix(s, C, Spn(s, C)) /\ \A m : InPrefix(s, C, m) => m = Spn(s, C)
<1> DEFINE X == {i \in 1 .. Len(s) : s[i] \notin C}
           n == Spn(s, C)
<1>1. Stops(s, X, n) /\ \A m : Stops(s, X, m) => m = n
  <2>1. X \in SUBSET (1 .. Len(s)) /\ n = IF X = {} THEN Len(s) ELSE FirstOf(X) - 1
    BY Zenon DEF Spn
  <2> HIDE DEF X, n
  <2> QED BY <2>1, StopsAt
<1>2. ASSUME NEW m PROVE Stops(s, X, m) <=> InPrefix(s, C, m)
  BY DEF Stops, InPrefix
<1> HIDE DEF X, n
<1>3. InPrefix(s, C, n) /\ \A m : InPrefix(s, C, m) => m = n
  BY <1>1, <1>2, Zenon
<1> QED BY <1>3 DEF n

\* The longest prefix outside C.
LEMMA CspnIs ==
  ASSUME NEW s, Len(s) \in Nat, NEW C
  PROVE  OutPrefix(s, C, Cspn(s, C)) /\ \A m : OutPrefix(s, C, m) => m = Cspn(s, C)
<1> DEFINE X == {i \in 1 .. Len(s) : s[i] \in C}
           n == Cspn(s, C)
<1>1. Stops(s, X, n) /\ \A m : Stops(s, X, m) => m = n
  <2>1. X \in SUBSET (1 .. Len(s)) /\ n = IF X = {} THEN Len(s) ELSE FirstOf(X) - 1
    BY Zenon DEF Cspn
  <2> HIDE DEF X, n
  <2> QED BY <2>1, StopsAt
<1>2. ASSUME NEW m PROVE Stops(s, X, m) <=> OutPrefix(s, C, m)
  BY DEF Stops, OutPrefix
<1> HIDE DEF X, n
<1>3. OutPrefix(s, C, n) /\ \A m : OutPrefix(s, C, m) => m = n
  BY <1>1, <1>2, Zenon
<1> QED BY <1>3 DEF n

\* The rest of a sequence.
LEMMA FromIs ==
  ASSUME NEW S, NEW s \in Seq(S), NEW i \in 1 .. Len(s) + 1
  PROVE  /\ From(s, i) \in Seq(S) /\ Len(s) \in Nat /\ Len(From(s, i)) = Len(s) - i + 1
         /\ \A k \in 1 .. Len(s) - i + 1 : From(s, i)[k] = s[i + k - 1]
  BY DEF From

-----------------------------------------------------------------------------
(* Calls.                                                                  *)

\* What a call leaves in job: its inputs and what the function makes of them.
Returned ==
  /\ job.fn = "itoa" => job.in \in Ints /\ job.out = itoa(job.in)
  /\ job.fn = "address" => job.in \in Addresses /\ job.out = ParseAddress(job.in)
  /\ job.fn = "url" => job.in \in Urls /\ job.out = ParseUrl(job.in.host \o job.in.port \o job.in.path)
  /\ job.fn = "checksum" => job.in \in Blocks /\ job.out = net_checksum(job.in)
  /\ job.fn = "qname" => job.in \in Questions /\ job.out = dns_decode_qname(job.in)
  /\ job.fn = "ack" => job.in \in Networks /\ job.out = dhcp_fill_ack(job.in)
  /\ job.fn = "response" => job.in \in Responses /\ job.out = http_client_parse_response(job.in)
  /\ job.fn = "search" => /\ job.in.registry \in Registries /\ job.in.query \in Queries
                          /\ job.out = search_system(job.in.registry, job.in.query)
  /\ job.fn = "list" => job.in \in Directories /\ job.out = fs_list_dir(job.in)

\* Before the first call nothing is returned.
LEMMA ReturnedInit == FormatsInit => Returned
<1>1. SUFFICES ASSUME FormatsInit PROVE Returned
  OBVIOUS
<1>2. job.fn = "none"
  BY <1>1 DEF FormatsInit
<1> QED BY <1>2 DEF Returned

\* A call of any of the functions returns what the function computes of its inputs.
LEMMA ReturnedNext == Returned /\ [FormatsNext]_job => Returned'
<1>1. SUFFICES ASSUME Returned, [FormatsNext]_job PROVE Returned'
  OBVIOUS
<1>2. CASE CallItoa
  <2>1. PICK v \in Ints : job' = [fn |-> "itoa", in |-> v, out |-> itoa(v)]
    BY <1>2, Zenon DEF CallItoa, Called
  <2>2. job'.fn = "itoa" /\ job'.in = v /\ job'.out = itoa(v)
    BY <2>1
  <2> QED BY <2>2 DEF Returned
<1>3. CASE CallParseAddress
  <2>1. PICK v \in Addresses : job' = [fn |-> "address", in |-> v, out |-> ParseAddress(v)]
    BY <1>3, Zenon DEF CallParseAddress, Called
  <2>2. job'.fn = "address" /\ job'.in = v /\ job'.out = ParseAddress(v)
    BY <2>1
  <2> QED BY <2>2 DEF Returned
<1>4. CASE CallParseUrl
  <2>1. PICK v \in Urls : job' = [fn |-> "url", in |-> v, out |-> ParseUrl(v.host \o v.port \o v.path)]
    BY <1>4, Zenon DEF CallParseUrl, Called
  <2>2. job'.fn = "url" /\ job'.in = v /\ job'.out = ParseUrl(v.host \o v.port \o v.path)
    BY <2>1
  <2> QED BY <2>2 DEF Returned
<1>5. CASE CallChecksum
  <2>1. PICK v \in Blocks : job' = [fn |-> "checksum", in |-> v, out |-> net_checksum(v)]
    BY <1>5, Zenon DEF CallChecksum, Called
  <2>2. job'.fn = "checksum" /\ job'.in = v /\ job'.out = net_checksum(v)
    BY <2>1
  <2> QED BY <2>2 DEF Returned
<1>6. CASE CallDecode
  <2>1. PICK v \in Questions : job' = [fn |-> "qname", in |-> v, out |-> dns_decode_qname(v)]
    BY <1>6, Zenon DEF CallDecode, Called
  <2>2. job'.fn = "qname" /\ job'.in = v /\ job'.out = dns_decode_qname(v)
    BY <2>1
  <2> QED BY <2>2 DEF Returned
<1>7. CASE CallFillAck
  <2>1. PICK v \in Networks : job' = [fn |-> "ack", in |-> v, out |-> dhcp_fill_ack(v)]
    BY <1>7, Zenon DEF CallFillAck, Called
  <2>2. job'.fn = "ack" /\ job'.in = v /\ job'.out = dhcp_fill_ack(v)
    BY <2>1
  <2> QED BY <2>2 DEF Returned
<1>8. CASE CallParseResponse
  <2>1. PICK v \in Responses : job' = [fn |-> "response", in |-> v, out |-> http_client_parse_response(v)]
    BY <1>8, Zenon DEF CallParseResponse, Called
  <2>2. job'.fn = "response" /\ job'.in = v /\ job'.out = http_client_parse_response(v)
    BY <2>1
  <2> QED BY <2>2 DEF Returned
<1>9. CASE CallListDir
  <2>1. PICK v \in Directories : job' = [fn |-> "list", in |-> v, out |-> fs_list_dir(v)]
    BY <1>9, Zenon DEF CallListDir, Called
  <2>2. job'.fn = "list" /\ job'.in = v /\ job'.out = fs_list_dir(v)
    BY <2>1
  <2> QED BY <2>2 DEF Returned
<1>10. CASE CallSearch
  <2>1. PICK r \in Registries, q \in Queries :
          job' = [fn |-> "search", in |-> [registry |-> r, query |-> q], out |-> search_system(r, q)]
    BY <1>10, Zenon DEF CallSearch, Called
  <2>2. job'.fn = "search" /\ job'.in = [registry |-> r, query |-> q] /\ job'.out = search_system(r, q)
    BY <2>1
  <2>3. job'.in.registry = r /\ job'.in.query = q
    BY <2>2
  <2> QED BY <2>2, <2>3 DEF Returned
<1>11. CASE job' = job
  BY <1>1, <1>11, Zenon DEF Returned
<1> QED BY <1>1, <1>2, <1>3, <1>4, <1>5, <1>6, <1>7, <1>8, <1>9, <1>10, <1>11, Zenon DEF FormatsNext

-----------------------------------------------------------------------------
(* The names of files.                                                     *)

\* A sequence with an element more.
LEMMA Appended ==
  ASSUME NEW S, NEW s \in Seq(S), NEW e \in S
  PROVE  /\ Append(s, e) \in Seq(S) /\ Len(s) \in Nat /\ Len(Append(s, e)) = Len(s) + 1
         /\ Append(s, e)[Len(s) + 1] = e /\ \A k \in 1 .. Len(s) : Append(s, e)[k] = s[k]
  OBVIOUS

\* The elements of a sequence.
Elements(s) == {s[k] : k \in 1 .. Len(s)}

\* The one more is the only one new.
LEMMA AppendedElements ==
  ASSUME NEW S, NEW s \in Seq(S), NEW e \in S
  PROVE  Elements(Append(s, e)) = Elements(s) \cup {e}
<1> DEFINE t == Append(s, e)
<1>1. /\ Len(s) \in Nat /\ Len(t) = Len(s) + 1 /\ t[Len(s) + 1] = e
      /\ \A k \in 1 .. Len(s) : t[k] = s[k]
  BY Appended
<1> HIDE DEF t
<1>2. ASSUME NEW x \in Elements(t) PROVE x \in Elements(s) \cup {e}
  <2>1. PICK k \in 1 .. Len(t) : x = t[k]
    BY <1>2 DEF Elements
  <2>2. k = Len(s) + 1 \/ k \in 1 .. Len(s)
    BY <1>1, <2>1
  <2> QED BY <1>1, <2>1, <2>2 DEF Elements
<1>3. ASSUME NEW x \in Elements(s) \cup {e} PROVE x \in Elements(t)
  <2>1. CASE x = e
    <3>1. Len(s) + 1 \in 1 .. Len(t)
      BY <1>1
    <3> QED BY <1>1, <2>1, <3>1 DEF Elements
  <2>2. CASE x \in Elements(s)
    <3>1. PICK k \in 1 .. Len(s) : x = s[k]
      BY <2>2 DEF Elements
    <3>2. k \in 1 .. Len(t)
      BY <1>1
    <3> QED BY <1>1, <3>1, <3>2 DEF Elements
  <2> QED BY <1>3, <2>1, <2>2
<1>4. Elements(t) = Elements(s) \cup {e}
  BY <1>2, <1>3
<1> QED BY <1>4 DEF t

-----------------------------------------------------------------------------
(* The root directory.                                                     *)

\* ls shows exactly the entries that are not hidden.
LEMMA ListShows ==
  ASSUME NEW dir \in Seq(DirEntries)
  PROVE  /\ fs_list_dir(dir) \in Seq(Nat)
         /\ Elements(fs_list_dir(dir)) = {i \in 1 .. Len(dir) : ~Hidden(dir, i)}
<1> DEFINE n == Len(dir)
           S == Seq(Nat)
           step == [i \in 1 .. n |-> [shown \in S |-> IF Hidden(dir, i) THEN shown ELSE Append(shown, i)]]
           P == [k \in 0 .. n |-> {u \in S : Elements(u) = {i \in 1 .. k : ~Hidden(dir, i)}}]
<1>1. n \in Nat
  OBVIOUS
<1>2. fs_list_dir(dir) = Runs(step, <<>>, n)
  BY DEF fs_list_dir
<1>5. <<>> \in P[0]
  <2>1. Elements(<<>>) = {}
    BY DEF Elements
  <2>2. {i \in 1 .. 0 : ~Hidden(dir, i)} = {}
    OBVIOUS
  <2>3. <<>> \in S /\ 0 \in 0 .. n
    BY <1>1
  <2> HIDE DEF S
  <2> QED BY <2>1, <2>2, <2>3, Zenon
<1>6. ASSUME NEW k \in 1 .. n, NEW u \in P[k - 1] PROVE step[k][u] \in P[k]
  <2>1. u \in S /\ Elements(u) = {i \in 1 .. k - 1 : ~Hidden(dir, i)} /\ k \in Nat
    BY <1>1, <1>6
  <2>2. step[k][u] = IF Hidden(dir, k) THEN u ELSE Append(u, k)
    BY <2>1, Zenon
  <2>3. step[k][u] \in S
    BY <2>1, <2>2
  <2>4. Elements(step[k][u]) = {i \in 1 .. k : ~Hidden(dir, i)}
    <3>1. CASE Hidden(dir, k)
      <4>1. {i \in 1 .. k - 1 : ~Hidden(dir, i)} = {i \in 1 .. k : ~Hidden(dir, i)}
        BY <1>1, <3>1
      <4> QED BY <2>1, <2>2, <3>1, <4>1, Zenon
    <3>2. CASE ~Hidden(dir, k)
      <4>1. {i \in 1 .. k - 1 : ~Hidden(dir, i)} \cup {k} = {i \in 1 .. k : ~Hidden(dir, i)}
        BY <1>1, <3>2
      <4>2. Elements(Append(u, k)) = Elements(u) \cup {k}
        BY <2>1, AppendedElements
      <4> QED BY <2>1, <2>2, <3>2, <4>1, <4>2, Zenon
    <3> QED BY <3>1, <3>2
  <2>5. k \in 0 .. n
    BY <1>1
  <2> HIDE DEF S, step
  <2> QED BY <2>3, <2>4, <2>5, Zenon
<1> HIDE DEF S, step, P
<1>7. Runs(step, <<>>, n) \in P[n]
  BY <1>1, <1>5, <1>6, RunsIn
<1>8. n \in 0 .. n
  BY <1>1
<1> QED BY <1>2, <1>7, <1>8, Zenon DEF P, S, n

\* What ls shows, cat and file find.
LEMMA ListsAgree ==
  ASSUME NEW dir \in Seq(DirEntries)
  PROVE  ListAgrees(dir, fs_list_dir(dir))
<1> DEFINE out == fs_list_dir(dir)
           n == Len(dir)
           F(name) == {i \in InUse(dir) : dir[i].filename[1] # Deleted /\ FullName(dir[i]) = name}
<1>1. Elements(out) = {i \in 1 .. n : ~Hidden(dir, i)}
  BY ListShows, Zenon
<1>2. InUse(dir) \subseteq 1 .. n /\ n \in Nat
  <2> DEFINE marks == [i \in 1 .. Len(dir) |-> dir[i].filename[1]]
  <2>1. Len(marks) = n /\ n \in Nat
    OBVIOUS
  <2> HIDE DEF marks, n
  <2>2. Cspn(marks, {EndMark}) \in 0 .. n
    BY <2>1, CspnIs DEF OutPrefix
  <2> QED BY <2>1, <2>2 DEF InUse, marks, n
<1>3. ASSUME NEW name
      PROVE  /\ dir_find_entry(dir, name) = IF F(name) = {} THEN -1 ELSE FirstOf(F(name))
             /\ F(name) # {} => FirstOf(F(name)) \in F(name) /\ \A j \in F(name) : FirstOf(F(name)) <= j
  <2>1. dir_find_entry(dir, name) = IF F(name) = {} THEN -1 ELSE FirstOf(F(name))
    BY Zenon DEF dir_find_entry
  <2>2. F(name) \in SUBSET Nat
    BY <1>2
  <2> HIDE DEF F
  <2> QED BY <2>1, <2>2, Least
<1>4. ASSUME NEW i \in 1 .. n, ~Hidden(dir, i)
      PROVE  LET at == dir_find_entry(dir, FullName(dir[i]))
             IN at \in 1 .. i /\ FullName(dir[at]) = FullName(dir[i])
  <2> DEFINE name == FullName(dir[i])
             at == FirstOf(F(name))
  <2>1. i \in F(name)
    BY <1>4, Zenon DEF Hidden
  <2>2. at \in F(name) /\ at <= i /\ dir_find_entry(dir, name) = at
    <3> HIDE DEF F, name
    <3> QED BY <1>3, <2>1
  <2>3. at \in InUse(dir) /\ FullName(dir[at]) = name
    <3> HIDE DEF name, at
    <3> QED BY <2>2
  <2>4. at \in 1 .. i
    <3> HIDE DEF name, at
    <3> QED BY <1>2, <2>2, <2>3
  <2> HIDE DEF at
  <2> QED BY <2>2, <2>3, <2>4, Zenon
<1>5. ASSUME NEW i \in 1 .. n
      PROVE  LET at == dir_find_entry(dir, FullName(dir[i]))
             IN at # -1 => at \in Elements(out) \/ dir[at].volume
  <2> DEFINE name == FullName(dir[i])
             at == dir_find_entry(dir, name)
  <2>1. SUFFICES ASSUME at # -1 PROVE at \in Elements(out) \/ dir[at].volume
    BY Zenon
  <2>2. at \in F(name)
    <3> HIDE DEF F, name
    <3> QED BY <1>3, <2>1, Zenon
  <2>3. at \in InUse(dir) /\ dir[at].filename[1] # Deleted
    <3> HIDE DEF name, at
    <3> QED BY <2>2
  <2>4. at \in 1 .. n
    BY <1>2, <2>3
  <2> HIDE DEF at
  <2> QED BY <1>1, <2>3, <2>4, Zenon DEF Hidden
<1> HIDE DEF out
<1>6. \A i \in Elements(out) : i \in 1 .. n /\ ~Hidden(dir, i)
  BY <1>1
<1>7. ListAgrees(dir, out)
  BY <1>4, <1>5, <1>6, Zenon DEF ListAgrees, Elements
<1> QED BY <1>7 DEF out

-----------------------------------------------------------------------------
(* The search engine.                                                      *)

\* contains_pattern looks for the query whatever the case of its letters.
LEMMA ContainsIs ==
  ASSUME NEW text \in Seq(Chars), NEW query \in Seq(Chars), query # <<>>
  PROVE  contains_pattern(text, query) <=> Occurs(query, text)
<1> DEFINE t == Lowered(text)
           q == Lowered(query)
           n == Len(text)
           m == Len(query)
<1>1. n \in Nat /\ m \in Nat /\ m > 0
  OBVIOUS
<1>2. Len(t) = n /\ Len(q) = m /\ (\A i \in 1 .. n : t[i] = Lower(text[i])) /\ \A j \in 1 .. m : q[j] = Lower(query[j])
  BY DEF Lowered
<1> HIDE DEF t, q
<1>3. ASSUME NEW i \in 1 .. n - m + 1, \A j \in 1 .. m : Lower(text[i + j - 1]) = Lower(query[j])
      PROVE  i \in 1 .. n /\ IsAt(t, q, i)
  <2>1. i \in 1 .. n
    BY <1>1
  <2>2. ASSUME NEW j \in 1 .. m PROVE i + j - 1 \in 1 .. n /\ t[i + j - 1] = q[j]
    <3>1. i + j - 1 \in 1 .. n
      BY <1>1
    <3> HIDE DEF n, m
    <3> QED BY <1>2, <1>3, <3>1
  <2> HIDE DEF n, m
  <2> QED BY <1>2, <2>1, <2>2, Zenon DEF IsAt
<1>4. ASSUME NEW i \in 1 .. n, IsAt(t, q, i)
      PROVE  i \in 1 .. n - m + 1 /\ \A j \in 1 .. m : Lower(text[i + j - 1]) = Lower(query[j])
  <2>1. \A j \in 1 .. m : i + j - 1 \in 1 .. n /\ t[i + j - 1] = q[j]
    BY <1>2, <1>4, Zenon DEF IsAt
  <2>2. i \in 1 .. n - m + 1
    <3>1. m \in 1 .. m
      BY <1>1
    <3>2. i + m - 1 \in 1 .. n
      BY <2>1, <3>1, Zenon
    <3> HIDE DEF n, m
    <3> QED BY <1>1, <3>2
  <2> HIDE DEF n, m
  <2> QED BY <1>2, <2>1, <2>2, Zenon
<1>5. contains_pattern(text, query) <=>
        \E i \in 1 .. n - m + 1 : \A j \in 1 .. m : Lower(text[i + j - 1]) = Lower(query[j])
  BY Zenon DEF contains_pattern
<1>6. Occurs(query, text) <=> \E i \in 1 .. n : IsAt(t, q, i)
  BY Zenon DEF Occurs, t, q
<1> HIDE DEF n, m
<1> QED BY <1>3, <1>4, <1>5, <1>6, Zenon

\* The entries in which a query occurs.
Hits(registry, query) ==
  {i \in 1 .. Len(registry) : Occurs(query, registry[i].title) \/ Occurs(query, registry[i].content)}

\* They are the ones that calculate_relevance gives points.
LEMMA RelevanceIs ==
  ASSUME NEW registry \in Seq(Topics), NEW query \in Seq(Chars), query # <<>>, NEW i \in 1 .. Len(registry)
  PROVE  /\ calculate_relevance(registry[i], query) \in Nat
         /\ calculate_relevance(registry[i], query) > 0 <=> i \in Hits(registry, query)
<1> DEFINE e == registry[i]
<1>1. e.title \in Seq(Chars) /\ e.content \in Seq(Chars)
  <2>1. e \in Topics
    OBVIOUS
  <2> HIDE DEF e
  <2> QED BY <2>1, Zenon DEF Topics
<1>2. /\ contains_pattern(e.title, query) <=> Occurs(query, e.title)
      /\ contains_pattern(e.content, query) <=> Occurs(query, e.content)
  BY <1>1, ContainsIs
<1>3. i \in Hits(registry, query) <=> contains_pattern(e.title, query) \/ contains_pattern(e.content, query)
  BY <1>2, Zenon DEF Hits
<1> DEFINE r == calculate_relevance(e, query)
           a == IF contains_pattern(e.title, query) THEN 10 ELSE 0
           b == IF contains_pattern(e.title, query) /\ (IsAt(e.title, query, 1) \/ IsAt(e.title, query, 3))
                  THEN 20 ELSE 0
           c == IF contains_pattern(e.content, query) THEN 5 ELSE 0
<1>4. r = a + b + c
  BY Zenon DEF calculate_relevance
<1>5. a \in {0, 10} /\ b \in {0, 20} /\ c \in {0, 5}
  BY Zenon
<1>6. /\ contains_pattern(e.title, query) => a = 10
      /\ ~contains_pattern(e.title, query) => a = 0 /\ b = 0
      /\ contains_pattern(e.content, query) => c = 5
      /\ ~contains_pattern(e.content, query) => c = 0
  BY Zenon
<1> HIDE DEF a, b, c, r, e
<1>7. r \in Nat
  BY <1>4, <1>5
<1>8. r > 0 <=> contains_pattern(e.title, query) \/ contains_pattern(e.content, query)
  BY <1>4, <1>5, <1>6
<1> QED BY <1>3, <1>7, <1>8, Zenon DEF r, e

Match == [entry : Nat, relevance : Nat]

\* b has the n matches of a query, the earlier of two equal ones first.
Kept(b, registry, query, n) ==
  /\ b \in Matches /\ Len(b) = n
  /\ {b[k].entry : k \in 1 .. n} = Hits(registry, query)
  /\ \A k \in 1 .. n : b[k].relevance = calculate_relevance(registry[b[k].entry], query)
  /\ \A k, l \in 1 .. n : k < l /\ b[k].relevance = b[l].relevance => b[k].entry < b[l].entry

\* From h on everything is in order.
Sorted(b, h) ==
  \A k, l \in 1 .. Len(b) : k < l /\ l > h => b[k].relevance >= b[l].relevance

\* What is before j + 1 is not less relevant.
Low(b, j) == \A k \in 1 .. j : b[k].relevance >= b[j + 1].relevance

\* Two neighbours exchanged.
Exchanged(c, b, j) ==
  /\ c \in Matches /\ Len(c) = Len(b) /\ c[j] = b[j + 1] /\ c[j + 1] = b[j]
  /\ \A k \in 1 .. Len(b) : k # j /\ k # j + 1 => c[k] = b[k]

\* SwapStep leaves the array or exchanges two neighbours.
LEMMA SwapIs ==
  ASSUME NEW b \in Matches, NEW j \in 1 .. Len(b) - 1
  PROVE  /\ b[j].relevance < b[j + 1].relevance => Exchanged(SwapStep(b, j), b, j)
         /\ ~(b[j].relevance < b[j + 1].relevance) => SwapStep(b, j) = b
<1>1. ASSUME b[j].relevance < b[j + 1].relevance
      PROVE  Exchanged(SwapStep(b, j), b, j)
  <2> DEFINE c == [b EXCEPT ![j] = b[j + 1], ![j + 1] = b[j]]
  <2>1. SwapStep(b, j) = c
    BY <1>1 DEF SwapStep
  <2>2. j \in 1 .. Len(b) /\ j + 1 \in 1 .. Len(b) /\ j # j + 1 /\ Len(b) \in Nat /\ b \in Seq(Match)
    BY DEF Matches, Match
  <2>3. b \in [1 .. Len(b) -> Match] /\ b[j] \in Match /\ b[j + 1] \in Match
    BY <2>2
  <2>4. c \in [1 .. Len(b) -> Match]
    BY <2>3
  <2>5. c \in Seq(Match) /\ Len(c) = Len(b)
    <3> HIDE DEF c
    <3> QED BY <2>2, <2>4
  <2>6. c[j] = b[j + 1] /\ c[j + 1] = b[j] /\ \A k \in 1 .. Len(b) : k # j /\ k # j + 1 => c[k] = b[k]
    BY <2>2, <2>3
  <2> HIDE DEF c
  <2> QED BY <2>1, <2>5, <2>6, Zenon DEF Exchanged, Matches, Match
<1> QED BY <1>1, Zenon DEF SwapStep

\* A turn of the inner loop.
LEMMA SwapKeeps ==
  ASSUME NEW registry, NEW query, NEW n \in Nat, NEW b, Kept(b, registry, query, n),
         NEW j \in 1 .. n - 1, NEW h \in Nat, j + 1 <= h, Sorted(b, h), Low(b, j - 1)
  PROVE  /\ Kept(SwapStep(b, j), registry, query, n)
         /\ Sorted(SwapStep(b, j), h) /\ Low(SwapStep(b, j), j)
<1> DEFINE c == SwapStep(b, j)
           R(k) == b[k].relevance
<1>1. /\ b \in Matches /\ Len(b) = n /\ j \in 1 .. n /\ j + 1 \in 1 .. n /\ j \in Nat
  BY DEF Kept
<1>2. \A k \in 1 .. n : b[k].relevance \in Nat
  <2>1. ASSUME NEW k \in 1 .. n PROVE b[k] \in Match
    <3>1. b \in Seq(Match)
      BY <1>1, Zenon DEF Matches, Match
    <3> QED BY <1>1, <3>1
  <2> QED BY <2>1, Zenon DEF Match
<1>3. CASE ~(b[j].relevance < b[j + 1].relevance)
  <2>1. c = b
    BY <1>1, <1>3, SwapIs
  <2>2. Low(b, j)
    <3>1. ASSUME NEW k \in 1 .. j PROVE b[k].relevance >= b[j + 1].relevance
      <4>1. k \in 1 .. j - 1 => b[k].relevance >= b[j].relevance
        BY <1>1 DEF Low
      <4>2. k = j \/ k \in 1 .. j - 1
        BY <1>1
      <4>3. k \in 1 .. n
        BY <1>1
      <4>4. b[k].relevance \in Nat /\ b[j].relevance \in Nat /\ b[j + 1].relevance \in Nat
        BY <1>1, <1>2, <4>3
      <4> QED BY <1>3, <4>1, <4>2, <4>4
    <3> QED BY <3>1 DEF Low
  <2> QED BY <2>1, <2>2, Zenon
<1>4. CASE b[j].relevance < b[j + 1].relevance
  <2>1. /\ c \in Matches /\ Len(c) = n /\ c[j] = b[j + 1] /\ c[j + 1] = b[j]
        /\ \A k \in 1 .. n : k # j /\ k # j + 1 => c[k] = b[k]
    BY <1>1, <1>4, SwapIs, Zenon DEF Exchanged
  <2> HIDE DEF c
  <2>2. {c[k].entry : k \in 1 .. n} = {b[k].entry : k \in 1 .. n}
    <3>1. ASSUME NEW k \in 1 .. n PROVE \E l \in 1 .. n : c[k].entry = b[l].entry
      BY <1>1, <2>1
    <3>2. ASSUME NEW k \in 1 .. n PROVE \E l \in 1 .. n : b[k].entry = c[l].entry
      BY <1>1, <2>1
    <3>3. ASSUME NEW x \in {c[k].entry : k \in 1 .. n} PROVE x \in {b[k].entry : k \in 1 .. n}
      BY <3>1
    <3>4. ASSUME NEW x \in {b[k].entry : k \in 1 .. n} PROVE x \in {c[k].entry : k \in 1 .. n}
      BY <3>2
    <3> QED BY <3>3, <3>4
  <2>3. \A k \in 1 .. n : c[k].relevance = calculate_relevance(registry[c[k].entry], query)
    <3>1. ASSUME NEW k \in 1 .. n
          PROVE  c[k].relevance = calculate_relevance(registry[c[k].entry], query)
      <4>1. PICK l \in 1 .. n : c[k] = b[l]
        BY <1>1, <2>1
      <4>2. b[l].relevance = calculate_relevance(registry[b[l].entry], query)
        BY <4>1, Zenon DEF Kept
      <4> QED BY <4>1, <4>2, Zenon
    <3> QED BY <3>1
  <2>4. ASSUME NEW k \in 1 .. n, NEW l \in 1 .. n, k < l, c[k].relevance = c[l].relevance
        PROVE  c[k].entry < c[l].entry
    <3>1. \E p, q \in 1 .. n : p < q /\ c[k] = b[p] /\ c[l] = b[q]
      <4>1. ~(k = j /\ l = j + 1)
        <5>1. b[j].relevance \in Nat /\ b[j + 1].relevance \in Nat
          BY <1>1, <1>2
        <5> QED BY <1>4, <2>1, <2>4, <5>1
      <4>2. CASE k = j
        BY <1>1, <2>1, <2>4, <4>1, <4>2
      <4>3. CASE k = j + 1
        BY <1>1, <2>1, <2>4, <4>1, <4>3
      <4>4. CASE k # j /\ k # j + 1
        <5>1. c[k] = b[k]
          BY <2>1, <4>4
        <5>2. CASE l = j
          <6>1. k < j + 1
            BY <1>1, <2>4, <5>2
          <6> QED BY <1>1, <2>1, <5>1, <5>2, <6>1
        <5>3. CASE l = j + 1
          <6>1. k < j
            BY <1>1, <2>4, <4>4, <5>3
          <6> QED BY <1>1, <2>1, <5>1, <5>3, <6>1
        <5>4. CASE l # j /\ l # j + 1
          BY <2>1, <2>4, <5>1, <5>4
        <5> QED BY <5>2, <5>3, <5>4
      <4> QED BY <4>2, <4>3, <4>4
    <3> QED BY <2>4, <3>1, Zenon DEF Kept
  <2>5. Kept(c, registry, query, n)
    BY <2>1, <2>2, <2>3, <2>4, Zenon DEF Kept
  <2>6. Sorted(c, h)
    <3>1. ASSUME NEW k \in 1 .. n, NEW l \in 1 .. n, k < l, l > h
          PROVE  c[k].relevance >= c[l].relevance
      <4>1. l # j /\ l # j + 1 /\ j < l /\ j + 1 < l
        BY <1>1, <3>1
      <4>2. c[l] = b[l]
        BY <2>1, <4>1
      <4>3. \E p \in 1 .. n : p < l /\ c[k] = b[p]
        BY <1>1, <2>1, <3>1, <4>1
      <4> QED BY <1>1, <3>1, <4>2, <4>3, Zenon DEF Sorted
    <3> QED BY <2>1, <3>1, Zenon DEF Sorted
  <2>7. Low(c, j)
    <3>1. ASSUME NEW k \in 1 .. j PROVE c[k].relevance >= c[j + 1].relevance
      <4>1. CASE k = j
        <5>1. b[j].relevance \in Nat /\ b[j + 1].relevance \in Nat
          BY <1>1, <1>2
        <5> QED BY <1>4, <2>1, <4>1, <5>1
      <4>2. CASE k # j
        <5>1. k \in 1 .. j - 1 /\ k \in 1 .. n /\ k # j + 1
          BY <1>1, <4>2
        <5>2. b[k].relevance >= b[j - 1 + 1].relevance
          BY <5>1, Zenon DEF Low
        <5>3. j - 1 + 1 = j
          BY <1>1
        <5> QED BY <2>1, <4>2, <5>1, <5>2, <5>3, Zenon
      <4> QED BY <4>1, <4>2
    <3> QED BY <3>1, Zenon DEF Low
  <2> QED BY <2>5, <2>6, <2>7 DEF c
<1> QED BY <1>3, <1>4

\* The matches among the first i entries of the registry, in its order.
FoundIn(m, registry, query, i) ==
  /\ m \in Matches /\ Len(m) <= i
  /\ \A k \in 1 .. Len(m) : m[k].relevance = calculate_relevance(registry[m[k].entry], query)
  /\ \A k \in 1 .. Len(m) : m[k].entry \in Hits(registry, query) \cap (1 .. i)
  /\ \A e \in Hits(registry, query) \cap (1 .. i) : \E k \in 1 .. Len(m) : m[k].entry = e
  /\ \A k, l \in 1 .. Len(m) : k < l => m[k].entry < m[l].entry

\* One more match.
LEMMA FoundMore ==
  ASSUME NEW registry \in Seq(Topics), NEW query \in Seq(Chars), query # <<>>,
         NEW i \in 1 .. Len(registry), NEW m, FoundIn(m, registry, query, i - 1),
         calculate_relevance(registry[i], query) > 0
  PROVE  FoundIn(Append(m, [entry |-> i, relevance |-> calculate_relevance(registry[i], query)]),
                 registry, query, i)
<1> DEFINE r == calculate_relevance(registry[i], query)
           e == [entry |-> i, relevance |-> r]
           c == Append(m, e)
           n == Len(m)
           H == Hits(registry, query)
<1>1. r \in Nat /\ i \in H /\ i \in Nat
  BY RelevanceIs
<1>2. e \in Match /\ e.entry = i /\ e.relevance = r
  BY <1>1 DEF Match
<1>3. m \in Seq(Match) /\ n <= i - 1
  BY DEF FoundIn, Matches, Match
<1> HIDE DEF e
<1>4. /\ c \in Seq(Match) /\ n \in Nat /\ Len(c) = n + 1 /\ c[n + 1] = e
      /\ \A k \in 1 .. n : c[k] = m[k]
  BY <1>2, <1>3, Appended
<1> HIDE DEF c, n, H, r
<1>5. /\ \A k \in 1 .. n : m[k].relevance = calculate_relevance(registry[m[k].entry], query)
      /\ \A k \in 1 .. n : m[k].entry \in H \cap (1 .. i - 1)
      /\ \A x \in H \cap (1 .. i - 1) : \E k \in 1 .. n : m[k].entry = x
      /\ \A k, l \in 1 .. n : k < l => m[k].entry < m[l].entry
  BY Zenon DEF FoundIn, H, n
<1>6. ASSUME NEW k \in 1 .. n + 1 PROVE k = n + 1 \/ k \in 1 .. n
  BY <1>4
<1>7. \A k \in 1 .. n + 1 : c[k].relevance = calculate_relevance(registry[c[k].entry], query)
  BY <1>2, <1>4, <1>5, <1>6, Zenon DEF r
<1>8. ASSUME NEW k \in 1 .. n + 1 PROVE c[k].entry \in H \cap (1 .. i)
  <2>1. CASE k = n + 1
    <3>1. i \in 1 .. i
      BY <1>1
    <3> QED BY <1>1, <1>2, <1>4, <2>1, <3>1, Zenon
  <2>2. CASE k \in 1 .. n
    <3>1. c[k].entry \in H \cap (1 .. i - 1)
      BY <1>4, <1>5, <2>2, Zenon
    <3> QED BY <1>1, <3>1
  <2> QED BY <1>6, <2>1, <2>2
<1>9. ASSUME NEW x \in H \cap (1 .. i) PROVE \E k \in 1 .. n + 1 : c[k].entry = x
  <2>1. CASE x = i
    <3>1. n + 1 \in 1 .. n + 1
      BY <1>4
    <3> QED BY <1>2, <1>4, <2>1, <3>1, Zenon
  <2>2. CASE x # i
    <3>1. x \in H \cap (1 .. i - 1)
      BY <1>1, <2>2
    <3>2. PICK k \in 1 .. n : m[k].entry = x
      BY <1>5, <3>1, Zenon
    <3>3. k \in 1 .. n + 1
      BY <1>4
    <3> QED BY <1>4, <3>2, <3>3, Zenon
  <2> QED BY <2>1, <2>2
<1>10. ASSUME NEW k \in 1 .. n + 1, NEW l \in 1 .. n + 1, k < l PROVE c[k].entry < c[l].entry
  <2>1. k \in 1 .. n
    BY <1>4, <1>10
  <2>2. CASE l = n + 1
    <3>1. m[k].entry \in 1 .. i - 1
      BY <1>5, <2>1
    <3>2. c[k].entry = m[k].entry /\ c[l].entry = i
      BY <1>2, <1>4, <2>1, <2>2, Zenon
    <3> QED BY <1>1, <3>1, <3>2
  <2>3. CASE l \in 1 .. n
    BY <1>4, <1>5, <1>10, <2>1, <2>3, Zenon
  <2> QED BY <1>6, <2>2, <2>3
<1>11. Len(c) <= i
  BY <1>1, <1>3, <1>4
<1>12. FoundIn(c, registry, query, i)
  BY <1>4, <1>7, <1>8, <1>9, <1>10, <1>11, Zenon DEF FoundIn, H, Matches, Match
<1> QED BY <1>12 DEF c, e, r

\* An entry without a match.
LEMMA FoundNoMore ==
  ASSUME NEW registry \in Seq(Topics), NEW query \in Seq(Chars), query # <<>>,
         NEW i \in 1 .. Len(registry), NEW m, FoundIn(m, registry, query, i - 1),
         ~(calculate_relevance(registry[i], query) > 0)
  PROVE  FoundIn(m, registry, query, i)
<1> DEFINE H == Hits(registry, query)
<1>1. i \notin H /\ i \in Nat
  BY RelevanceIs
<1>2. Len(m) \in Nat
  BY DEF FoundIn, Matches
<1> HIDE DEF H
<1>3. H \cap (1 .. i) = H \cap (1 .. i - 1)
  BY <1>1
<1>4. Len(m) <= i - 1 => Len(m) <= i
  BY <1>1, <1>2
<1> QED BY <1>3, <1>4, Zenon DEF FoundIn, H

\* search_system finds every match, in the order of the registry.
LEMMA FoundAll ==
  ASSUME NEW registry \in Seq(Topics), NEW query \in Seq(Chars), query # <<>>,
         Len(registry) <= MaxMatches
  PROVE  FoundIn(Found(registry, query), registry, query, Len(registry))
<1> DEFINE n == Len(registry)
           r(i) == calculate_relevance(registry[i], query)
           e(i) == [entry |-> i, relevance |-> r(i)]
           step == [i \in 1 .. n |-> [m \in Matches |->
                      IF r(i) > 0 /\ Len(m) < MaxMatches THEN Append(m, e(i)) ELSE m]]
           P == [i \in 0 .. n |-> {m \in Matches : FoundIn(m, registry, query, i)}]
<1>1. n \in Nat /\ n \in 0 .. n /\ 0 \in 0 .. n /\ MaxMatches \in Nat
  BY LookupsAssumption
<1>2. Found(registry, query) = Runs(step, <<>>, n)
  BY Zenon DEF Found
<1>3. <<>> \in P[0]
  <2>1. FoundIn(<<>>, registry, query, 0)
    BY DEF FoundIn, Matches
  <2> QED BY <1>1, <2>1, Zenon DEF FoundIn
<1>4. ASSUME NEW i \in 1 .. n, NEW m \in P[i - 1] PROVE step[i][m] \in P[i]
  <2>1. i - 1 \in 0 .. n /\ i \in 0 .. n
    BY <1>1
  <2>2. m \in Matches /\ FoundIn(m, registry, query, i - 1)
    BY <1>4, <2>1, Zenon
  <2>3. Len(m) < MaxMatches
    <3>1. Len(m) \in Nat /\ Len(m) <= i - 1
      BY <2>2 DEF FoundIn, Matches
    <3> QED BY <1>1, <3>1
  <2>4. step[i][m] = IF r(i) > 0 THEN Append(m, e(i)) ELSE m
    BY <2>2, <2>3, Zenon
  <2> DEFINE c == step[i][m]
  <2>5. FoundIn(c, registry, query, i)
    <3>1. CASE r(i) > 0
      BY <2>2, <2>4, <3>1, FoundMore, Zenon
    <3>2. CASE ~(r(i) > 0)
      BY <2>2, <2>4, <3>2, FoundNoMore, Zenon
    <3> QED BY <3>1, <3>2
  <2> HIDE DEF step
  <2> QED BY <2>1, <2>5, Zenon DEF FoundIn
<1> HIDE DEF step, P
<1>5. Runs(step, <<>>, n) \in P[n]
  BY <1>1, <1>3, <1>4, RunsIn
<1> QED BY <1>1, <1>2, <1>5, Zenon DEF P

\* So before the sort the matches are the hits.
LEMMA FoundKept ==
  ASSUME NEW registry \in Seq(Topics), NEW query, NEW m,
         FoundIn(m, registry, query, Len(registry))
  PROVE  Kept(m, registry, query, Len(m))
<1> DEFINE H == Hits(registry, query)
<1>1. H \cap (1 .. Len(registry)) = H
  BY DEF Hits
<1>2. /\ \A k \in 1 .. Len(m) : m[k].entry \in H
      /\ \A e \in H : \E k \in 1 .. Len(m) : m[k].entry = e
  BY <1>1, Zenon DEF FoundIn
<1>3. {m[k].entry : k \in 1 .. Len(m)} = H
  BY <1>2
<1> QED BY <1>3, Zenon DEF Kept, FoundIn

\* A pass of the bubble sort over the first h - 1 pairs puts the least of
\* the first h matches behind the others.
LEMMA PassKeeps ==
  ASSUME NEW registry, NEW query, NEW n \in Nat, NEW b, Kept(b, registry, query, n),
         NEW h \in 1 .. n, Sorted(b, h)
  PROVE  /\ Kept(Pass(b, h - 1), registry, query, n)
         /\ Sorted(Pass(b, h - 1), h - 1)
<1> DEFINE p == h - 1
           step == [j \in 1 .. p |-> [c \in Matches |-> SwapStep(c, j)]]
           P == [j \in 0 .. p |-> {c \in Matches : Kept(c, registry, query, n) /\ Sorted(c, h) /\ Low(c, j)}]
<1>1. p \in Nat /\ 0 \in 0 .. p /\ p \in 0 .. p /\ h \in Nat
  OBVIOUS
<1>2. Pass(b, h - 1) = Runs(step, b, p)
  BY Zenon DEF Pass
<1>3. b \in P[0]
  <2>1. Low(b, 0)
    BY DEF Low
  <2> QED BY <1>1, <2>1, Zenon DEF Kept
<1>4. ASSUME NEW j \in 1 .. p, NEW c \in P[j - 1] PROVE step[j][c] \in P[j]
  <2>1. j - 1 \in 0 .. p /\ j \in 0 .. p /\ j \in 1 .. n - 1 /\ j + 1 <= h
    OBVIOUS
  <2>2. c \in Matches /\ Kept(c, registry, query, n) /\ Sorted(c, h) /\ Low(c, j - 1)
    BY <1>4, <2>1, Zenon
  <2>3. step[j][c] = SwapStep(c, j)
    BY <2>2, Zenon
  <2>4. /\ Kept(SwapStep(c, j), registry, query, n)
        /\ Sorted(SwapStep(c, j), h) /\ Low(SwapStep(c, j), j)
    BY <1>1, <2>1, <2>2, SwapKeeps
  <2>5. SwapStep(c, j) \in Matches
    BY <2>4, Zenon DEF Kept
  <2> HIDE DEF step
  <2> QED BY <2>1, <2>3, <2>4, <2>5, Zenon
<1> DEFINE d == Runs(step, b, p)
<1> HIDE DEF step, P
<1>5. d \in P[p]
  BY <1>1, <1>3, <1>4, RunsIn
<1> HIDE DEF d
<1>6. Kept(d, registry, query, n) /\ Sorted(d, h) /\ Low(d, p)
  BY <1>1, <1>5, Zenon DEF P
<1>7. Sorted(d, p)
  <2>1. ASSUME NEW k \in 1 .. n, NEW l \in 1 .. n, k < l, l > p
        PROVE  d[k].relevance >= d[l].relevance
    <3>1. CASE l > h
      BY <1>6, <2>1, <3>1, Zenon DEF Sorted, Kept
    <3>2. CASE ~(l > h)
      <4>1. l = p + 1 /\ k \in 1 .. p
        BY <2>1, <3>2
      <4> HIDE DEF p
      <4> QED BY <1>6, <4>1, Zenon DEF Low
    <3> QED BY <3>1, <3>2
  <2> QED BY <1>6, <2>1, Zenon DEF Sorted, Kept
<1> QED BY <1>2, <1>6, <1>7, Zenon DEF d

\* The whole sort.
LEMMA SearchSorts ==
  ASSUME NEW registry \in Seq(Topics), NEW query \in Seq(Chars), query # <<>>,
         Len(registry) <= MaxMatches
  PROVE  LET out == search_system(registry, query)
         IN Kept(out, registry, query, Len(out)) /\ Sorted(out, 0)
<1> DEFINE m == Found(registry, query)
           n == Len(m)
           step == [i \in 1 .. n |-> [b \in Matches |-> Pass(b, n - i)]]
           P == [i \in 0 .. n |-> {b \in Matches : Kept(b, registry, query, n) /\ Sorted(b, n - i)}]
           out == search_system(registry, query)
<1>1. out = Runs(step, m, n)
  BY Zenon DEF search_system
<1>2. m \in Matches /\ Kept(m, registry, query, n)
  BY FoundAll, FoundKept, Zenon DEF FoundIn
<1>3. n \in Nat
  BY <1>2 DEF Matches
<1> HIDE DEF m
<1>4. m \in P[0]
  <2>1. Sorted(m, n - 0)
    BY <1>3 DEF Sorted
  <2>2. 0 \in 0 .. n
    BY <1>3
  <2> QED BY <1>2, <2>1, <2>2, Zenon
<1>5. ASSUME NEW i \in 1 .. n, NEW b \in P[i - 1] PROVE step[i][b] \in P[i]
  <2>1. i - 1 \in 0 .. n /\ i \in 0 .. n /\ n - (i - 1) \in 1 .. n /\ n - (i - 1) - 1 = n - i
    BY <1>3
  <2>2. b \in Matches /\ Kept(b, registry, query, n) /\ Sorted(b, n - (i - 1))
    BY <1>5, <2>1, Zenon
  <2>3. step[i][b] = Pass(b, n - i)
    BY <2>2, Zenon
  <2>4. Kept(Pass(b, n - i), registry, query, n) /\ Sorted(Pass(b, n - i), n - i)
    <3> DEFINE h == n - (i - 1)
    <3>1. h \in 1 .. n /\ Sorted(b, h) /\ h - 1 = n - i
      BY <2>1, <2>2, Zenon
    <3> HIDE DEF h
    <3> QED BY <1>3, <2>2, <3>1, PassKeeps, Zenon
  <2>5. Pass(b, n - i) \in Matches
    BY <2>4, Zenon DEF Kept
  <2> HIDE DEF step, n
  <2> QED BY <2>1, <2>3, <2>4, <2>5, Zenon
<1> HIDE DEF step, P, n, out
<1>6. out \in P[n]
  BY <1>1, <1>3, <1>4, <1>5, RunsIn
<1>7. n \in 0 .. n /\ n - n = 0
  BY <1>3
<1>8. Kept(out, registry, query, n) /\ Sorted(out, 0)
  BY <1>6, <1>7, Zenon DEF P
<1> QED BY <1>8, Zenon DEF Kept, out

\* A search shows every match once, the most relevant first.
LEMMA SearchRanks ==
  ASSUME NEW registry \in Seq(Topics), NEW query \in Seq(Chars), query # <<>>,
         Len(registry) <= MaxMatches
  PROVE  Ranked(registry, query, search_system(registry, query))
<1> DEFINE out == search_system(registry, query)
           n == Len(out)
<1>1. Kept(out, registry, query, n) /\ Sorted(out, 0)
  BY SearchSorts, Zenon
<1> HIDE DEF out
<1>2. out \in Seq(Match) /\ n \in Nat
  BY <1>1 DEF Kept, Matches, Match
<1>3. ASSUME NEW k \in 1 .. n, NEW l \in 1 .. n, k < l
      PROVE  LET a == calculate_relevance(registry[out[k].entry], query)
                 b == calculate_relevance(registry[out[l].entry], query)
             IN a > b \/ (a = b /\ out[k].entry < out[l].entry)
  <2> DEFINE a == calculate_relevance(registry[out[k].entry], query)
             b == calculate_relevance(registry[out[l].entry], query)
  <2>1. out[k].relevance = a /\ out[l].relevance = b
    BY <1>1, Zenon DEF Kept
  <2>2. out[k] \in Match /\ out[l] \in Match
    BY <1>2
  <2>3. a \in Nat /\ b \in Nat
    BY <2>1, <2>2, Zenon DEF Match
  <2>4. l > 0
    BY <1>2
  <2>5. a >= b
    BY <1>1, <1>3, <2>1, <2>4, Zenon DEF Sorted
  <2>6. a = b => out[k].entry < out[l].entry
    BY <1>1, <1>3, <2>1, Zenon DEF Kept
  <2> HIDE DEF a, b
  <2>7. a > b \/ a = b
    BY <2>3, <2>5
  <2> QED BY <2>6, <2>7, Zenon DEF a, b
<1>4. {out[k].entry : k \in 1 .. n} = Hits(registry, query)
  BY <1>1, Zenon DEF Kept
<1>5. Ranked(registry, query, out)
  BY <1>3, <1>4, Zenon DEF Ranked, Hits
<1> QED BY <1>5 DEF out

-----------------------------------------------------------------------------
(* The acknowledgement of DHCP, and the response of an HTTP server.        *)

\* Where a sequence goes on outside C until the end or to the place j.
LEMMA CspnFrom ==
  ASSUME NEW S, NEW s \in Seq(S), NEW i \in 1 .. Len(s) + 1, NEW C,
         NEW j, j = i + Cspn(From(s, i), C)
  PROVE  /\ j \in i .. Len(s) + 1 /\ \A k \in i .. j - 1 : s[k] \notin C
         /\ j <= Len(s) => s[j] \in C
<1> DEFINE t == From(s, i)
           n == Cspn(t, C)
<1>1. /\ Len(s) \in Nat /\ Len(t) = Len(s) - i + 1
      /\ \A k \in 1 .. Len(s) - i + 1 : t[k] = s[i + k - 1]
  BY FromIs
<1>2. Len(t) \in Nat
  BY <1>1
<1> HIDE DEF t
<1>3. OutPrefix(t, C, n)
  BY <1>2, CspnIs
<1> HIDE DEF n
<1>4. n \in 0 .. Len(t) /\ (\A k \in 1 .. n : t[k] \notin C) /\ (n = Len(t) \/ t[n + 1] \in C)
  BY <1>3 DEF OutPrefix
<1>5. j = i + n
  BY DEF t, n
<1>6. j \in i .. Len(s) + 1
  BY <1>1, <1>4, <1>5
<1>7. ASSUME NEW k \in i .. j - 1 PROVE s[k] \notin C
  <2>1. k - i + 1 \in 1 .. n /\ k - i + 1 \in 1 .. Len(s) - i + 1 /\ i + (k - i + 1) - 1 = k
    BY <1>1, <1>4, <1>5
  <2>2. t[k - i + 1] = s[i + (k - i + 1) - 1]
    BY <1>1, <2>1, Zenon
  <2> QED BY <1>4, <2>1, <2>2, Zenon
<1>8. ASSUME j <= Len(s) PROVE s[j] \in C
  <2>1. n + 1 \in 1 .. Len(s) - i + 1 /\ n # Len(t) /\ i + (n + 1) - 1 = j
    BY <1>1, <1>4, <1>5, <1>8
  <2>2. t[n + 1] = s[i + (n + 1) - 1]
    BY <1>1, <2>1, Zenon
  <2> QED BY <1>4, <2>1, <2>2, Zenon
<1> QED BY <1>6, <1>7, <1>8

\* The least of a set is the only one that is not above any of its elements.
LEMMA LeastIs ==
  ASSUME NEW S \in SUBSET Nat, NEW x \in S, \A y \in S : x <= y
  PROVE  FirstOf(S) = x
<1>1. FirstOf(S) \in S /\ FirstOf(S) <= x
  BY Least
<1>2. x <= FirstOf(S) /\ x \in Nat /\ FirstOf(S) \in Nat
  BY <1>1
<1> QED BY <1>1, <1>2

-----------------------------------------------------------------------------
(* Packets.                                                                *)

\* The message type is the first option behind the cookie.
TypeFirst(s) == s \in Seq(0 .. 255) /\ Len(s) > 6 /\ s[5] = 53 /\ s[6] = 1

\* It stays there whatever follows.
LEMMA TypeStays ==
  ASSUME NEW s, TypeFirst(s), NEW t \in Seq(0 .. 255)
  PROVE  TypeFirst(s \o t)
<1> DEFINE B == 0 .. 255
<1>1. s \in Seq(B) /\ t \in Seq(B) /\ Len(s) > 6 /\ s[5] = 53 /\ s[6] = 1
  BY DEF TypeFirst
<1> HIDE DEF B
<1>2. s \o t \in Seq(B) /\ Len(s \o t) > 6 /\ (s \o t)[5] = 53 /\ (s \o t)[6] = 1
  BY <1>1
<1> QED BY <1>2 DEF B, TypeFirst

\* dhcp_fill_ack changes the message type of the offer and nothing else.
LEMMA AckIs ==
  ASSUME NEW net \in Networks
  PROVE  dhcp_fill_ack(net) = [dhcp_fill_offer(net) EXCEPT ![7] = DHCPACK]
<1> DEFINE opt == dhcp_fill_offer(net)
           turns == DhcpOptions \div 2
           step == [k \in 1 .. turns |-> [i \in Nat |-> OptionStep(opt, i)]]
           at == Runs(step, 4, turns)
<1>1. opt[5] = 53 /\ opt[6] = 1
  <2> DEFINE mask == net.netmask
             gw == net.gateway
             ip == net.server_ip
             head == <<99, 130, 83, 99, 53, 1, DHCPOFFER, 1, 4>>
             lease == <<51, 4, 0, 0, 14, 16, 255>>
             text == head \o mask \o <<3, 4>> \o gw \o <<54, 4>> \o ip \o lease
  <2>1. mask \in Seq(0 .. 255) /\ gw \in Seq(0 .. 255) /\ ip \in Seq(0 .. 255)
    <3>1. net \in [netmask : Seq(0 .. 255), gateway : Seq(0 .. 255), server_ip : Seq(0 .. 255)]
      BY PacketsAssumption
    <3> QED BY <3>1, Zenon
  <2> HIDE DEF mask, gw, ip
  <2>2. Len(text) \in Nat /\ Len(text) > 6 /\ text[5] = 53 /\ text[6] = 1
    <3>1. TypeFirst(head)
      BY DEF TypeFirst, DHCPOFFER
    <3>2. <<3, 4>> \in Seq(0 .. 255) /\ <<54, 4>> \in Seq(0 .. 255) /\ lease \in Seq(0 .. 255)
      OBVIOUS
    <3> HIDE DEF head, lease
    <3>3. TypeFirst(head \o mask)
      BY <2>1, <3>1, TypeStays, Zenon
    <3>4. TypeFirst(head \o mask \o <<3, 4>>)
      BY <3>2, <3>3, TypeStays, Zenon
    <3>5. TypeFirst(head \o mask \o <<3, 4>> \o gw)
      BY <2>1, <3>4, TypeStays, Zenon
    <3>6. TypeFirst(head \o mask \o <<3, 4>> \o gw \o <<54, 4>>)
      BY <3>2, <3>5, TypeStays, Zenon
    <3>7. TypeFirst(head \o mask \o <<3, 4>> \o gw \o <<54, 4>> \o ip)
      BY <2>1, <3>6, TypeStays, Zenon
    <3>8. TypeFirst(text)
      BY <3>2, <3>7, TypeStays, Zenon
    <3> HIDE DEF text
    <3> QED BY <3>8 DEF TypeFirst
  <2>3. opt = [p \in 1 .. DhcpOptions |-> IF p <= Len(text) THEN text[p] ELSE 0]
    BY Zenon DEF dhcp_fill_offer, mask, gw, ip
  <2> HIDE DEF text, opt
  <2> QED BY <2>2, <2>3, PacketsAssumption
<1> HIDE DEF opt
<1>2. turns \in Nat /\ 4 \in Nat
  BY PacketsAssumption
<1>3. IsType(opt, 4)
  BY <1>1, PacketsAssumption DEF IsType
<1>4. at = 4
  <2> DEFINE P == [k \in 0 .. turns |-> {4}]
  <2>1. 4 \in P[0]
    BY <1>2
  <2>2. ASSUME NEW k \in 1 .. turns, NEW u \in P[k - 1] PROVE step[k][u] \in P[k]
    <3>1. k - 1 \in 0 .. turns /\ k \in 0 .. turns
      BY <1>2
    <3>2. u = 4
      BY <2>2, <3>1, Zenon
    <3>3. step[k][4] = OptionStep(opt, 4)
      BY <1>2, Zenon
    <3>4. OptionStep(opt, 4) = 4
      BY <1>3, Zenon DEF OptionStep
    <3> HIDE DEF step
    <3> QED BY <3>1, <3>2, <3>3, <3>4, Zenon
  <2>3. turns \in 0 .. turns
    BY <1>2
  <2> HIDE DEF step, P, turns
  <2>4. Runs(step, 4, turns) \in P[turns]
    BY <1>2, <2>1, <2>2, RunsIn
  <2> QED BY <2>3, <2>4, Zenon DEF P
<1>5. dhcp_fill_ack(net) = IF IsType(opt, at) THEN [opt EXCEPT ![at + 3] = DHCPACK] ELSE opt
  BY Zenon DEF dhcp_fill_ack, opt
<1> HIDE DEF at
<1>6. at + 3 = 7
  BY <1>4
<1> QED BY <1>3, <1>4, <1>5, <1>6, Zenon DEF opt

\* Every line from the first to the one at i holds something.
Headers(buf, first, i) ==
  /\ i \in first .. Len(buf) + 2 /\ (i <= Len(buf) + 1 => buf[i - 1] = Lf)
  /\ \A k \in first .. i - 1 : k <= Len(buf) => ~(buf[k] = Lf /\ buf[k - 1] = Lf)

\* A line more.
LEMMA HeaderMore ==
  ASSUME NEW buf \in Seq(Chars), NEW first \in Nat, first > 1, NEW i, Headers(buf, first, i)
  PROVE  /\ Headers(buf, first, HeaderStep(buf, i)) /\ i \in Nat
         /\ \/ i > Len(buf) /\ HeaderStep(buf, i) = i
            \/ buf[i] = Lf /\ HeaderStep(buf, i) = i
            \/ HeaderStep(buf, i) > i
<1> DEFINE n == Len(buf)
           h == HeaderStep(buf, i)
           j == i + Cspn(From(buf, i), {Lf})
<1>1. n \in Nat /\ i \in Nat /\ i >= first
  BY DEF Headers
<1>2. CASE i > n \/ buf[i] = Lf
  BY <1>1, <1>2, Zenon DEF HeaderStep
<1>3. CASE ~(i > n \/ buf[i] = Lf)
  <2>1. i \in 1 .. n + 1 /\ i <= n
    BY <1>1, <1>3
  <2>3. h = j + 1
    BY <1>3, Zenon DEF HeaderStep
  <2>0. j = i + Cspn(From(buf, i), {Lf})
    OBVIOUS
  <2> HIDE DEF j, h
  <2>2. j \in i .. n + 1 /\ (\A k \in i .. j - 1 : buf[k] # Lf) /\ (j <= n => buf[j] = Lf)
    BY <2>0, <2>1, CspnFrom
  <2>4. h \in first .. n + 2 /\ h > i
    BY <1>1, <2>2, <2>3
  <2>5. h <= n + 1 => buf[h - 1] = Lf
    BY <1>1, <2>2, <2>3
  <2>6. ASSUME NEW k \in first .. h - 1, k <= n, buf[k] = Lf, buf[k - 1] = Lf PROVE FALSE
    <3>1. CASE k \in first .. i - 1
      BY <2>6, <3>1, Zenon DEF Headers
    <3>2. CASE k \in i .. j - 1
      BY <2>2, <2>6, <3>2
    <3>3. CASE k = j
      <4>1. j # i
        BY <1>3, <2>6, <3>3, Zenon
      <4>2. k - 1 \in i .. j - 1
        BY <1>1, <2>2, <3>3, <4>1
      <4> QED BY <2>2, <2>6, <4>2
    <3> QED BY <1>1, <2>2, <2>3, <2>6, <3>1, <3>2, <3>3
  <2>7. Headers(buf, first, h)
    BY <2>4, <2>5, <2>6, Zenon DEF Headers
  <2> QED BY <1>1, <2>4, <2>7 DEF h
<1> QED BY <1>2, <1>3

\* The loop over the headers ends at an empty line or behind the response.
LEMMA HeadersEnd ==
  ASSUME NEW buf \in Seq(Chars), NEW first \in 2 .. Len(buf) + 1, buf[first - 1] = Lf
  PROVE  LET end == Runs([k \in 1 .. Len(buf) |-> [i \in Nat |-> HeaderStep(buf, i)]], first, Len(buf))
         IN Headers(buf, first, end) /\ (end > Len(buf) \/ buf[end] = Lf)
<1> DEFINE n == Len(buf)
           step == [k \in 1 .. n |-> [i \in Nat |-> HeaderStep(buf, i)]]
           P == [k \in 0 .. n |-> {i \in Nat : Headers(buf, first, i) /\ (i > n \/ buf[i] = Lf \/ i >= first + k)}]
           end == Runs(step, first, n)
<1>1. n \in Nat /\ 0 \in 0 .. n /\ n \in 0 .. n /\ first \in Nat /\ first > 1 /\ first >= first + 0
  OBVIOUS
<1>2. first \in P[0]
  <2>1. Headers(buf, first, first)
    BY DEF Headers
  <2> QED BY <1>1, <2>1, Zenon
<1>3. ASSUME NEW k \in 1 .. n, NEW i \in P[k - 1] PROVE step[k][i] \in P[k]
  <2>1. k - 1 \in 0 .. n /\ k \in 0 .. n
    OBVIOUS
  <2>2. i \in Nat /\ Headers(buf, first, i) /\ (i > n \/ buf[i] = Lf \/ i >= first + (k - 1))
    BY <1>3, <2>1, Zenon
  <2> DEFINE h == HeaderStep(buf, i)
  <2>3. step[k][i] = h
    BY <2>2, Zenon
  <2>4. Headers(buf, first, h) /\ ((i > n /\ h = i) \/ (buf[i] = Lf /\ h = i) \/ h > i)
    BY <1>1, <2>2, HeaderMore, Zenon
  <2>5. h \in Nat
    BY <1>1, <2>4 DEF Headers
  <2>6. h > n \/ buf[h] = Lf \/ h >= first + k
    <3> HIDE DEF h, n
    <3>1. CASE h = i /\ (i > n \/ buf[i] = Lf)
      BY <3>1, Zenon
    <3>2. CASE h > i /\ i >= first + (k - 1)
      BY <1>1, <2>2, <2>5, <3>2
    <3>3. CASE h > i /\ i > n
      BY <1>1, <2>2, <2>5, <3>3
    <3>4. CASE h > i /\ buf[i] = Lf /\ ~(i > n)
      <4>1. h = i
        BY <3>4, Zenon DEF HeaderStep, h, n
      <4> QED BY <2>2, <3>4, <4>1
    <3> QED BY <2>2, <2>4, <3>1, <3>2, <3>3, <3>4, Zenon
  <2> HIDE DEF step, h
  <2> QED BY <2>1, <2>3, <2>4, <2>5, <2>6, Zenon
<1> HIDE DEF step, P, end
<1>4. end \in P[n]
  BY <1>1, <1>2, <1>3, RunsIn DEF end
<1>5. end \in Nat /\ Headers(buf, first, end) /\ (end > n \/ buf[end] = Lf \/ end >= first + n)
  BY <1>1, <1>4, Zenon DEF P
<1>6. end >= first + n => end > n
  BY <1>1, <1>5
<1> QED BY <1>5, <1>6, Zenon DEF end, step

\* The first place of a character in C.
LEMMA FirstIs ==
  ASSUME NEW S, NEW s \in Seq(S), NEW i \in 1 .. Len(s) + 1, NEW C,
         NEW j, j = i + Cspn(From(s, i), C), j <= Len(s)
  PROVE  j \in i .. Len(s) /\ s[j] \in C /\ FirstOf({k \in i .. Len(s) : s[k] \in C}) = j
<1> DEFINE X == {k \in i .. Len(s) : s[k] \in C}
<1>1. /\ j \in i .. Len(s) + 1 /\ \A k \in i .. j - 1 : s[k] \notin C
      /\ j <= Len(s) => s[j] \in C
  BY CspnFrom
<1>2. j \in i .. Len(s) /\ s[j] \in C /\ j \in X
  BY <1>1
<1>3. X \in SUBSET Nat
  OBVIOUS
<1>4. ASSUME NEW y \in X PROVE j <= y
  BY <1>1, <1>2, <1>4
<1> HIDE DEF X
<1>5. FirstOf(X) = j
  BY <1>2, <1>3, <1>4, LeastIs
<1> QED BY <1>2, <1>5, Zenon DEF X

\* The first line feed behind a line feed is where the headers end.
LEMMA EmptyIs ==
  ASSUME NEW buf \in Seq(Chars), NEW status \in 1 .. Len(buf), buf[status] = Lf,
         NEW end, Headers(buf, status + 1, end), end > Len(buf) \/ buf[end] = Lf
  PROVE  LET empty == {i \in status + 1 .. Len(buf) : buf[i] = Lf /\ buf[i - 1] = Lf}
         IN From(buf, end + 1) = IF empty = {} THEN <<>> ELSE From(buf, FirstOf(empty) + 1)
<1> DEFINE n == Len(buf)
           empty == {i \in status + 1 .. n : buf[i] = Lf /\ buf[i - 1] = Lf}
<1>1. n \in Nat /\ status \in 1 .. n
  OBVIOUS
<1>2. /\ end \in status + 1 .. n + 2 /\ (end <= n + 1 => buf[end - 1] = Lf)
      /\ \A k \in status + 1 .. end - 1 : k <= n => ~(buf[k] = Lf /\ buf[k - 1] = Lf)
  BY Zenon DEF Headers
<1>3. CASE end > n
  <2>1. From(buf, end + 1) = <<>>
    BY <1>1, <1>2, <1>3 DEF From
  <2> HIDE DEF n
  <2>2. ASSUME NEW k \in empty PROVE FALSE
    BY <1>1, <1>2, <1>3, <2>2
  <2>3. empty = {}
    BY <2>2, Zenon
  <2> HIDE DEF empty
  <2>4. From(buf, end + 1) = IF empty = {} THEN <<>> ELSE From(buf, FirstOf(empty) + 1)
    BY <2>1, <2>3, Zenon
  <2> QED BY <2>4, Zenon DEF empty, n
<1>4. CASE ~(end > n)
  <2> HIDE DEF n
  <2>1. buf[end] = Lf
    BY <1>4 DEF n
  <2>2. end \in empty
    BY <1>1, <1>2, <1>4, <2>1
  <2>3. ASSUME NEW k \in empty PROVE end <= k
    BY <1>1, <1>2, <1>4, <2>3
  <2>4. empty \in SUBSET Nat
    BY <1>1
  <2> HIDE DEF empty
  <2>5. FirstOf(empty) = end
    BY <2>2, <2>3, <2>4, LeastIs
  <2>6. From(buf, end + 1) = IF empty = {} THEN <<>> ELSE From(buf, FirstOf(empty) + 1)
    BY <2>2, <2>5, Zenon
  <2> QED BY <2>6, Zenon DEF empty, n
<1> QED BY <1>3, <1>4

\* The parser finds the body of a response with a status line.
LEMMA BodyBehind ==
  ASSUME NEW buf \in Seq(Chars), NEW code, code = Cspn(buf, Blanks) + 2, ~(code + 2 > Len(buf)),
         NEW first, first = code + 3 + Cspn(From(buf, code + 3), {Lf}) + 1, ~(first > Len(buf) + 1),
         NEW end, end = Runs([k \in 1 .. Len(buf) |-> [i \in Nat |-> HeaderStep(buf, i)]], first, Len(buf))
  PROVE  BodyFound(buf, From(buf, end + 1))
<1> DEFINE n == Len(buf)
           c == Cspn(buf, Blanks)
           lf == Cspn(From(buf, code + 3), {Lf})
           space == FirstOf({i \in 1 .. n : buf[i] \in Blanks})
           status == FirstOf({i \in space + 4 .. n : buf[i] = Lf})
           empty == {i \in status + 1 .. n : buf[i] = Lf /\ buf[i - 1] = Lf}
<1>2. ~(code + 2 > n) /\ ~(first > n + 1) /\ code = c + 2 /\ first = code + 3 + lf + 1
  BY Zenon
<1>3. n \in Nat /\ 1 + Cspn(From(buf, 1), Blanks) = 1 + c
  <2>1. From(buf, 1) = buf
    BY DEF From
  <2> QED BY <2>1
<1>4. c \in Nat
  <2>1. OutPrefix(buf, Blanks, c)
    BY <1>3, CspnIs
  <2> HIDE DEF c
  <2> QED BY <2>1 DEF OutPrefix
<1> HIDE DEF c
<1>5. 1 + c <= n /\ code + 3 \in 1 .. n + 1
  BY <1>2, <1>3, <1>4
<1>6. space = 1 + c
  <2> DEFINE j == 1 + c
  <2>1. j = 1 + Cspn(From(buf, 1), Blanks) /\ j <= n /\ 1 \in 1 .. n + 1
    BY <1>3, <1>5
  <2> HIDE DEF j
  <2>2. FirstOf({k \in 1 .. n : buf[k] \in Blanks}) = j
    BY <2>1, FirstIs
  <2> QED BY <2>2, Zenon DEF j
<1> HIDE DEF space
<1>7. space + 4 = code + 3 /\ space + 4 \in 1 .. n + 1
  BY <1>2, <1>4, <1>5, <1>6
<1> DEFINE j == space + 4 + lf
<1>8. lf \in Nat
  <2> DEFINE t == From(buf, code + 3)
  <2>1. Len(t) \in Nat
    BY <1>3, <1>5, FromIs
  <2> HIDE DEF t
  <2>2. OutPrefix(t, {Lf}, Cspn(t, {Lf}))
    BY <2>1, CspnIs
  <2>3. Cspn(t, {Lf}) \in Nat
    BY <2>1, <2>2 DEF OutPrefix
  <2> QED BY <2>3 DEF t
<1>9. lf = Cspn(From(buf, space + 4), {Lf})
  BY <1>7, Zenon
<1> HIDE DEF lf
<1>10. first = j + 1 /\ j <= n /\ j \in Nat
  BY <1>2, <1>3, <1>4, <1>6, <1>7, <1>8
<1>11. j = space + 4 + Cspn(From(buf, space + 4), {Lf})
  BY <1>9, Zenon
<1> HIDE DEF j
<1>12. j \in space + 4 .. n /\ buf[j] = Lf /\ status = j
  <2>1. j \in space + 4 .. n /\ buf[j] \in {Lf} /\ FirstOf({k \in space + 4 .. n : buf[k] \in {Lf}}) = j
    BY <1>7, <1>10, <1>11, FirstIs
  <2>2. {k \in space + 4 .. n : buf[k] \in {Lf}} = {i \in space + 4 .. n : buf[i] = Lf}
    OBVIOUS
  <2> QED BY <2>1, <2>2, Zenon
<1> HIDE DEF status
<1>13. status \in 1 .. n /\ buf[status] = Lf /\ first = status + 1
  BY <1>3, <1>7, <1>10, <1>12
<1>14. first \in 2 .. n + 1 /\ buf[first - 1] = Lf
  BY <1>3, <1>13
<1>15. Headers(buf, status + 1, end) /\ (end > n \/ buf[end] = Lf)
  <2>1. Headers(buf, first, end) /\ (end > n \/ buf[end] = Lf)
    BY <1>14, HeadersEnd, Zenon
  <2> QED BY <1>13, <2>1, Zenon
<1>16. From(buf, end + 1) = IF empty = {} THEN <<>> ELSE From(buf, FirstOf(empty) + 1)
  BY <1>13, <1>15, EmptyIs, Zenon
<1> QED BY <1>16, Zenon DEF BodyFound, space, status

\* So BodyAfterEmptyLine holds of every response that is taken.
LEMMA BodyIs ==
  ASSUME NEW buf \in Seq(Chars), http_client_parse_response(buf).ret = 0
  PROVE  BodyFound(buf, http_client_parse_response(buf).body)
<1> DEFINE n == Len(buf)
           code == Cspn(buf, Blanks) + 2
           first == code + 3 + Cspn(From(buf, code + 3), {Lf}) + 1
           end == Runs([k \in 1 .. n |-> [i \in Nat |-> HeaderStep(buf, i)]], first, n)
           bad == n < MinResponse \/ code + 2 > n \/ first > n + 1
<1>1. http_client_parse_response(buf) =
        IF bad THEN [ret |-> -1, body |-> <<>>] ELSE [ret |-> 0, body |-> From(buf, end + 1)]
  BY Zenon DEF http_client_parse_response
<1>2. ~bad /\ http_client_parse_response(buf).body = From(buf, end + 1)
  <2>1. bad \in BOOLEAN
    OBVIOUS
  <2> HIDE DEF bad, end
  <2> QED BY <1>1, <2>1
<1>3. BodyFound(buf, From(buf, end + 1))
  BY <1>2, BodyBehind, Zenon
<1> QED BY <1>2, <1>3, Zenon

-----------------------------------------------------------------------------
(* The question of DNS.                                                    *)

\* v is s and t put together.
IsJoin(v, s, t, S) ==
  /\ v \in Seq(S) /\ Len(v) = Len(s) + Len(t)
  /\ \A x \in 1 .. Len(s) : v[x] = s[x]
  /\ \A x \in 1 .. Len(t) : v[Len(s) + x] = t[x]

\* Two sequences put together.
LEMMA Joins ==
  ASSUME NEW S, NEW s \in Seq(S), NEW t \in Seq(S)
  PROVE  IsJoin(s \o t, s, t, S)
<1>1. ASSUME NEW x \in 1 .. Len(t) PROVE (s \o t)[Len(s) + x] = t[x]
  <2>1. Len(s) + x \in 1 .. Len(s) + Len(t) /\ ~(Len(s) + x <= Len(s)) /\ Len(s) + x - Len(s) = x
    OBVIOUS
  <2> QED BY <2>1
<1>2. s \o t \in Seq(S) /\ Len(s \o t) = Len(s) + Len(t) /\ \A x \in 1 .. Len(s) : (s \o t)[x] = s[x]
  OBVIOUS
<1> QED BY <1>1, <1>2, Zenon DEF IsJoin

\* The label of name that begins at j is the one of buf whose length is at j.
LabelAt(buf, name, j) ==
  /\ buf[j] \in 1 .. Len(name) - j + 1
  /\ \A x \in j .. j + buf[j] - 1 : name[x] # Dot /\ name[x] = buf[x + 1]
  /\ j + buf[j] = Len(name) + 1 \/ (j + buf[j] < Len(name) /\ name[j + buf[j]] = Dot)

\* name has the labels of buf in their places, with dots for their lengths.
Aligned(buf, name) ==
  /\ name \in Seq(0 .. 255) /\ Len(name) + 1 <= Len(buf)
  /\ Len(name) > 0 => name[Len(name)] # Dot
  /\ \A j \in 1 .. Len(name) : j = 1 \/ name[j - 1] = Dot => LabelAt(buf, name, j)

\* The place in buf behind name.
Behind(name, p) == p \in Nat /\ p = IF name = <<>> THEN 0 ELSE Len(name) + 1

Bytes == (0 .. 255) \ {Dot}

\* The name with the label of buf behind it.
Extended(name, buf, p, len) ==
  (IF name = <<>> THEN <<>> ELSE Append(name, Dot)) \o SubSeq(buf, p + 2, p + 1 + len)

\* The characters of the name with one more label.
IsExtended(e, name, buf, p, len) ==
  /\ e \in Seq(0 .. 255) /\ Len(e) = p + len
  /\ \A x \in 1 .. Len(name) : e[x] = name[x]
  /\ name # <<>> => e[p] = Dot
  /\ \A x \in p + 1 .. p + len : e[x] = buf[x + 1]

\* dns_decode_qname puts a dot and the label behind the name.
LEMMA ExtendedIs ==
  ASSUME NEW buf \in Seq(Bytes), NEW name \in Seq(0 .. 255), NEW len \in 1 .. 255,
         NEW p \in Nat, Behind(name, p), p + 1 + len <= Len(buf)
  PROVE  IsExtended(Extended(name, buf, p, len), name, buf, p, len)
<1> DEFINE B == 0 .. 255
           label == SubSeq(buf, p + 2, p + 1 + len)
           base == IF name = <<>> THEN <<>> ELSE Append(name, Dot)
<1>1. Len(name) \in Nat /\ Len(buf) \in Nat /\ len \in Nat /\ name \in Seq(B)
  OBVIOUS
<1>2. base \in Seq(B) /\ Len(base) = p /\ (\A x \in 1 .. Len(name) : base[x] = name[x]) /\ (name # <<>> => base[p] = Dot)
  <2>1. CASE name = <<>>
    BY <2>1 DEF Behind
  <2>2. CASE name # <<>>
    <3>1. Dot \in B
      BY DEF Dot
    <3>2. base = Append(name, Dot) /\ p = Len(name) + 1
      BY <2>2, Zenon DEF Behind
    <3> HIDE DEF B, base
    <3> QED BY <1>1, <3>1, <3>2
  <2> QED BY <2>1, <2>2
<1>3. label \in Seq(B) /\ Len(label) = len /\ \A x \in 1 .. len : label[x] = buf[p + 1 + x]
  <2>1. buf \in Seq(B)
    BY DEF Bytes
  <2> HIDE DEF B
  <2> QED BY <1>1, <2>1
<1> HIDE DEF base, label, B
<1> DEFINE e == base \o label
<1>4. e \in Seq(B) /\ Len(e) = p + len
  BY <1>1, <1>2, <1>3
<1>5. ASSUME NEW x \in 1 .. p PROVE e[x] = base[x]
  BY <1>1, <1>2, <1>3
<1>6. ASSUME NEW x \in p + 1 .. p + len PROVE e[x] = buf[x + 1]
  <2>1. x - p \in 1 .. len /\ p + 1 + (x - p) = x + 1 /\ p + (x - p) = x
    BY <1>1
  <2>2. \A y \in 1 .. Len(label) : e[Len(base) + y] = label[y]
    <3>1. base \in Seq(B) /\ label \in Seq(B)
      BY <1>2, <1>3
    <3>2. IsJoin(e, base, label, B)
      BY <3>1, Joins, Zenon
    <3> QED BY <3>2, Zenon DEF IsJoin
  <2>3. e[p + (x - p)] = label[x - p]
    BY <1>2, <1>3, <2>1, <2>2, Zenon
  <2> QED BY <1>3, <2>1, <2>3, Zenon
<1>7. (\A x \in 1 .. Len(name) : x \in 1 .. p) /\ (name # <<>> => p \in 1 .. p)
  BY <1>1 DEF Behind
<1>8. Extended(name, buf, p, len) = e
  BY Zenon DEF Extended, base, label
<1> HIDE DEF e
<1>9. e \in Seq(0 .. 255)
  BY <1>4 DEF B
<1> QED BY <1>2, <1>4, <1>5, <1>6, <1>7, <1>8, <1>9, Zenon DEF IsExtended

\* A label more.
LEMMA AlignedMore ==
  ASSUME NEW buf \in Seq(Bytes), NEW name \in Seq(0 .. 255),
         name = <<>> \/ Aligned(buf, name),
         NEW len \in 1 .. 255, NEW p \in Nat, Behind(name, p), buf[p + 1] = len, p + 1 + len <= Len(buf)
  PROVE  Aligned(buf, Extended(name, buf, p, len))
<1> DEFINE e == Extended(name, buf, p, len)
           n == Len(name)
<1>0. IsExtended(e, name, buf, p, len)
  BY ExtendedIs
<1>1. /\ e \in Seq(0 .. 255) /\ Len(e) = p + len
      /\ \A x \in 1 .. n : e[x] = name[x]
      /\ name # <<>> => e[p] = Dot
      /\ \A x \in p + 1 .. p + len : e[x] = buf[x + 1]
  <2> HIDE DEF e
  <2> QED BY <1>0, Zenon DEF IsExtended
<1>2. n \in Nat /\ Len(buf) \in Nat /\ (\A x \in 1 .. Len(buf) : buf[x] # Dot)
  BY DEF Bytes
<1>3. p \in Nat /\ ((p = 0 /\ n = 0) \/ (p = n + 1 /\ n > 0 /\ Aligned(buf, name) /\ name # <<>>))
  <2>1. CASE name = <<>>
    <3>1. p = 0
      BY <2>1, Zenon DEF Behind
    <3>2. n = 0
      BY <2>1
    <3> QED BY <3>1, <3>2, Zenon
  <2>2. CASE name # <<>>
    <3>1. p = n + 1 /\ Aligned(buf, name)
      BY <2>2, Zenon DEF Behind
    <3>2. n > 0
      BY <2>2
    <3> QED BY <2>2, <3>1, <3>2, Zenon
  <2> QED BY <2>1, <2>2
<1>4. p + 1 + len <= Len(buf) /\ buf[p + 1] = len /\ len \in Nat /\ len > 0
  OBVIOUS
<1> HIDE DEF e, n
<1>5. Len(e) + 1 <= Len(buf) /\ Len(e) > 0
  BY <1>1, <1>2, <1>3, <1>4
<1>6. ASSUME NEW x \in p + 1 .. p + len PROVE e[x] # Dot
  <2>1. x + 1 \in 1 .. Len(buf)
    BY <1>2, <1>3, <1>4
  <2> QED BY <1>1, <1>2, <2>1, Zenon
<1>7. e[Len(e)] # Dot
  BY <1>1, <1>3, <1>4, <1>6
<1>8. ASSUME NEW j \in 1 .. Len(e), j = 1 \/ e[j - 1] = Dot PROVE LabelAt(buf, e, j)
  <2>1. CASE j <= n
    <3>1. p = n + 1 /\ Aligned(buf, name) /\ name # <<>> /\ j \in 1 .. n
      BY <1>2, <1>3, <2>1
    <3>2. j = 1 \/ name[j - 1] = Dot
      <4>1. j = 1 \/ j - 1 \in 1 .. n
        BY <1>2, <3>1
      <4> QED BY <1>1, <1>8, <4>1, Zenon
    <3>3. LabelAt(buf, name, j)
      BY <3>1, <3>2, Zenon DEF Aligned, n
    <3> DEFINE m == buf[j]
    <3>4. /\ m \in 1 .. n - j + 1
          /\ \A x \in j .. j + m - 1 : name[x] # Dot /\ name[x] = buf[x + 1]
          /\ j + m = n + 1 \/ (j + m < n /\ name[j + m] = Dot)
      BY <3>3, Zenon DEF LabelAt, n
    <3> HIDE DEF m
    <3>5. m \in 1 .. Len(e) - j + 1
      BY <1>1, <1>2, <1>3, <1>4, <3>1, <3>4
    <3>6. \A x \in j .. j + m - 1 : e[x] # Dot /\ e[x] = buf[x + 1]
      <4>1. ASSUME NEW x \in j .. j + m - 1 PROVE x \in 1 .. n
        BY <1>2, <3>1, <3>4
      <4> QED BY <1>1, <3>4, <4>1, Zenon
    <3>7. j + m < Len(e) /\ e[j + m] = Dot
      <4>1. CASE j + m = n + 1
        BY <1>1, <1>2, <1>3, <1>4, <3>1, <4>1
      <4>2. CASE j + m < n /\ name[j + m] = Dot
        <5>1. j + m \in 1 .. n /\ j + m < Len(e)
          BY <1>1, <1>2, <1>3, <1>4, <3>1, <3>4, <4>2
        <5> QED BY <1>1, <4>2, <5>1, Zenon
      <4> QED BY <3>4, <4>1, <4>2
    <3> QED BY <3>5, <3>6, <3>7, Zenon DEF LabelAt, m
  <2>2. CASE j > n /\ j < p + 1
    <3>1. j = n + 1 /\ n > 0 /\ n \in 1 .. n /\ j - 1 = n /\ j # 1 /\ Aligned(buf, name)
      BY <1>2, <1>3, <2>2
    <3>2. name[n] = Dot
      BY <1>1, <1>8, <3>1, Zenon
    <3> QED BY <3>1, <3>2, Zenon DEF Aligned, n
  <2>3. CASE j = p + 1
    <3>1. buf[j] = len /\ len \in 1 .. Len(e) - j + 1 /\ j + len = Len(e) + 1
      BY <1>1, <1>3, <1>4, <2>3
    <3>2. \A x \in j .. j + len - 1 : e[x] # Dot /\ e[x] = buf[x + 1]
      <4>1. ASSUME NEW x \in j .. j + len - 1 PROVE x \in p + 1 .. p + len
        BY <1>3, <1>4, <2>3
      <4> QED BY <1>1, <1>6, <4>1, Zenon
    <3> QED BY <3>1, <3>2, Zenon DEF LabelAt
  <2>4. CASE j > p + 1
    <3>1. j - 1 \in p + 1 .. p + len /\ j # 1
      BY <1>1, <1>3, <1>4, <2>4
    <3> QED BY <1>6, <1>8, <3>1, Zenon
  <2> QED BY <1>2, <1>3, <2>1, <2>2, <2>3, <2>4
<1>9. Aligned(buf, e)
  BY <1>1, <1>5, <1>7, <1>8, Zenon DEF Aligned
<1> QED BY <1>9 DEF e

\* What dns_decode_qname has read of buf.
Read(buf, s) ==
  /\ s \in Decoding
  /\ s.ret # "failed" => Len(s.name) < DNS_MAX_QNAME
  /\ s.ret = "reading" => s.pos >= Len(buf) \/ (Behind(s.name, s.pos) /\ (s.name = <<>> \/ Aligned(buf, s.name)))
  /\ s.ret = "name" =>
       \/ s.name = <<Dot>> /\ s.pos = 1 /\ buf[1] = 0 /\ Len(buf) >= 1
       \/ s.name # <<>> /\ Aligned(buf, s.name) /\ s.pos = Len(s.name) + 2 /\ s.pos <= Len(buf) /\ buf[s.pos] = 0

\* The fields of a state of the loop.
LEMMA DecodingIs ==
  ASSUME NEW p \in Nat, NEW m \in Seq(0 .. 255), NEW r \in {"reading", "name", "failed"}
  PROVE  LET s == [pos |-> p, name |-> m, ret |-> r]
         IN s \in Decoding /\ s.pos = p /\ s.name = m /\ s.ret = r
  BY DEF Decoding

\* The zero behind the last label.
LEMMA DecodeEnds ==
  ASSUME NEW buf \in Seq(Bytes), NEW s, Read(buf, s), s.ret = "reading", s.pos < Len(buf), buf[s.pos + 1] = 0
  PROVE  Read(buf, [pos |-> s.pos + 1, name |-> IF s.name = <<>> THEN <<Dot>> ELSE s.name, ret |-> "name"])
<1> DEFINE p == s.pos
           m == s.name
           q == IF m = <<>> THEN <<Dot>> ELSE m
           d == [pos |-> p + 1, name |-> q, ret |-> "name"]
<1>1. p \in Nat /\ m \in Seq(0 .. 255) /\ Len(buf) \in Nat /\ Len(m) < DNS_MAX_QNAME
  BY DEF Read, Decoding
<1>2. Behind(m, p) /\ (m = <<>> \/ Aligned(buf, m)) /\ p < Len(buf) /\ buf[p + 1] = 0
  <2>1. ~(p >= Len(buf))
    BY <1>1
  <2> QED BY <2>1, Zenon DEF Read
<1> HIDE DEF p, m
<1>3. q \in Seq(0 .. 255) /\ p + 1 \in Nat
  <2>1. <<Dot>> \in Seq(0 .. 255)
    BY DEF Dot
  <2>2. p + 1 \in Nat
    BY <1>1
  <2> QED BY <1>1, <2>1, <2>2, Zenon
<1>4. Len(q) < DNS_MAX_QNAME
  BY <1>1, PacketsAssumption
<1>5. CASE m = <<>>
  <2>1. q = <<Dot>> /\ p = 0
    BY <1>2, <1>5, Zenon DEF Behind
  <2>2. p + 1 = 1 /\ Len(buf) >= 1
    BY <1>1, <1>2, <2>1
  <2> HIDE DEF q
  <2>3. d \in Decoding /\ d.pos = p + 1 /\ d.name = q /\ d.ret = "name"
    BY <1>3, DecodingIs
  <2> HIDE DEF d
  <2>4. d.ret # "reading" /\ buf[1] = 0
    BY <1>2, <2>1, <2>2, <2>3
  <2>5. Read(buf, d)
    BY <1>4, <2>1, <2>2, <2>3, <2>4, Zenon DEF Read
  <2> QED BY <2>5, Zenon DEF d, q, p, m
<1>6. CASE m # <<>>
  <2>1. q = m /\ p = Len(m) + 1 /\ Aligned(buf, m)
    BY <1>2, <1>6, Zenon DEF Behind
  <2>2. p + 1 = Len(m) + 2 /\ p + 1 <= Len(buf)
    BY <1>1, <1>2, <2>1
  <2> HIDE DEF q
  <2>3. d \in Decoding /\ d.pos = p + 1 /\ d.name = q /\ d.ret = "name"
    BY <1>3, DecodingIs
  <2> HIDE DEF d
  <2>4. d.ret # "reading"
    BY <2>3
  <2>5. Read(buf, d)
    BY <1>2, <1>4, <1>6, <2>1, <2>2, <2>3, <2>4, Zenon DEF Read
  <2> QED BY <2>5, Zenon DEF d, q, p, m
<1> QED BY <1>5, <1>6

\* What a label adds to the name and to the place in buf.
Added(buf, m, len, q, pos) ==
  /\ pos \in Nat /\ q \in Seq(0 .. 255) /\ Len(q) <= Len(m) + len + 1
  /\ pos >= Len(buf) \/ (Behind(q, pos) /\ Aligned(buf, q))

\* One label more, or as much of it as there is.
LEMMA LabelRead ==
  ASSUME NEW buf \in Seq(Bytes), NEW p \in Nat, NEW m \in Seq(0 .. 255), Behind(m, p),
         m = <<>> \/ Aligned(buf, m), p < Len(buf), NEW len \in 1 .. 255, buf[p + 1] = len,
         NEW label, label = SubSeq(buf, p + 2, AtMost(p + 1 + len, Len(buf))),
         NEW q, q = (IF m = <<>> THEN <<>> ELSE Append(m, Dot)) \o label
  PROVE  Added(buf, m, len, q, p + 1 + Len(label))
<1> DEFINE B == 0 .. 255
           x == AtMost(p + 1 + len, Len(buf))
<1>1. Len(buf) \in Nat /\ len \in Nat /\ len > 0 /\ Len(m) \in Nat
  BY ONLY buf \in Seq(Bytes), m \in Seq(0 .. 255), len \in 1 .. 255
<1>2. buf \in Seq(B) /\ m \in Seq(B) /\ Dot \in B
  BY DEF Bytes, Dot
<1>3. /\ p + 1 + len > Len(buf) => x = Len(buf)
      /\ p + 1 + len <= Len(buf) => x = p + 1 + len
  BY <1>1 DEF AtMost
<1>4. label = SubSeq(buf, p + 2, x)
  BY Zenon
<1> HIDE DEF B, x
<1>5. x \in p + 1 .. Len(buf) /\ x <= p + 1 + len
  BY <1>1, <1>3
<1>6. label \in Seq(B) /\ Len(label) = x - p - 1
  BY ONLY <1>1, <1>2, <1>4, <1>5, p \in Nat
<1>7. p + 1 + Len(label) = x /\ x \in Nat /\ Len(label) <= len /\ Len(label) \in Nat
  BY ONLY <1>1, <1>5, <1>6, p \in Nat
<1>8. q \in Seq(B) /\ Len(q) <= Len(m) + len + 1
  <2>1. CASE m = <<>>
    <3>1. q = <<>> \o label
      BY <2>1, Zenon
    <3>2. q = label
      BY ONLY <1>6, <3>1
    <3> QED BY ONLY <1>1, <1>6, <1>7, <3>2
  <2>2. CASE m # <<>>
    <3> DEFINE a == Append(m, Dot)
    <3>1. q = a \o label
      BY <2>2, Zenon
    <3>2. a \in Seq(B) /\ Len(a) = Len(m) + 1
      BY ONLY <1>2, Appended
    <3> HIDE DEF a
    <3>3. q \in Seq(B) /\ Len(q) = Len(a) + Len(label)
      <4>1. IsJoin(q, a, label, B)
        BY <1>6, <3>1, <3>2, Joins, Zenon
      <4> QED BY <4>1, Zenon DEF IsJoin
    <3> QED BY ONLY <1>1, <1>7, <3>2, <3>3
  <2> QED BY <2>1, <2>2
<1>9. CASE p + 1 + len > Len(buf)
  <2>1. x >= Len(buf)
    BY <1>1, <1>3, <1>9
  <2> QED BY <1>7, <1>8, <2>1, Zenon DEF B, Added
<1>10. CASE p + 1 + len <= Len(buf)
  <2>1. q = Extended(m, buf, p, len)
    BY <1>3, <1>4, <1>10, Zenon DEF Extended
  <2>2. IsExtended(q, m, buf, p, len)
    BY <1>10, <2>1, ExtendedIs
  <2>3. Aligned(buf, q)
    BY <1>10, <2>1, AlignedMore
  <2>4. Len(q) = p + len
    BY <2>2, Zenon DEF IsExtended
  <2>5. x = Len(q) + 1 /\ Len(q) > 0
    BY ONLY <1>1, <1>3, <1>10, <2>4, p \in Nat
  <2>6. q # <<>>
    BY ONLY <2>5
  <2> QED BY <1>7, <1>8, <2>3, <2>5, <2>6, Zenon DEF B, Behind, Added
<1>11. p + 1 + len > Len(buf) \/ p + 1 + len <= Len(buf)
  BY ONLY <1>1, p \in Nat
<1> QED BY <1>9, <1>10, <1>11

\* The loop with the label read.
LEMMA DecodeMore ==
  ASSUME NEW buf \in Seq(Bytes), NEW s, Read(buf, s), s.ret = "reading", s.pos < Len(buf),
         NEW len, len = buf[s.pos + 1], len # 0, LabelFits(s.name, len),
         NEW label, label = SubSeq(buf, s.pos + 2, AtMost(s.pos + 1 + len, Len(buf)))
  PROVE  Read(buf, [pos |-> s.pos + 1 + Len(label),
                    name |-> (IF s.name = <<>> THEN <<>> ELSE Append(s.name, Dot)) \o label, ret |-> "reading"])
<1> DEFINE p == s.pos
           m == s.name
           q == (IF m = <<>> THEN <<>> ELSE Append(m, Dot)) \o label
           pos == p + 1 + Len(label)
           d == [pos |-> pos, name |-> q, ret |-> "reading"]
<1>1. p \in Nat /\ m \in Seq(0 .. 255) /\ Len(buf) \in Nat /\ Len(m) < DNS_MAX_QNAME
  BY DEF Read, Decoding
<1>2. Behind(m, p) /\ (m = <<>> \/ Aligned(buf, m)) /\ p < Len(buf) /\ buf[p + 1] = len
  <2>1. ~(p >= Len(buf))
    BY <1>1
  <2> QED BY <2>1, Zenon DEF Read
<1>3. len \in 1 .. 255
  <2>1. p + 1 \in 1 .. Len(buf)
    BY <1>1, <1>2
  <2>2. buf[p + 1] \in Bytes
    <3> DEFINE r == p + 1
    <3> HIDE DEF p, r
    <3> QED BY ONLY <2>1, buf \in Seq(Bytes) DEF r
  <2>3. len \in Bytes
    BY <1>2, <2>2, Zenon
  <2> QED BY ONLY <2>3, len # 0 DEF Bytes
<1>4. Len(m) + len + 1 < DNS_MAX_QNAME
  BY DEF LabelFits
<1>5. label = SubSeq(buf, p + 2, AtMost(p + 1 + len, Len(buf)))
  BY Zenon
<1>6. q = (IF m = <<>> THEN <<>> ELSE Append(m, Dot)) \o label
  BY Zenon
<1> HIDE DEF p, m, q
<1>0. Added(buf, m, len, q, pos)
  BY <1>1, <1>2, <1>3, <1>5, <1>6, LabelRead
<1> HIDE DEF pos
<1>7. /\ pos \in Nat /\ q \in Seq(0 .. 255) /\ Len(q) <= Len(m) + len + 1
      /\ pos >= Len(buf) \/ (Behind(q, pos) /\ Aligned(buf, q))
  BY <1>0, Zenon DEF Added
<1>8. Len(q) < DNS_MAX_QNAME
  <2>1. Len(q) \in Nat /\ Len(m) \in Nat /\ len \in Nat
    BY ONLY <1>1, <1>3, <1>7
  <2> QED BY ONLY <1>4, <1>7, <2>1, PacketsAssumption
<1>9. d \in Decoding /\ d.pos = pos /\ d.name = q /\ d.ret = "reading"
  BY <1>7, DecodingIs
<1> HIDE DEF d
<1>10. d.ret # "name"
  BY <1>9
<1>11. Read(buf, d)
  BY <1>7, <1>8, <1>9, <1>10, Zenon DEF Read
<1> QED BY <1>11, Zenon DEF d, q, p, m, pos

\* A turn of the loop.
LEMMA DecodeKeeps ==
  ASSUME NEW buf \in Seq(Bytes), NEW s, Read(buf, s)
  PROVE  Read(buf, DecodeStep(s, buf))
<1> DEFINE len == buf[s.pos + 1]
           label == SubSeq(buf, s.pos + 2, AtMost(s.pos + 1 + len, Len(buf)))
           d == DecodeStep(s, buf)
           done == s.ret # "reading" \/ s.pos >= Len(buf)
           more == s.ret = "reading" /\ s.pos < Len(buf)
           name == (IF s.name = <<>> THEN <<>> ELSE Append(s.name, Dot)) \o label
<1>1. s \in Decoding /\ s = [pos |-> s.pos, name |-> s.name, ret |-> s.ret]
  BY DEF Read, Decoding
<1>2. s.pos \in Nat /\ Len(buf) \in Nat /\ s.name \in Seq(0 .. 255)
  BY <1>1 DEF Decoding
<1>3. done <=> ~more
  <2>1. s.pos >= Len(buf) <=> ~(s.pos < Len(buf))
    BY <1>2
  <2> QED BY <2>1, Zenon
<1>4. CASE done
  <2>1. d = s
    BY <1>3, <1>4 DEF DecodeStep
  <2> QED BY <2>1
<1>5. CASE more /\ len = 0
  <2>1. d = [pos |-> s.pos + 1, name |-> IF s.name = <<>> THEN <<Dot>> ELSE s.name, ret |-> "name"]
    BY <1>3, <1>5 DEF DecodeStep
  <2> QED BY <1>5, <2>1, DecodeEnds, Zenon
<1>6. CASE more /\ len # 0 /\ ~LabelFits(s.name, len)
  <2>1. d = [s EXCEPT !.ret = "failed"]
    BY <1>3, <1>6 DEF DecodeStep
  <2>2. d \in Decoding /\ d.ret = "failed"
    BY <1>1, <2>1 DEF Decoding
  <2> HIDE DEF d
  <2>3. d.ret # "reading" /\ d.ret # "name"
    BY <2>2
  <2>4. Read(buf, d)
    BY <2>2, <2>3, Zenon DEF Read
  <2> QED BY <2>4 DEF d
<1>7. CASE more /\ len # 0 /\ LabelFits(s.name, len)
  <2>1. d = [s EXCEPT !.pos = s.pos + 1 + Len(label), !.name = name]
    BY <1>3, <1>7 DEF DecodeStep
  <2>2. d = [pos |-> s.pos + 1 + Len(label), name |-> name, ret |-> "reading"]
    <3> HIDE DEF d, name, label
    <3> QED BY <1>1, <1>7, <2>1 DEF Decoding
  <2>3. Read(buf, [pos |-> s.pos + 1 + Len(label), name |-> name, ret |-> "reading"])
    BY <1>7, DecodeMore, Zenon
  <2> QED BY <2>2, <2>3, Zenon
<1> QED BY <1>3, <1>4, <1>5, <1>6, <1>7, Zenon

\* buf begins with the question whose name is name.
IsQuestion(buf, name, consumed) ==
  \/ name = <<Dot>> /\ consumed = 1 /\ buf[1] = 0 /\ Len(buf) >= 1
  \/ name # <<>> /\ Aligned(buf, name) /\ consumed = Len(name) + 2 /\ consumed <= Len(buf) /\ buf[consumed] = 0

\* What dns_decode_qname returns.
LEMMA Decoded ==
  ASSUME NEW buf \in Seq(Bytes), dns_decode_qname(buf) # NoName
  PROVE  LET out == dns_decode_qname(buf)
         IN IsQuestion(buf, out.name, out.consumed) /\ Len(out.name) < DNS_MAX_QNAME
<1> DEFINE n == Len(buf)
           step == [k \in 1 .. n |-> [s \in Decoding |-> DecodeStep(s, buf)]]
           a == [pos |-> 0, name |-> <<>>, ret |-> "reading"]
           s == Runs(step, a, n)
           P == [k \in 0 .. n |-> {u \in Decoding : Read(buf, u)}]
           out == dns_decode_qname(buf)
<1>1. n \in Nat /\ 0 \in 0 .. n /\ n \in 0 .. n
  OBVIOUS
<1>2. out = IF s.ret = "name" THEN [consumed |-> s.pos, name |-> s.name] ELSE NoName
  BY Zenon DEF dns_decode_qname
<1>3. a \in P[0]
  <2>1. a \in Decoding /\ a.pos = 0 /\ a.name = <<>> /\ a.ret = "reading"
    BY DEF Decoding
  <2> HIDE DEF a
  <2>2. Len(<<>>) < DNS_MAX_QNAME /\ 0 \in Nat /\ a.ret # "name"
    BY <2>1, PacketsAssumption
  <2>3. Read(buf, a)
    BY <2>1, <2>2, Zenon DEF Read, Behind
  <2> QED BY <1>1, <2>1, <2>3, Zenon
<1>4. ASSUME NEW k \in 1 .. n, NEW u \in P[k - 1] PROVE step[k][u] \in P[k]
  <2>1. k - 1 \in 0 .. n /\ k \in 0 .. n
    BY <1>1
  <2>2. u \in Decoding /\ Read(buf, u)
    BY <1>4, <2>1, Zenon
  <2>3. step[k][u] = DecodeStep(u, buf)
    BY <2>2, Zenon
  <2>4. Read(buf, DecodeStep(u, buf))
    BY <2>2, DecodeKeeps
  <2>5. DecodeStep(u, buf) \in Decoding
    BY <2>4, Zenon DEF Read
  <2> HIDE DEF step
  <2> QED BY <2>1, <2>3, <2>4, <2>5, Zenon
<1> HIDE DEF step, a, P, s, out
<1>5. s \in P[n]
  BY <1>1, <1>3, <1>4, RunsIn DEF s
<1>6. Read(buf, s)
  BY <1>1, <1>5, Zenon DEF P
<1>7. s.ret = "name" /\ out = [consumed |-> s.pos, name |-> s.name]
  BY <1>2, Zenon DEF out
<1>8. s.ret # "failed"
  BY <1>7
<1>9. Len(s.name) < DNS_MAX_QNAME /\ IsQuestion(buf, s.name, s.pos)
  BY <1>6, <1>7, <1>8, Zenon DEF Read, IsQuestion
<1>10. out.name = s.name /\ out.consumed = s.pos
  BY <1>7
<1> QED BY <1>9, <1>10, Zenon DEF out

\* dns_encode_qname begins the label at j.
Begins(name, j) == j \in 1 .. Len(name) /\ (j = 1 \/ name[j - 1] = Dot)

\* The length and the bytes of a label are the ones in buf.
LEMMA Rejoined ==
  ASSUME NEW buf \in Seq(Bytes), NEW name \in Seq(0 .. 255), NEW j \in 1 .. Len(name), NEW m \in Nat,
         m = buf[j], LabelAt(buf, name, j), Len(name) + 1 <= Len(buf)
  PROVE  SubSeq(buf, 1, j - 1) \o <<m>> \o SubSeq(name, j, j + m - 1) = SubSeq(buf, 1, j + m)
<1> DEFINE N == 0 .. 255
           n == Len(name)
           b == Len(buf)
           s == SubSeq(buf, 1, j - 1)
           t == <<m>>
           l == SubSeq(name, j, j + m - 1)
           r == SubSeq(buf, 1, j + m)
<1>1. /\ n \in Nat /\ b \in Nat /\ j \in Nat /\ j >= 1 /\ m \in 1 .. n - j + 1 /\ n + 1 <= b
      /\ \A x \in j .. j + m - 1 : name[x] = buf[x + 1]
  BY DEF LabelAt
<1>2. buf \in Seq(N) /\ name \in Seq(N) /\ m \in N
  <2>1. buf \in Seq(N)
    BY DEF Bytes
  <2>2. m \in N
    <3>1. j \in 1 .. b
      BY ONLY <1>1
    <3> HIDE DEF N
    <3>2. buf[j] \in N
      BY ONLY <2>1, <3>1
    <3> QED BY <3>2
  <2> QED BY <2>1, <2>2
<1>3. j + m <= b /\ j + m - 1 <= n
  BY ONLY <1>1
<1> HIDE DEF n, b, N
<1>4. s \in Seq(N) /\ Len(s) = j - 1 /\ \A x \in 1 .. j - 1 : s[x] = buf[x]
  BY ONLY <1>1, <1>2, <1>3 DEF b
<1>5. l \in Seq(N) /\ Len(l) = m /\ \A x \in 1 .. m : l[x] = name[j + x - 1]
  BY ONLY <1>1, <1>2, <1>3 DEF n
<1>6. r \in Seq(N) /\ Len(r) = j + m /\ \A x \in 1 .. j + m : r[x] = buf[x]
  BY ONLY <1>1, <1>2, <1>3 DEF b
<1>7. t \in Seq(N) /\ Len(t) = 1 /\ t[1] = m
  BY ONLY <1>2
<1> DEFINE u == s \o t
           v == u \o l
<1> HIDE DEF s, t, l, r
<1>8. u \in Seq(N) /\ Len(u) = j /\ (\A x \in 1 .. j - 1 : u[x] = s[x]) /\ u[j] = m
  <2>1. IsJoin(u, s, t, N)
    BY <1>4, <1>7, Joins, Zenon
  <2> HIDE DEF u
  <2>2. 1 \in 1 .. 1 /\ j - 1 + 1 = j
    BY ONLY <1>1
  <2>3. u[j - 1 + 1] = t[1]
    BY <1>4, <1>7, <2>1, <2>2, Zenon DEF IsJoin
  <2>4. u \in Seq(N) /\ Len(u) = j - 1 + 1 /\ \A x \in 1 .. j - 1 : u[x] = s[x]
    BY <1>4, <1>7, <2>1, Zenon DEF IsJoin
  <2> QED BY <1>7, <2>2, <2>3, <2>4, Zenon
<1> HIDE DEF u
<1>9. v \in Seq(N) /\ Len(v) = j + m /\ (\A x \in 1 .. j : v[x] = u[x]) /\ \A x \in 1 .. m : v[j + x] = l[x]
  <2>1. IsJoin(v, u, l, N)
    BY <1>5, <1>8, Joins, Zenon
  <2> HIDE DEF v
  <2> QED BY <1>5, <1>8, <2>1, Zenon DEF IsJoin
<1> HIDE DEF v
<1>11. ASSUME NEW x \in 1 .. j + m PROVE v[x] = r[x]
  <2>1. CASE x \in 1 .. j - 1
    <3>1. x \in 1 .. j
      BY ONLY <1>1, <2>1
    <3> QED BY <1>4, <1>6, <1>8, <1>9, <2>1, <3>1, Zenon
  <2>2. CASE x = j
    <3>1. j \in 1 .. j
      BY ONLY <1>1
    <3> QED BY <1>6, <1>8, <1>9, <2>2, <3>1, Zenon
  <2>3. CASE x \in j + 1 .. j + m
    <3>1. x - j \in 1 .. m /\ j + (x - j) = x /\ x - 1 \in j .. j + m - 1 /\ x - 1 + 1 = x /\ j + (x - j) - 1 = x - 1
      BY ONLY <1>1, <2>3
    <3>2. v[x] = l[x - j] /\ l[x - j] = name[x - 1] /\ name[x - 1] = buf[x]
      BY <1>1, <1>5, <1>9, <3>1, Zenon
    <3> QED BY <1>6, <3>2, Zenon
  <2>4. x \in 1 .. j - 1 \/ x = j \/ x \in j + 1 .. j + m
    BY ONLY <1>1, x \in 1 .. j + m
  <2> QED BY <2>1, <2>2, <2>3, <2>4
<1>12. v = r
  BY ONLY <1>6, <1>9, <1>11, <1>1
<1> QED BY <1>12, Zenon DEF v, u, s, t, l, r, n

\* What dns_encode_qname has written before it comes to start.
Written(buf, name, s, k) ==
  /\ s \in [start : Nat, out : Seq(Nat)]
  /\ \/ s.start = Len(name) + 1 /\ s.out = SubSeq(buf, 1, Len(name) + 1)
     \/ Begins(name, s.start) /\ s.start >= k + 1 /\ s.out = SubSeq(buf, 1, s.start - 1)

\* No zero byte ends name early.
ZeroFree(name) == \A x \in 1 .. Len(name) : name[x] # 0

\* Nothing of a sequence is left outside C from its end, or a member of C, on.
LEMMA CspnNone ==
  ASSUME NEW S, NEW s \in Seq(S), NEW i \in 1 .. Len(s) + 1, NEW C, i <= Len(s) => s[i] \in C
  PROVE  Cspn(From(s, i), C) = 0
<1> DEFINE t == From(s, i)
           n == Len(s)
<1>1. n \in Nat /\ Len(t) = n - i + 1 /\ \A x \in 1 .. n - i + 1 : t[x] = s[i + x - 1]
  BY FromIs
<1>2. Len(t) \in Nat /\ i \in 1 .. n + 1
  BY <1>1
<1> HIDE DEF t
<1>3. 0 = Len(t) \/ t[0 + 1] \in C
  <2>1. CASE i <= n
    <3>1. s[i] \in C
      BY <2>1
    <3>2. 1 \in 1 .. n - i + 1 /\ i + 1 - 1 = i /\ 0 + 1 = 1
      BY <1>1, <1>2, <2>1
    <3>3. t[1] = s[i + 1 - 1]
      BY <1>1, <3>2, Zenon
    <3> QED BY <3>1, <3>2, <3>3, Zenon
  <2>2. CASE ~(i <= n)
    BY <1>1, <1>2, <2>2
  <2> QED BY <2>1, <2>2
<1>4. OutPrefix(t, C, 0)
  BY <1>2, <1>3 DEF OutPrefix
<1>5. 0 = Cspn(t, C)
  BY <1>2, <1>4, CspnIs, Zenon
<1> QED BY <1>5 DEF t

\* A label that is not empty is written behind its length.
LEMMA EncodeLabel ==
  ASSUME NEW s, NEW name, NEW z, z = Cspn(From(name, s.start), {Dot, 0}), z # 0
  PROVE  EncodeStep(s, name) =
           [start |-> IF s.start + z <= Len(name) /\ name[s.start + z] = Dot THEN s.start + z + 1 ELSE s.start + z,
            out |-> s.out \o <<z>> \o SubSeq(name, s.start, (s.start + z) - 1)]
<1> DEFINE y == Cspn(From(name, s.start), {Dot, 0})
           R(x) == [start |-> IF s.start + x <= Len(name) /\ name[s.start + x] = Dot THEN s.start + x + 1 ELSE s.start + x,
                    out |-> s.out \o <<x>> \o SubSeq(name, s.start, (s.start + x) - 1)]
<1>0. y # 0
  OBVIOUS
<1>1. y = z
  OBVIOUS
<1>2. EncodeStep(s, name) = R(y)
  BY ONLY <1>0, Zenon DEF EncodeStep
<1> HIDE DEF y
<1>3. R(y) = R(z)
  BY ONLY <1>1, Zenon
<1> HIDE DEF R
<1>4. EncodeStep(s, name) = R(z)
  BY <1>2, <1>3, Zenon
<1> QED BY <1>4 DEF R

\* A label more.
LEMMA EncodeMore ==
  ASSUME NEW buf \in Seq(Bytes), NEW name, Aligned(buf, name), ZeroFree(name), NEW j, Begins(name, j),
         NEW s, s = [start |-> j, out |-> SubSeq(buf, 1, j - 1)], NEW k \in Nat, j >= k
  PROVE  Written(buf, name, EncodeStep(s, name), k)
<1> DEFINE n == Len(name)
           m == buf[j]
           c == Cspn(From(name, j), {Dot, 0})
           d == EncodeStep(s, name)
           out == SubSeq(buf, 1, j + m)
           to == IF j + m <= n /\ name[j + m] = Dot THEN j + m + 1 ELSE j + m
<1>1. name \in Seq(0 .. 255) /\ n + 1 <= Len(buf) /\ n \in Nat /\ Len(buf) \in Nat
  BY DEF Aligned
<1>2. j \in 1 .. n /\ j \in Nat /\ LabelAt(buf, name, j)
  BY <1>1 DEF Aligned, Begins
<1>3. /\ m \in 1 .. n - j + 1
      /\ \A x \in j .. j + m - 1 : name[x] # Dot
      /\ j + m = n + 1 \/ (j + m < n /\ name[j + m] = Dot)
  BY <1>2, Zenon DEF LabelAt
<1> HIDE DEF m
<1>4. c = m
  <2> DEFINE t == From(name, j)
  <2>1. /\ Len(t) = n - j + 1
        /\ \A x \in 1 .. n - j + 1 : t[x] = name[j + x - 1]
    <3>1. j \in 1 .. Len(name) + 1
      BY ONLY <1>1, <1>2
    <3> QED BY <1>1, <3>1, FromIs
  <2> HIDE DEF t
  <2>2. ASSUME NEW x \in 1 .. m PROVE t[x] \notin {Dot, 0}
    <3>1. x \in 1 .. n - j + 1 /\ j + x - 1 \in j .. j + m - 1 /\ j + x - 1 \in 1 .. n
      BY ONLY <1>1, <1>2, <1>3, x \in 1 .. m
    <3>2. name[j + x - 1] # Dot /\ name[j + x - 1] # 0
      BY <1>3, <3>1, Zenon DEF ZeroFree
    <3>3. t[x] = name[j + x - 1]
      BY <2>1, <3>1, Zenon
    <3> QED BY <3>2, <3>3, Zenon
  <2>3. m = Len(t) \/ t[m + 1] \in {Dot, 0}
    <3>1. CASE j + m = n + 1
      BY ONLY <1>1, <1>2, <1>3, <2>1, <3>1
    <3>2. CASE j + m < n /\ name[j + m] = Dot
      <4>1. m + 1 \in 1 .. n - j + 1 /\ j + (m + 1) - 1 = j + m
        BY ONLY <1>1, <1>2, <1>3, <3>2
      <4>2. t[m + 1] = name[j + m]
        BY <2>1, <4>1, Zenon
      <4> QED BY <3>2, <4>2
    <3> QED BY <1>3, <3>1, <3>2
  <2>4. m \in 0 .. Len(t) /\ Len(t) \in Nat
    BY ONLY <1>1, <1>2, <1>3, <2>1
  <2>5. OutPrefix(t, {Dot, 0}, m)
    BY <2>2, <2>3, <2>4, Zenon DEF OutPrefix
  <2>6. m = Cspn(t, {Dot, 0})
    BY <2>4, <2>5, CspnIs, Zenon
  <2> QED BY <2>6 DEF t
<1>5. d = [start |-> to, out |-> out]
  <2> DEFINE b == SubSeq(buf, 1, j - 1)
             l == SubSeq(name, j, (j + m) - 1)
  <2>1. b \o <<m>> \o l = out
    <3>1. m = buf[j] /\ m \in Nat
      BY <1>3 DEF m
    <3>2. (j + m) - 1 = j + m - 1
      BY ONLY <1>2, <3>1
    <3> QED BY <1>1, <1>2, <3>1, <3>2, Rejoined, Zenon
  <2>2. s.start = j /\ s.out = b
    OBVIOUS
  <2>3. m # 0
    BY ONLY <1>1, <1>2, <1>3
  <2> HIDE DEF b, l, out
  <2>4. d = [start |-> to, out |-> b \o <<m>> \o l]
    <3> DEFINE z == Cspn(From(name, s.start), {Dot, 0})
    <3>1. z = m
      BY <1>4, <2>2, Zenon
    <3>2. z # 0
      BY <2>3, <3>1, Zenon
    <3>3. d = [start |-> IF s.start + z <= n /\ name[s.start + z] = Dot THEN s.start + z + 1 ELSE s.start + z,
               out |-> s.out \o <<z>> \o SubSeq(name, s.start, (s.start + z) - 1)]
      BY ONLY <3>2, EncodeLabel, Zenon
    <3> HIDE DEF d, n, z
    <3> QED BY <2>2, <3>1, <3>3, Zenon DEF l
  <2> QED BY <2>1, <2>4, Zenon
<1>6. out \in Seq(Nat) /\ j + m \in Nat /\ j + m + 1 \in Nat /\ j + m + 1 - 1 = j + m
  <2>1. j + m \in Nat /\ j + m <= Len(buf) /\ j + m + 1 \in Nat /\ j + m + 1 - 1 = j + m
    BY ONLY <1>1, <1>2, <1>3
  <2>2. ASSUME NEW x \in 1 .. Len(buf) PROVE buf[x] \in Nat
    <3>1. buf[x] \in Bytes
      BY ONLY buf \in Seq(Bytes), x \in 1 .. Len(buf)
    <3>2. Bytes \subseteq Nat
      BY DEF Bytes, Dot
    <3> QED BY <3>1, <3>2, Zenon
  <2>3. out \in Seq(Nat)
    BY ONLY <1>1, <2>1, <2>2
  <2> QED BY <2>1, <2>3
<1> HIDE DEF d
<1>7. CASE j + m = n + 1
  <2>1. to = n + 1
    <3>1. ~(j + m <= n)
      BY ONLY <1>1, <1>2, <1>3, <1>7
    <3> QED BY <1>7, <3>1, Zenon
  <2>2. out = SubSeq(buf, 1, n + 1) /\ n + 1 \in Nat
    BY <1>6, <1>7, Zenon
  <2> HIDE DEF to, out
  <2>3. d.start = n + 1 /\ d.out = out /\ d \in [start : Nat, out : Seq(Nat)]
    BY <1>5, <1>6, <2>1, <2>2
  <2>4. Written(buf, name, d, k)
    BY <2>2, <2>3, Zenon DEF Written
  <2> QED BY <2>4 DEF d
<1>8. CASE j + m < n /\ name[j + m] = Dot
  <2> DEFINE x == j + m + 1
  <2>1. j + m <= n /\ x \in 1 .. n /\ x - 1 = j + m /\ x >= k + 1
    BY ONLY <1>1, <1>2, <1>3, <1>8, k \in Nat, j >= k
  <2>2. to = x
    BY <1>8, <2>1, Zenon
  <2> HIDE DEF x, to
  <2>3. name[x - 1] = Dot
    BY <1>8, <2>1, Zenon
  <2>4. Begins(name, x)
    BY <2>1, <2>3, Zenon DEF Begins
  <2>5. out = SubSeq(buf, 1, x - 1) /\ x \in Nat
    BY <1>6, <2>1, Zenon DEF x
  <2> HIDE DEF out
  <2>6. d.start = x /\ d.out = out /\ d \in [start : Nat, out : Seq(Nat)]
    BY <1>5, <1>6, <2>2, <2>5
  <2>7. Written(buf, name, d, k)
    BY <2>1, <2>4, <2>5, <2>6, Zenon DEF Written
  <2> QED BY <2>7 DEF d
<1> QED BY <1>3, <1>7, <1>8, Zenon

\* The whole name.
LEMMA Encoded ==
  ASSUME NEW buf \in Seq(Bytes), NEW name, Aligned(buf, name), ZeroFree(name), name # <<>>,
         Len(name) + 2 <= Len(buf), buf[Len(name) + 2] = 0
  PROVE  dns_encode_qname(name) = SubSeq(buf, 1, Len(name) + 2)
<1> DEFINE n == Len(name)
           S == [start : Nat, out : Seq(Nat)]
           step == [k \in 1 .. n |-> [s \in S |-> EncodeStep(s, name)]]
           a == [start |-> 1, out |-> <<>>]
           P == [k \in 0 .. n |-> {s \in S : Written(buf, name, s, k)}]
           e == Runs(step, a, n)
<1>1. name \in Seq(0 .. 255) /\ n \in Nat /\ n > 0 /\ 0 \in 0 .. n /\ n \in 0 .. n /\ Len(buf) \in Nat
  <2>1. name \in Seq(0 .. 255)
    BY DEF Aligned
  <2> QED BY ONLY <2>1, buf \in Seq(Bytes), name # <<>>
<1>2. dns_encode_qname(name) = Append(e.out, 0)
  BY Zenon DEF dns_encode_qname
<1>3. a \in P[0]
  <2>1. a \in S /\ a.start = 1 /\ a.out = <<>>
    OBVIOUS
  <2>2. SubSeq(buf, 1, 1 - 1) = <<>> /\ 1 \in 1 .. n /\ 1 >= 0 + 1
    BY ONLY <1>1, buf \in Seq(Bytes)
  <2> HIDE DEF a
  <2>3. Written(buf, name, a, 0)
    BY <2>1, <2>2, Zenon DEF Written, Begins
  <2> QED BY <1>1, <2>1, <2>3, Zenon
<1>4. ASSUME NEW k \in 1 .. n, NEW s \in P[k - 1] PROVE step[k][s] \in P[k]
  <2>1. k - 1 \in 0 .. n /\ k \in 0 .. n /\ k \in Nat /\ k - 1 + 1 = k
    BY ONLY <1>1, k \in 1 .. n
  <2>2. s \in S /\ Written(buf, name, s, k - 1)
    BY <1>4, <2>1, Zenon
  <2>3. step[k][s] = EncodeStep(s, name)
    BY <2>2, Zenon
  <2>4. Written(buf, name, EncodeStep(s, name), k)
    <3>1. CASE s.start = n + 1 /\ s.out = SubSeq(buf, 1, n + 1)
      <4>1. EncodeStep(s, name) = s
        <5>1. Cspn(From(name, n + 1), {Dot, 0}) = 0
          <6>1. n + 1 \in 1 .. n + 1 /\ ~(n + 1 <= n)
            BY ONLY <1>1
          <6> QED BY <1>1, <6>1, CspnNone, Zenon
        <5> QED BY <3>1, <5>1, Zenon DEF EncodeStep
      <4> QED BY <2>2, <3>1, <4>1, Zenon DEF Written
    <3>2. CASE ~(s.start = n + 1 /\ s.out = SubSeq(buf, 1, n + 1))
      <4> DEFINE j == s.start
      <4>1. Begins(name, j) /\ j >= k /\ s.out = SubSeq(buf, 1, j - 1)
        BY <2>1, <2>2, <3>2, Zenon DEF Written
      <4>2. s = [start |-> j, out |-> s.out]
        BY <2>2
      <4>3. s = [start |-> j, out |-> SubSeq(buf, 1, j - 1)]
        BY <4>1, <4>2, Zenon
      <4> HIDE DEF j
      <4> QED BY <2>1, <4>1, <4>3, EncodeMore, Zenon
    <3> QED BY <3>1, <3>2
  <2>5. EncodeStep(s, name) \in S
    BY <2>4, Zenon DEF Written
  <2> HIDE DEF step, S
  <2> QED BY <2>1, <2>3, <2>4, <2>5, Zenon
<1> HIDE DEF step, a, P, S, e
<1>5. e \in P[n]
  BY <1>1, <1>3, <1>4, RunsIn DEF e
<1>6. Written(buf, name, e, n)
  BY <1>1, <1>5, Zenon DEF P
<1>8. e.out = SubSeq(buf, 1, n + 1)
  <2>1. ~(e.start \in 1 .. n /\ e.start >= n + 1)
    BY ONLY <1>1
  <2> QED BY <1>6, <2>1, Zenon DEF Written, Begins
<1>9. Append(SubSeq(buf, 1, n + 1), 0) = SubSeq(buf, 1, n + 2)
  <2>1. n + 2 <= Len(buf) /\ buf[n + 2] = 0
    OBVIOUS
  <2> HIDE DEF n
  <2> DEFINE s == SubSeq(buf, 1, n + 1)
             t == SubSeq(buf, 1, n + 2)
  <2>2. s \in Seq(Bytes) /\ Len(s) = n + 1 /\ \A x \in 1 .. n + 1 : s[x] = buf[x]
    BY ONLY <1>1, <2>1, buf \in Seq(Bytes)
  <2>3. t \in Seq(Bytes) /\ Len(t) = n + 2 /\ \A x \in 1 .. n + 2 : t[x] = buf[x]
    BY ONLY <1>1, <2>1, buf \in Seq(Bytes)
  <2> DEFINE r == Append(s, 0)
  <2>4. 0 \in Bytes
    BY DEF Bytes, Dot
  <2> HIDE DEF s, t
  <2>5. r \in Seq(Bytes) /\ Len(r) = n + 2 /\ r[n + 2] = 0 /\ \A x \in 1 .. n + 1 : r[x] = s[x]
    BY ONLY <1>1, <2>2, <2>4
  <2> HIDE DEF r
  <2>6. ASSUME NEW x \in 1 .. n + 2 PROVE r[x] = t[x]
    <3>1. x = n + 2 \/ x \in 1 .. n + 1
      BY ONLY <1>1, x \in 1 .. n + 2
    <3> QED BY <2>1, <2>2, <2>3, <2>5, <3>1, Zenon
  <2>7. r = t
    BY ONLY <1>1, <2>3, <2>5, <2>6
  <2> QED BY <2>7 DEF r, s, t
<1> QED BY <1>2, <1>8, <1>9, Zenon

\* The name of the root.
LEMMA EncodedRoot ==
  dns_encode_qname(<<Dot>>) = <<0>>
<1> DEFINE name == <<Dot>>
           S == [start : Nat, out : Seq(Nat)]
           step == [k \in 1 .. 1 |-> [s \in S |-> EncodeStep(s, name)]]
           a == [start |-> 1, out |-> <<>>]
           e == Runs(step, a, 1)
           P == [k \in 0 .. 1 |-> {s \in S : s.out = <<>>}]
<1>1. dns_encode_qname(name) = Append(e.out, 0)
  <2>1. Len(name) = 1
    OBVIOUS
  <2> HIDE DEF name
  <2> QED BY <2>1, Zenon DEF dns_encode_qname
<1>2. a \in P[0]
  OBVIOUS
<1> HIDE DEF P
<1>3. EncodeStep(a, name) = a /\ a.out = <<>>
  <2>1. Cspn(From(name, 1), {Dot, 0}) = 0
    <3>1. From(name, 1) = name /\ Len(name) = 1 /\ name[1] = Dot
      <4>1. name \in Seq({Dot}) /\ Len(name) = 1 /\ name[1] = Dot
        OBVIOUS
      <4> HIDE DEF name
      <4>2. From(name, 1) = name
        BY <4>1 DEF From
      <4> QED BY <4>1, <4>2
    <3> HIDE DEF name
    <3>2. OutPrefix(name, {Dot, 0}, 0)
      BY <3>1 DEF OutPrefix
    <3>3. Cspn(name, {Dot, 0}) = 0
      BY <3>1, <3>2, CspnIs
    <3> QED BY <3>1, <3>3, Zenon
  <2>2. a.start = 1 /\ a.out = <<>>
    OBVIOUS
  <2> HIDE DEF a, name
  <2> QED BY <2>1, <2>2, Zenon DEF EncodeStep
<1>4. PICK f : Through(f, step, a, 1)
  BY RunsBy
<1>5. e = step[1][a]
  <2> HIDE DEF step, a
  <2>1. f[0] = a /\ f[1] = e /\ f[1] = step[1][f[1 - 1]]
    BY <1>4 DEF Through
  <2> QED BY <2>1
<1>6. step[1][a] = EncodeStep(a, name)
  <2>1. a \in S /\ 1 \in 1 .. 1
    OBVIOUS
  <2> HIDE DEF S, a, name
  <2> QED BY <2>1, Zenon
<1>7. e.out = <<>>
  <2> HIDE DEF e, step, a, name
  <2> QED BY <1>3, <1>5, <1>6, Zenon
<1> HIDE DEF e
<1> QED BY <1>1, <1>7

\* dns_encode_qname writes no more than it has read, and a length: when a
\* label did not end in a dot, none follows it.
Bounded(name, s) ==
  /\ s \in [start : Nat, out : Seq(Nat)] /\ s.start \in 1 .. Len(name) + 1
  /\ Len(s.out) <= s.start
  /\ Cspn(From(name, s.start), {Dot, 0}) # 0 => Len(s.out) <= s.start - 1

\* A label more.
LEMMA BoundedMore ==
  ASSUME NEW B, B \subseteq Nat, NEW name \in Seq(B), NEW s, Bounded(name, s)
  PROVE  Bounded(name, EncodeStep(s, name))
<1> DEFINE n == Len(name)
           j == s.start
           m == Cspn(From(name, j), {Dot, 0})
           dot == j + m
           d == EncodeStep(s, name)
           l == SubSeq(name, j, dot - 1)
           out == s.out \o <<m>> \o l
           to == IF dot <= n /\ name[dot] = Dot THEN dot + 1 ELSE dot
<1>1. n \in Nat /\ j \in 1 .. n + 1 /\ s.out \in Seq(Nat) /\ Len(s.out) \in Nat
  BY DEF Bounded
<1>2. /\ dot \in j .. n + 1 /\ \A x \in j .. dot - 1 : name[x] \notin {Dot, 0}
      /\ dot <= n => name[dot] \in {Dot, 0}
  <2>1. j \in 1 .. Len(name) + 1 /\ dot = j + Cspn(From(name, j), {Dot, 0})
    BY <1>1, Zenon
  <2> HIDE DEF j, dot
  <2> QED BY ONLY name \in Seq(B), <2>1, CspnFrom DEF n
<1>3. CASE m = 0
  <2>1. d = s
    BY <1>3, Zenon DEF EncodeStep
  <2> QED BY <2>1, Zenon
<1>4. CASE m # 0
  <2>1. d = [start |-> to, out |-> out]
    BY <1>4, Zenon DEF EncodeStep
  <2>2. Len(s.out) <= j - 1
    BY <1>4, Zenon DEF Bounded
  <2>3. m \in Nat
    <3>1. From(name, j) \in Seq(B)
      BY <1>1, FromIs, Zenon
    <3> DEFINE t == From(name, j)
    <3>2. Len(From(name, j)) \in Nat
      <4>1. t \in Seq(B)
        BY <3>1, Zenon
      <4> HIDE DEF t
      <4>2. Len(t) \in Nat
        BY ONLY <4>1
      <4> QED BY <4>2, Zenon DEF t
    <3>3. OutPrefix(From(name, j), {Dot, 0}, m)
      BY <3>2, CspnIs, Zenon
    <3> HIDE DEF m, t
    <3>4. m \in 0 .. Len(t)
      BY <3>3, Zenon DEF OutPrefix, t
    <3>5. Len(t) \in Nat
      BY <3>2, Zenon DEF t
    <3> QED BY ONLY <3>4, <3>5
  <2> HIDE DEF m
  <2> DEFINE h == dot - 1
             q == s.out
  <2>4. l \in Seq(Nat) /\ Len(l) = m
    <3>1. h <= n /\ h - j + 1 = m /\ j \in Nat /\ h \in Nat /\ j >= 1 /\ j <= h + 1
      BY ONLY <1>1, <1>2, <2>3 DEF dot
    <3>2. l = SubSeq(name, j, h)
      OBVIOUS
    <3> HIDE DEF h, j, m, l
    <3>3. ASSUME NEW x \in 1 .. Len(name) PROVE name[x] \in Nat
      <4>1. name[x] \in B
        BY ONLY name \in Seq(B), x \in 1 .. Len(name)
      <4> QED BY <4>1, Zenon
    <3>4. name \in Seq(Nat)
      BY ONLY <3>3, name \in Seq(B)
    <3>5. SubSeq(name, j, h) \in Seq(Nat) /\ Len(SubSeq(name, j, h)) = h - j + 1
      BY ONLY <1>1, <3>1, <3>4 DEF n
    <3> QED BY <3>1, <3>2, <3>5, Zenon
  <2>5. out \in Seq(Nat) /\ Len(out) = Len(q) + 1 + m /\ Len(q) \in Nat /\ Len(q) <= j - 1
    <3>1. q \in Seq(Nat) /\ Len(q) <= j - 1
      BY <1>1, <2>2
    <3>2. out = (q \o <<m>>) \o l
      OBVIOUS
    <3> HIDE DEF l, q, out, j, m
    <3>3. <<m>> \in Seq(Nat) /\ Len(<<m>>) = 1
      BY ONLY <2>3
    <3>4. IsJoin(q \o <<m>>, q, <<m>>, Nat)
      BY <3>1, <3>3, Joins, Zenon
    <3> DEFINE v == q \o <<m>>
    <3>5. v \in Seq(Nat) /\ Len(v) = Len(q) + 1
      BY <3>3, <3>4, Zenon DEF IsJoin
    <3> HIDE DEF v
    <3>6. IsJoin(v \o l, v, l, Nat)
      BY <2>4, <3>5, Joins, Zenon
    <3>7. v \o l \in Seq(Nat) /\ Len(v \o l) = Len(q) + 1 + m
      BY <2>4, <3>5, <3>6, Zenon DEF IsJoin
    <3>8. Len(q) \in Nat
      BY ONLY <3>1
    <3> QED BY <3>1, <3>2, <3>7, <3>8, Zenon DEF v
  <2> HIDE DEF q, l, j
  <2> HIDE DEF out, d
  <2>6. CASE dot <= n /\ name[dot] = Dot
    <3>1. to = dot + 1
      BY <2>6, Zenon
    <3>2. to \in Nat /\ to \in 1 .. n + 1 /\ Len(out) <= to - 1 /\ Len(out) <= to
      BY ONLY <1>1, <1>2, <2>3, <2>5, <2>6, <3>1 DEF dot
    <3> HIDE DEF to, n
    <3>3. d \in [start : Nat, out : Seq(Nat)] /\ d.start = to /\ d.out = out
      BY <2>1, <2>5, <3>2
    <3>4. Bounded(name, d)
      BY <3>2, <3>3, Zenon DEF Bounded, n
    <3> QED BY <3>4 DEF d
  <2>7. CASE ~(dot <= n /\ name[dot] = Dot)
    <3>1. to = dot
      BY <2>7, Zenon
    <3>2. to \in Nat /\ to \in 1 .. n + 1 /\ Len(out) <= to
      BY ONLY <1>1, <1>2, <2>3, <2>5, <3>1 DEF dot
    <3>3. Cspn(From(name, to), {Dot, 0}) = 0
      BY <1>2, <3>1, <3>2, CspnNone, Zenon
    <3> HIDE DEF to, n
    <3>4. d \in [start : Nat, out : Seq(Nat)] /\ d.start = to /\ d.out = out
      BY <2>1, <2>5, <3>2
    <3>5. Bounded(name, d)
      BY <3>2, <3>3, <3>4, Zenon DEF Bounded, n
    <3> QED BY <3>5 DEF d
  <2> QED BY <2>6, <2>7
<1> QED BY <1>3, <1>4

\* The code of a name is two bytes longer than the name at most.
LEMMA EncodedLen ==
  ASSUME NEW B, B \subseteq Nat, NEW name \in Seq(B)
  PROVE  Len(dns_encode_qname(name)) <= Len(name) + 2
<1> DEFINE n == Len(name)
           S == [start : Nat, out : Seq(Nat)]
           step == [k \in 1 .. n |-> [s \in S |-> EncodeStep(s, name)]]
           a == [start |-> 1, out |-> <<>>]
           P == [k \in 0 .. n |-> {s \in S : Bounded(name, s)}]
           e == Runs(step, a, n)
<1>1. n \in Nat /\ 0 \in 0 .. n /\ n \in 0 .. n
  OBVIOUS
<1>2. dns_encode_qname(name) = Append(e.out, 0)
  BY Zenon DEF dns_encode_qname
<1>3. a \in P[0]
  <2>1. a \in S /\ a.start = 1 /\ a.out = <<>>
    OBVIOUS
  <2>2. 1 \in 1 .. n + 1 /\ Len(<<>>) <= 1 /\ Len(<<>>) <= 1 - 1
    BY <1>1
  <2> HIDE DEF a
  <2>3. Bounded(name, a)
    BY <2>1, <2>2, Zenon DEF Bounded
  <2> QED BY <1>1, <2>1, <2>3, Zenon
<1>4. ASSUME NEW k \in 1 .. n, NEW s \in P[k - 1] PROVE step[k][s] \in P[k]
  <2>1. k - 1 \in 0 .. n /\ k \in 0 .. n
    BY ONLY <1>1, k \in 1 .. n
  <2>2. s \in S /\ Bounded(name, s)
    BY <1>4, <2>1, Zenon
  <2>3. step[k][s] = EncodeStep(s, name)
    BY <2>2, Zenon
  <2>4. Bounded(name, EncodeStep(s, name))
    BY <2>2, BoundedMore, Zenon
  <2>5. EncodeStep(s, name) \in S
    BY <2>4, Zenon DEF Bounded
  <2> HIDE DEF step, S
  <2> QED BY <2>1, <2>3, <2>4, <2>5, Zenon
<1> HIDE DEF step, a, P, S, e
<1>5. e \in P[n]
  BY <1>1, <1>3, <1>4, RunsIn DEF e
<1>6. Bounded(name, e)
  BY <1>1, <1>5, Zenon DEF P
<1>7. e.out \in Seq(Nat) /\ e.start \in 1 .. n + 1 /\ Len(e.out) <= e.start
  BY <1>6 DEF Bounded
<1> DEFINE o == e.out
<1>8. o \in Seq(Nat) /\ Len(o) <= n + 1
  BY <1>1, <1>7
<1> HIDE DEF o, n
<1>9. Len(Append(o, 0)) = Len(o) + 1 /\ Len(o) \in Nat
  BY <1>8
<1>10. Len(Append(o, 0)) <= n + 2
  BY <1>1, <1>8, <1>9
<1> QED BY <1>2, <1>10, Zenon DEF o, n

\* dns_poll repeats the question.
LEMMA RepeatedIs ==
  ASSUME NEW buf \in Seq(Bytes), dns_decode_qname(buf) # NoName
  PROVE  Repeated(buf, dns_decode_qname(buf))
<1> DEFINE out == dns_decode_qname(buf)
<1>1. IsQuestion(buf, out.name, out.consumed) /\ Len(out.name) < DNS_MAX_QNAME
  BY Decoded, Zenon
<1> HIDE DEF out
<1>2. /\ ZeroFree(out.name) => dns_encode_qname(out.name) = SubSeq(buf, 1, out.consumed)
      /\ Len(dns_encode_qname(out.name)) <= out.consumed
  <2>1. CASE out.name = <<Dot>> /\ out.consumed = 1 /\ buf[1] = 0 /\ Len(buf) >= 1
    <3>1. SubSeq(buf, 1, 1) = <<0>>
      <4> DEFINE t == SubSeq(buf, 1, 1)
      <4>1. t \in Seq(Bytes) /\ Len(t) = 1 /\ t[1] = 0
        BY ONLY <2>1, buf \in Seq(Bytes)
      <4> HIDE DEF t
      <4>2. t = <<0>>
        BY ONLY <4>1
      <4> QED BY <4>2 DEF t
    <3>2. Len(<<0>>) <= 1
      OBVIOUS
    <3> QED BY <2>1, <3>1, <3>2, EncodedRoot, Zenon
  <2>2. CASE /\ out.name # <<>> /\ Aligned(buf, out.name) /\ out.consumed = Len(out.name) + 2
             /\ out.consumed <= Len(buf) /\ buf[out.consumed] = 0
    <3>1. out.name \in Seq(0 .. 255)
      BY <2>2, Zenon DEF Aligned
    <3>2. Len(dns_encode_qname(out.name)) <= Len(out.name) + 2
      <4>1. 0 .. 255 \subseteq Nat
        OBVIOUS
      <4> QED BY <3>1, <4>1, EncodedLen, Zenon
    <3> QED BY <2>2, <3>2, Encoded, Zenon
  <2> QED BY <1>1, <2>1, <2>2, Zenon DEF IsQuestion
<1> QED BY <1>1, <1>2, Zenon DEF Repeated, ZeroFree, out

-----------------------------------------------------------------------------
(* The theorems.                                                           *)

\* What the DNS, DHCP and HTTP functions returned is as RepliesAgree says.
LEMMA RepliesAre == Returned => RepliesAgree
<1>1. SUFFICES ASSUME Returned PROVE RepliesAgree
  OBVIOUS
<1>2. QuestionRepeated
  <2>1. SUFFICES ASSUME job.fn = "qname", job.out # NoName PROVE Repeated(job.in, job.out)
    BY DEF QuestionRepeated
  <2>2. job.in \in Questions /\ job.out = dns_decode_qname(job.in)
    BY <1>1, <2>1, Zenon DEF Returned
  <2>3. job.in \in Seq(Bytes)
    BY <2>2, PacketsAssumption, Zenon DEF Bytes
  <2> QED BY <2>1, <2>2, <2>3, RepeatedIs, Zenon
<1>3. AckIsOfferButType
  <2>1. SUFFICES ASSUME job.fn = "ack" PROVE job.out = [dhcp_fill_offer(job.in) EXCEPT ![7] = DHCPACK]
    BY DEF AckIsOfferButType
  <2>2. job.in \in Networks /\ job.out = dhcp_fill_ack(job.in)
    BY <1>1, <2>1, Zenon DEF Returned
  <2> QED BY <2>2, AckIs, Zenon
<1>4. BodyAfterEmptyLine
  <2>1. SUFFICES ASSUME job.fn = "response", job.out.ret = 0 PROVE BodyFound(job.in, job.out.body)
    BY DEF BodyAfterEmptyLine
  <2>2. job.in \in Responses /\ job.out = http_client_parse_response(job.in)
    BY <1>1, <2>1, Zenon DEF Returned
  <2>3. job.in \in Seq(Chars)
    BY <2>2, PacketsAssumption, Zenon
  <2> QED BY <2>1, <2>2, <2>3, BodyIs, Zenon
<1> QED BY <1>2, <1>3, <1>4 DEF RepliesAgree

\* What search_system and fs_list_dir returned is as LookupsAgree says.
LEMMA LookupsAre == Returned => LookupsAgree
<1>1. SUFFICES ASSUME Returned PROVE LookupsAgree
  OBVIOUS
<1>2. ListedFilesAreFound
  <2>1. SUFFICES ASSUME job.fn = "list" PROVE ListAgrees(job.in, job.out)
    BY DEF ListedFilesAreFound
  <2>2. job.in \in Directories /\ job.out = fs_list_dir(job.in)
    BY <1>1, <2>1, Zenon DEF Returned
  <2>3. job.in \in Seq(DirEntries)
    BY <2>2, LookupsAssumption, Zenon
  <2> QED BY <2>2, <2>3, ListsAgree, Zenon
<1>3. ResultsRanked
  <2>1. SUFFICES ASSUME job.fn = "search", Len(job.in.registry) <= MaxMatches
                 PROVE  Ranked(job.in.registry, job.in.query, job.out)
    BY DEF ResultsRanked
  <2>2. /\ job.in.registry \in Registries /\ job.in.query \in Queries
        /\ job.out = search_system(job.in.registry, job.in.query)
    BY <1>1, <2>1, Zenon DEF Returned
  <2>3. job.in.registry \in Seq(Topics) /\ job.in.query \in Seq(Chars) /\ job.in.query # <<>>
    BY <2>2, LookupsAssumption, Zenon
  <2> QED BY <2>1, <2>2, <2>3, SearchRanks, Zenon
<1> QED BY <1>2, <1>3 DEF LookupsAgree

\* RepliesAgree for every input: dns_poll repeats a question byte for byte, up to
\* a zero byte in it, the acknowledgement of dhcp_fill_ack is its offer but for
\* the type, and http_client_parse_response takes as the body what follows the
\* first line feed behind a line feed.
THEOREM FormatsReplies == FormatsSpec => []RepliesAgree
<1>1. FormatsSpec => []Returned
  BY ReturnedInit, ReturnedNext, PTL DEF FormatsSpec
<1> QED BY <1>1, RepliesAre, PTL

\* search_system shows every match once and the most relevant first, and ls shows
\* exactly what cat and file find: LookupsAgree, for every input.
THEOREM FormatsLookups == FormatsSpec => []LookupsAgree
<1>1. FormatsSpec => []Returned
  BY ReturnedInit, ReturnedNext, PTL DEF FormatsSpec
<1> QED BY <1>1, LookupsAre, PTL
=============================================================================
