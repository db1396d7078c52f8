------------------------------ MODULE TcpProofs ------------------------------
(***************************************************************************)
(* What TLAPS proves of TcpServer, for every number of descriptors, size   *)
(* of the buffer and the header, lengths of commands and clients: which    *)
(* descriptors the task holds, that it loses none but after CloseLimit + 1 *)
(* failures, that what it takes for commands are commands, and that it     *)
(* takes all of them when TCP does not cut or join them.                   *)
(***************************************************************************)
EXTENDS TcpServer, FiniteSetTheorems, WellFoundedInduction, TLAPS

States == {"none", "backlog", "open", "gone", "lost"}
Connection ==
    [state : States, bytes : Seq(Bytes), cmds : SUBSET (Nat \X Lengths),
     sent : Nat, read : Nat, left : BOOLEAN]
CommandRecord ==
    [client : Clients, from : Nat, len : Nat, announced : BOOLEAN]

\* The record of command x of client c when it is taken.
Whole(c, x) ==
    [client |-> c, from |-> x[1], len |-> x[2], announced |-> TRUE]

\* TypeOK with what it leaves to the other invariants: connections, commands
\* taken, and the count i, which goes beyond the failures only once a client
\* was served.
ServerTypes ==
    /\ TypeOK
    /\ conn \in [Clients -> Connection]
    /\ taken \in SUBSET CommandRecord
    /\ closes \in Nat
    /\ pc \notin {"accept", "recv", "close"} => i \in 0 .. fails

\* Which descriptors the task holds at each of its steps.
Places ==
    /\ pc # "exit" => ii = 0
    /\ pc = "malloc" => sock = NoSocket
    /\ pc \in {"setsockopt", "bind", "listen"} =>
           sock # NoSocket /\ table[sock] = New
    /\ pc = "exit" => IF sock = NoSocket THEN ii = 0 ELSE table[sock] = New
    /\ pc \in {"accept", "recv", "close"} =>
           sock # NoSocket /\ table[sock] = Listening
    /\ pc \notin {"recv", "close"} => connected = NoSocket
    /\ \A d \in Descriptors : table[d] \in Clients => d = connected
    /\ connected # NoSocket => /\ table[connected] \in Clients
                               /\ conn[table[connected]].state = "open"
    /\ pc = "recv" => socket_descr = connected

\* Failures to close that count for the listening socket not yet leaked.
Pending ==
    IF pc = "exit" THEN ii
    ELSE IF pc = "socket" /\ sock # NoSocket /\ table[sock] # Free
    THEN CloseLimit + 1
    ELSE 0

\* Each leaked descriptor cost CloseLimit + 1 failures of its own.
Account == Cardinality(Leaked) * (CloseLimit + 1) + Pending <= closes

Live(k) == k.state \in {"none", "backlog", "open"}

\* A header that ends with the bytes lo and hi announces the length l.
Halves(lo, hi, l) == hi.len = l /\ lo.val + Radix * hi.val = l

\* The header that ends with byte p of s announces the length l.
Announces(s, p, l) == p \in Int /\ Halves(s[p - 1], s[p], l)

\* The bytes of connection k: those not yet received lie at read .. sent - 1
\* of the stream, the commands do not overlap, a byte announces a length only
\* where the header of a command of that length ends, and there it stands.
Stream(k) ==
    /\ k.state = "gone" => k.read = k.sent
    /\ \A x \in k.cmds : x[1] + x[2] <= k.sent
    /\ \A x, y \in k.cmds : x = y \/ x[1] + x[2] <= y[1] \/ y[1] + y[2] <= x[1]
    /\ Live(k) =>
        /\ k.sent = k.read + Len(k.bytes)
        /\ \A b \in 1 .. Len(k.bytes) :
              k.bytes[b].len # 0
                => <<k.read + b - MAX_REC_COMSIZE, k.bytes[b].len>> \in k.cmds
        /\ \A x \in k.cmds :
              x[1] >= k.read
                => Announces(k.bytes, x[1] - k.read + MAX_REC_COMSIZE, x[2])

\* When TCP delivers the commands one by one: those that fit the buffer and
\* were received are in T, and reception stops inside none of them.
Settled(c, k, T) ==
    \A x \in k.cmds :
        x[2] <= RECV_DATA =>
            /\ x[1] + x[2] <= k.read
                 => Whole(c, x) \in T
            /\ ~ (x[1] < k.read /\ k.read < x[1] + x[2])

Streams == \A c \in Clients : Stream(conn[c])
Settling == ~cut => \A c \in Clients : Settled(c, conn[c], taken)

ServerInv ==
    ServerTypes /\ Places /\ Account /\ Streams /\ Settling /\ TakenAreCommands
-----------------------------------------------------------------------------
\* Lowest is a member of its argument.
LEMMA LowestMember ==
    ASSUME NEW S, S \subseteq Nat, S # {}
    PROVE  Lowest(S) \in S
  <1> DEFINE R == {ss \in Nat \X Nat : ss[1] < ss[2]}
  <1>1. IsWellFoundedOn(R, Nat)
    BY NatLessThanWellFounded, Zenon DEF OpToRel
  <1> HIDE DEF R
  <1>2. PICK x \in S : \A y \in S : <<y, x>> \notin R
    BY <1>1, WFMin
  <1>3. \A y \in S : x <= y
    <2> SUFFICES ASSUME NEW y \in S PROVE x <= y
      OBVIOUS
    <2>1. x \in Nat /\ y \in Nat
      OBVIOUS
    <2>2. y < x => <<y, x>> \in R
      BY <2>1 DEF R
    <2> QED
      BY <1>2, <2>1, <2>2
  <1> QED
    BY <1>3 DEF Lowest

\* The lowest free descriptor is one.
LEMMA FreeDescriptor ==
    ASSUME FreeSlots # {}
    PROVE  Lowest(FreeSlots) \in Descriptors /\ table[Lowest(FreeSlots)] = Free
  <1>1. FreeSlots \subseteq Nat
    BY TcpAssumption DEF FreeSlots, Descriptors
  <1>2. Lowest(FreeSlots) \in FreeSlots
    BY <1>1, LowestMember
  <1> QED
    BY <1>2 DEF FreeSlots

\* The oldest connection of the backlog is one.
LEMMA OldestConnection ==
    ASSUME Backlog # {}
    PROVE  Lowest(Backlog) \in Clients /\ conn[Lowest(Backlog)].state = "backlog"
  <1>1. Backlog \subseteq Nat
    BY TcpAssumption DEF Backlog
  <1>2. Lowest(Backlog) \in Backlog
    BY <1>1, LowestMember
  <1> QED
    BY <1>2 DEF Backlog

\* What remains of a sequence without its first n elements.
LEMMA Remainder ==
    ASSUME NEW S, NEW s \in Seq(S), NEW n \in 1 .. Len(s)
    PROVE  LET q == SubSeq(s, n + 1, Len(s))
           IN  /\ q \in Seq(S) /\ Len(q) = Len(s) - n
               /\ \A b \in 1 .. Len(s) - n : q[b] = s[n + b]
  <1>1. Len(s) \in Nat /\ n \in Nat /\ n <= Len(s)
    OBVIOUS
  <1>2. Len(SubSeq(s, n + 1, Len(s))) = Len(s) - n
    BY <1>1
  <1>3. \A b \in 1 .. Len(s) - n : SubSeq(s, n + 1, Len(s))[b] = s[n + b]
    BY <1>1
  <1>4. SubSeq(s, n + 1, Len(s)) \in Seq(S)
    BY <1>1
  <1> QED
    BY <1>2, <1>3, <1>4

\* Two sequences joined.
LEMMA Joined ==
    ASSUME NEW S, NEW s \in Seq(S), NEW t \in Seq(S)
    PROVE  /\ s \o t \in Seq(S) /\ Len(s \o t) = Len(s) + Len(t)
           /\ \A b \in 1 .. Len(s) + Len(t) :
                 (s \o t)[b] = IF b <= Len(s) THEN s[b] ELSE t[b - Len(s)]
  OBVIOUS

\* A connection with other bytes, position, commands or state is one.
LEMMA Rebuilt ==
    ASSUME NEW k \in Connection, NEW b \in Seq(Bytes), NEW n \in Nat,
           NEW X \in SUBSET (Nat \X Lengths), NEW s \in States
    PROVE  /\ [k EXCEPT !.bytes = b, !.read = n] \in Connection
           /\ [k EXCEPT !.bytes = b, !.cmds = X, !.sent = n] \in Connection
           /\ [k EXCEPT !.state = s, !.bytes = b] \in Connection
  BY DEF Connection

\* The commands are at least headers.
LEMMA LengthFacts ==
    /\ MAX_REC_COMSIZE \in Nat /\ MAX_REC_COMSIZE >= 2 /\ Radix \in Nat
    /\ \A m \in Messages :
          /\ Len(m) \in Nat /\ Len(m) \in Lengths /\ Len(m) >= MAX_REC_COMSIZE
          /\ \A b \in 1 .. Len(m) : m[b] \in Nat
    /\ \A l \in Lengths : l \in Nat /\ l >= MAX_REC_COMSIZE
  BY TcpAssumption DEF Lengths

\* A command lies where the stream has room for its header.
LEMMA CommandTypes ==
    ASSUME NEW k \in Connection, NEW x \in k.cmds
    PROVE  /\ x[1] \in Nat /\ x[2] \in Lengths /\ x[2] \in Nat
           /\ x[2] >= MAX_REC_COMSIZE /\ MAX_REC_COMSIZE \in Nat \ {0}
           /\ x = <<x[1], x[2]>>
  <1>1. x \in Nat \X Lengths
    BY DEF Connection
  <1>2. x[1] \in Nat /\ x[2] \in Lengths /\ x = <<x[1], x[2]>>
    BY <1>1
  <1> QED
    BY <1>2, LengthFacts

\* Where the header of a command not yet received ends, in m bytes from t on.
LEMMA HeaderInside ==
    ASSUME NEW p \in Nat, NEW q \in Nat, NEW t \in Nat, NEW m \in Nat,
           p >= t, q >= MAX_REC_COMSIZE, p + q <= t + m
    PROVE  p - t + MAX_REC_COMSIZE \in 2 .. m
  BY TcpAssumption

\* Receiving n bytes keeps the stream in order.
LEMMA ReceiveStream ==
    ASSUME NEW k \in Connection, Live(k), Stream(k),
           NEW n \in 1 .. Len(k.bytes)
    PROVE  LET r == [k EXCEPT !.bytes = SubSeq(@, n + 1, Len(@)), !.read = @ + n]
           IN  r \in Connection /\ Live(r) /\ Stream(r)
  <1> DEFINE r == [k EXCEPT !.bytes = SubSeq(@, n + 1, Len(@)), !.read = @ + n]
             L == Len(k.bytes)
  <1>1. /\ k.bytes \in Seq(Bytes) /\ L \in Nat /\ k.read \in Nat
        /\ k.sent \in Nat /\ k.cmds \subseteq Nat \X Lengths
    BY DEF Connection
  <1>2. /\ r.state = k.state /\ r.cmds = k.cmds /\ r.sent = k.sent
        /\ r.left = k.left /\ r.read = k.read + n
        /\ r.bytes = SubSeq(k.bytes, n + 1, L)
    BY DEF Connection
  <1>3. /\ r.bytes \in Seq(Bytes) /\ Len(r.bytes) = L - n
        /\ \A b \in 1 .. L - n : r.bytes[b] = k.bytes[n + b]
    <2> HIDE DEF r
    <2> QED
      BY <1>1, <1>2, Remainder
  <1>4. r \in Connection
    <2>1. SubSeq(k.bytes, n + 1, L) \in Seq(Bytes) /\ k.read + n \in Nat
      BY <1>1, Remainder
    <2> HIDE DEF L
    <2> QED
      BY <2>1, Rebuilt DEF L, States
  <1>5. Live(r)
    BY <1>2 DEF Live
  <1> HIDE DEF r
  <1>6. r.sent = r.read + Len(r.bytes)
    BY <1>1, <1>2, <1>3 DEF Live, Stream
  <1>7. ASSUME NEW b \in 1 .. Len(r.bytes), r.bytes[b].len # 0
        PROVE  <<r.read + b - MAX_REC_COMSIZE, r.bytes[b].len>> \in r.cmds
    <2>1. /\ n + b \in 1 .. L /\ k.bytes[n + b].len # 0
          /\ r.bytes[b] = k.bytes[n + b]
      BY <1>1, <1>3, <1>7
    <2>2. <<k.read + (n + b) - MAX_REC_COMSIZE, k.bytes[n + b].len>> \in k.cmds
      BY <2>1 DEF Stream
    <2>3. k.read + (n + b) - MAX_REC_COMSIZE = r.read + b - MAX_REC_COMSIZE
      BY <1>1, <1>2, <1>3, TcpAssumption
    <2> QED
      BY <1>2, <2>1, <2>2, <2>3
  <1>8. ASSUME NEW x \in r.cmds, x[1] >= r.read
        PROVE  Announces(r.bytes, x[1] - r.read + MAX_REC_COMSIZE, x[2])
    <2> DEFINE p == x[1] - r.read + MAX_REC_COMSIZE
               q == x[1] - k.read + MAX_REC_COMSIZE
    <2>1. /\ x[1] \in Nat /\ x[2] \in Lengths /\ x[2] \in Nat
          /\ x[2] >= MAX_REC_COMSIZE /\ x[1] + x[2] <= k.sent
      BY <1>2, CommandTypes DEF Stream
    <2>2. Announces(k.bytes, q, x[2])
      BY <1>1, <1>2, <1>8, <2>1 DEF Stream
    <2>3. p \in 1 .. L - n /\ p - 1 \in 1 .. L - n
      <3>1. k.sent = k.read + L /\ n \in Nat /\ L - n \in Nat
        BY <1>1 DEF Stream, Live
      <3>2. x[1] >= k.read + n /\ k.read + n \in Nat
        BY <1>1, <1>2, <1>8, <3>1
      <3>3. k.sent = (k.read + n) + (L - n)
        BY <1>1, <3>1
      <3>4. x[1] - (k.read + n) + MAX_REC_COMSIZE \in 2 .. L - n
        BY <2>1, <3>1, <3>2, <3>3, HeaderInside
      <3>5. p = x[1] - (k.read + n) + MAX_REC_COMSIZE
        BY <1>2
      <3>6. p \in 2 .. L - n
        BY <3>4, <3>5
      <3> HIDE DEF p
      <3> QED
        BY <3>1, <3>6
    <2>4. n + p = q /\ n + (p - 1) = q - 1
      BY <1>1, <1>2, <2>1, TcpAssumption
    <2> HIDE DEF p, q
    <2>5. r.bytes[p] = k.bytes[q] /\ r.bytes[p - 1] = k.bytes[q - 1]
      BY <1>3, <2>3, <2>4
    <2>6. p \in Int
      BY <2>3
    <2>7. Announces(r.bytes, p, x[2])
      BY <2>2, <2>5, <2>6 DEF Announces
    <2> QED
      BY <2>7 DEF p
  <1>9. Stream(r)
    BY <1>2, <1>5, <1>6, <1>7, <1>8 DEF Stream, Live
  <1> QED
    BY <1>4, <1>5, <1>9 DEF r

\* Sending a command keeps the stream in order.
LEMMA SendStream ==
    ASSUME NEW k \in Connection, Live(k), Stream(k), NEW m \in Messages
    PROVE  LET r == [k EXCEPT !.bytes = @ \o OnTheWire(m),
                              !.cmds = @ \cup {<<k.sent, Len(m)>>},
                              !.sent = @ + Len(m)]
           IN  r \in Connection /\ Live(r) /\ Stream(r)
  <1> DEFINE r == [k EXCEPT !.bytes = @ \o OnTheWire(m),
                            !.cmds = @ \cup {<<k.sent, Len(m)>>},
                            !.sent = @ + Len(m)]
             L == Len(k.bytes)
             l == Len(m)
  <1>1. /\ k.bytes \in Seq(Bytes) /\ L \in Nat /\ k.read \in Nat
        /\ k.sent \in Nat /\ k.cmds \subseteq Nat \X Lengths
        /\ l \in Nat /\ l >= MAX_REC_COMSIZE /\ MAX_REC_COMSIZE \in Nat \ {0}
        /\ l \in Lengths
    BY LengthFacts DEF Connection
  <1>2. /\ OnTheWire(m) \in Seq(Bytes) /\ Len(OnTheWire(m)) = l
        /\ \A b \in 1 .. l :
              /\ OnTheWire(m)[b].len = IF b = MAX_REC_COMSIZE THEN l ELSE 0
              /\ OnTheWire(m)[b].val = m[b]
    <2>1. \A b \in 1 .. l :
             Byte(m[b], IF b = MAX_REC_COMSIZE THEN l ELSE 0) \in Bytes
      BY <1>1, LengthFacts DEF Byte, Bytes
    <2>2. OnTheWire(m) \in [1 .. l -> Bytes]
      BY <2>1 DEF OnTheWire
    <2>3. OnTheWire(m) \in Seq(Bytes) /\ Len(OnTheWire(m)) = l
      BY <1>1, <2>2
    <2>4. \A b \in 1 .. l :
             OnTheWire(m)[b] = Byte(m[b], IF b = MAX_REC_COMSIZE THEN l ELSE 0)
      BY DEF OnTheWire
    <2>5. ASSUME NEW b \in 1 .. l
          PROVE  /\ OnTheWire(m)[b].len = IF b = MAX_REC_COMSIZE THEN l ELSE 0
                 /\ OnTheWire(m)[b].val = m[b]
      <3>1. OnTheWire(m)[b] = Byte(m[b], IF b = MAX_REC_COMSIZE THEN l ELSE 0)
        BY <2>4
      <3> QED
        BY <3>1 DEF Byte
    <2> QED
      BY <2>3, <2>5
  <1>3. /\ r.state = k.state /\ r.cmds = k.cmds \cup {<<k.sent, Len(m)>>}
        /\ r.sent = k.sent + l /\ r.left = k.left /\ r.read = k.read
        /\ r.bytes = k.bytes \o OnTheWire(m)
    BY DEF Connection
  <1>4. /\ r.bytes \in Seq(Bytes) /\ Len(r.bytes) = L + l
        /\ \A b \in 1 .. L + l :
              r.bytes[b] = IF b <= L THEN k.bytes[b] ELSE OnTheWire(m)[b - L]
    <2>1. /\ k.bytes \o OnTheWire(m) \in Seq(Bytes)
          /\ Len(k.bytes \o OnTheWire(m)) = L + Len(OnTheWire(m))
          /\ \A b \in 1 .. L + Len(OnTheWire(m)) :
                (k.bytes \o OnTheWire(m))[b]
                    = IF b <= L THEN k.bytes[b] ELSE OnTheWire(m)[b - L]
      <3>1. k.bytes \in Seq(Bytes) /\ OnTheWire(m) \in Seq(Bytes)
        BY <1>1, <1>2
      <3> QED
        BY <3>1, Joined
    <2> HIDE DEF r
    <2> QED
      BY <1>2, <1>3, <2>1
  <1>5. r \in Connection
    <2>1. /\ k.bytes \o OnTheWire(m) \in Seq(Bytes) /\ k.sent + l \in Nat
          /\ k.cmds \cup {<<k.sent, Len(m)>>} \in SUBSET (Nat \X Lengths)
      BY <1>1, <1>2, Joined
    <2> QED
      BY <2>1, Rebuilt DEF States
  <1>6. Live(r) /\ r.state # "gone"
    BY <1>3 DEF Live
  <1> HIDE DEF r
  <1>7. r.sent = r.read + Len(r.bytes) /\ k.sent = k.read + L
    BY <1>1, <1>3, <1>4 DEF Live, Stream
  <1>8. \A x \in k.cmds : x[1] + x[2] <= k.sent /\ x[1] \in Nat /\ x[2] \in Lengths
    BY <1>1 DEF Stream
  <1>9. \A x \in r.cmds : x[1] + x[2] <= r.sent
    <2> SUFFICES ASSUME NEW x \in r.cmds PROVE x[1] + x[2] <= r.sent
      OBVIOUS
    <2>1. CASE x \in k.cmds
      <3>1. x[1] + x[2] <= k.sent /\ x[1] \in Nat /\ x[2] \in Nat
        BY <1>8, <2>1, CommandTypes
      <3> QED
        BY <1>1, <1>3, <3>1
    <2>2. CASE x = <<k.sent, Len(m)>>
      BY <1>1, <1>3, <2>2
    <2> QED
      BY <1>3, <2>1, <2>2
  <1>10. \A x, y \in r.cmds :
            x = y \/ x[1] + x[2] <= y[1] \/ y[1] + y[2] <= x[1]
    <2> SUFFICES ASSUME NEW x \in r.cmds, NEW y \in r.cmds, x # y
                 PROVE  x[1] + x[2] <= y[1] \/ y[1] + y[2] <= x[1]
      OBVIOUS
    <2>1. CASE x \in k.cmds /\ y \in k.cmds
      BY <2>1 DEF Stream
    <2>2. CASE x \in k.cmds /\ y = <<k.sent, Len(m)>>
      BY <2>2, <1>8
    <2>3. CASE x = <<k.sent, Len(m)>> /\ y \in k.cmds
      BY <2>3, <1>8
    <2> QED
      BY <1>3, <2>1, <2>2, <2>3
  <1>11. ASSUME NEW b \in 1 .. Len(r.bytes), r.bytes[b].len # 0
         PROVE  <<r.read + b - MAX_REC_COMSIZE, r.bytes[b].len>> \in r.cmds
    <2>1. CASE b <= L
      <3>1. b \in 1 .. L /\ r.bytes[b] = k.bytes[b]
        BY <1>1, <1>4, <2>1
      <3>2. <<k.read + b - MAX_REC_COMSIZE, k.bytes[b].len>> \in k.cmds
        BY <1>11, <3>1 DEF Stream
      <3> QED
        BY <1>3, <3>1, <3>2
    <2>2. CASE b > L
      <3>1. b - L \in 1 .. l
        BY <1>1, <1>4, <2>2
      <3>2. r.bytes[b] = OnTheWire(m)[b - L]
        BY <1>1, <1>4, <2>2
      <3>3. b - L = MAX_REC_COMSIZE /\ r.bytes[b].len = l
        BY <1>2, <1>11, <3>1, <3>2
      <3>4. r.read + b - MAX_REC_COMSIZE = k.sent
        <4> HIDE DEF L
        <4>1. b \in Nat
          BY <1>1, <1>4
        <4> QED
          BY <1>1, <1>3, <1>7, <3>3, <4>1
      <3> QED
        BY <1>3, <3>3, <3>4
    <2> QED
      BY <1>1, <1>4, <2>1, <2>2
  <1>12. ASSUME NEW x \in r.cmds, x[1] >= r.read
         PROVE  Announces(r.bytes, x[1] - r.read + MAX_REC_COMSIZE, x[2])
    <2>1. CASE x \in k.cmds
      <3>1. x[1] \in Nat /\ x[2] \in Nat /\ x[2] >= MAX_REC_COMSIZE
        BY <1>8, <2>1, LengthFacts
      <3>2. Announces(k.bytes, x[1] - k.read + MAX_REC_COMSIZE, x[2])
        BY <1>3, <1>12, <2>1 DEF Stream
      <3> DEFINE p == x[1] - k.read + MAX_REC_COMSIZE
      <3>3. p \in 2 .. L
        <4>1. x[1] + x[2] <= k.sent /\ x[1] >= k.read
          BY <1>3, <1>8, <1>12, <2>1
        <4>2. x[1] + x[2] <= k.read + L
          BY <1>7, <4>1
        <4> HIDE DEF L
        <4> QED
          BY <1>1, <3>1, <4>1, <4>2, HeaderInside
      <3>4. \A b \in 1 .. L : r.bytes[b] = k.bytes[b]
        BY <1>1, <1>4
      <3>5. p - 1 \in 1 .. L /\ p \in 1 .. L
        <4> HIDE DEF p
        <4> QED
          BY <1>1, <3>3
      <3>6. r.bytes[p] = k.bytes[p] /\ r.bytes[p - 1] = k.bytes[p - 1]
        BY <3>4, <3>5
      <3>7. Announces(r.bytes, p, x[2])
        <4> HIDE DEF p
        <4> QED
          BY <3>2, <3>6 DEF Announces, p
      <3> QED
        BY <1>3, <3>7
    <2>2. CASE x = <<k.sent, Len(m)>>
      <3>1. x[1] = k.sent /\ x[2] = l
        BY <2>2
      <3>2. x[1] - r.read + MAX_REC_COMSIZE = L + MAX_REC_COMSIZE
        BY <1>1, <1>3, <1>7, <3>1
      <3> DEFINE p == L + MAX_REC_COMSIZE
      <3>3. /\ p \in 1 .. L + l /\ ~ (p <= L) /\ p - L = MAX_REC_COMSIZE
            /\ p - 1 \in 1 .. L + l /\ ~ (p - 1 <= L)
            /\ p - 1 - L = MAX_REC_COMSIZE - 1 /\ p \in Int
            /\ MAX_REC_COMSIZE \in 1 .. l /\ MAX_REC_COMSIZE - 1 \in 1 .. l
        BY <1>1, LengthFacts
      <3>4. x[1] - r.read + MAX_REC_COMSIZE = p
        BY <3>2
      <3> HIDE DEF p
      <3>5. /\ r.bytes[p] = OnTheWire(m)[MAX_REC_COMSIZE]
            /\ r.bytes[p - 1] = OnTheWire(m)[MAX_REC_COMSIZE - 1]
        <4>1. /\ r.bytes[p] = OnTheWire(m)[p - L]
              /\ r.bytes[p - 1] = OnTheWire(m)[p - 1 - L]
          <5> HIDE DEF L, l
          <5> QED
            BY <1>4, <3>3
        <4> QED
          BY <3>3, <4>1
      <3>6. /\ OnTheWire(m)[MAX_REC_COMSIZE].len = l
            /\ OnTheWire(m)[MAX_REC_COMSIZE].val = m[MAX_REC_COMSIZE]
            /\ OnTheWire(m)[MAX_REC_COMSIZE - 1].val = m[MAX_REC_COMSIZE - 1]
        BY <1>2, <3>3
      <3>7. m[MAX_REC_COMSIZE - 1] + Radix * m[MAX_REC_COMSIZE] = l
        BY TcpAssumption
      <3>8. Halves(OnTheWire(m)[MAX_REC_COMSIZE - 1],
                   OnTheWire(m)[MAX_REC_COMSIZE], l)
        BY <3>6, <3>7 DEF Halves
      <3>9. Announces(r.bytes, p, l)
        BY <3>3, <3>5, <3>8 DEF Announces
      <3> QED
        BY <3>1, <3>4, <3>9
    <2> QED
      BY <1>3, <2>1, <2>2
  <1>13. Stream(r)
    BY <1>6, <1>7, <1>9, <1>10, <1>11, <1>12 DEF Stream
  <1> QED
    BY <1>5, <1>6, <1>13 DEF r

\* Closing a connection keeps its record in order.
LEMMA CloseStream ==
    ASSUME NEW k \in Connection, Live(k), Stream(k)
    PROVE  /\ Closed(k) \in Connection /\ Stream(Closed(k))
           /\ Closed(k).cmds = k.cmds /\ Closed(k).read = k.read
  <1> DEFINE r == Closed(k)
  <1>1. /\ r.state = (IF k.left /\ k.bytes = <<>> THEN "gone" ELSE "lost")
        /\ r.bytes = <<>> /\ r.cmds = k.cmds /\ r.sent = k.sent
        /\ r.read = k.read /\ r.left = k.left
    BY DEF Closed, Connection
  <1>2. r \in Connection
    <2>1. <<>> \in Seq(Bytes)
      OBVIOUS
    <2>2. (IF k.left /\ k.bytes = <<>> THEN "gone" ELSE "lost") \in States
      BY DEF States
    <2> QED
      BY <2>1, <2>2, Rebuilt DEF Closed
  <1>3. ~Live(r)
    BY <1>1 DEF Live
  <1>4. r.state = "gone" => r.read = r.sent
    <2> SUFFICES ASSUME r.state = "gone" PROVE r.read = r.sent
      OBVIOUS
    <2>1. k.bytes = <<>>
      BY <1>1
    <2>2. k.sent = k.read + Len(k.bytes) /\ Len(k.bytes) = 0 /\ k.read \in Nat
      BY <2>1 DEF Stream, Connection
    <2> QED
      BY <1>1, <2>2
  <1> QED
    BY <1>1, <1>2, <1>3, <1>4 DEF Stream
-----------------------------------------------------------------------------
\* Connection k without its first n bytes.
Without(k, n) == [k EXCEPT !.bytes = SubSeq(@, n + 1, Len(@)), !.read = @ + n]

\* What is noted of a command that is taken from client c.
Record(c, n, rd) ==
    [client |-> c, from |-> conn[c].read, len |-> n,
     announced |-> ETH_ReceiveLength(rd) = rd[MAX_REC_COMSIZE].len]

\* A step of Recv that receives n bytes of client c, as the proofs use it: the
\* command is taken when its length stands where the header ends.
Receives(c, n) ==
    /\ n \in 1 .. Len(conn[c].bytes) /\ n <= RECV_DATA
    /\ conn[c].state = "open"
    /\ conn' = [conn EXCEPT ![c] = Without(conn[c], n)]
    /\ recv_data' = [b \in Header |->
                       IF b <= n THEN conn[c].bytes[b] ELSE recv_data[b]]
    /\ IF n = ETH_ReceiveLength(recv_data')
       THEN taken' = taken \cup {Record(c, n, recv_data')}
       ELSE taken' = taken
    /\ cut \/ \E x \in conn[c].cmds :
                 /\ x[1] <= conn[c].read /\ conn[c].read < x[1] + x[2]
                 /\ n = IF x[1] + x[2] - conn[c].read <= RECV_DATA
                        THEN x[1] + x[2] - conn[c].read ELSE RECV_DATA

\* What a step of Recv does: the open connection that the task serves gives
\* up some bytes.
LEMMA RecvStep ==
    ASSUME ServerTypes, Places, Streams, Recv
    PROVE  \E c \in Clients, n \in Nat : c = table[connected] /\ Receives(c, n)
  <1> DEFINE c == table[connected]
  <1>1. c \in Clients /\ conn[c].state = "open"
    BY DEF Recv, Places
  <1>2. conn[c] \in Connection /\ Stream(conn[c]) /\ Live(conn[c])
    BY <1>1 DEF ServerTypes, Streams, Live
  <1>3. PICK m \in RecvLengths(c) :
           LET n == IF m <= RECV_DATA THEN m ELSE RECV_DATA
               new == [b \in Header |->
                         IF b <= n THEN conn[c].bytes[b] ELSE recv_data[b]]
               cmd == Record(c, n, new)
           IN  /\ recv_data' = new
               /\ conn' = [conn EXCEPT ![c] = Without(conn[c], n)]
               /\ IF n = ETH_ReceiveLength(new)
                  THEN data' = cmd /\ taken' = taken \cup {cmd}
                  ELSE UNCHANGED <<data, taken>>
    BY DEF Recv, Accepts, Without, Record
  <1> DEFINE n == IF m <= RECV_DATA THEN m ELSE RECV_DATA
  <1>4. /\ m \in 1 .. Len(conn[c].bytes)
        /\ cut \/ \E x \in conn[c].cmds :
                     /\ x[1] <= conn[c].read /\ conn[c].read < x[1] + x[2]
                     /\ m = x[1] + x[2] - conn[c].read
    <2>1. CASE cut
      BY <1>3, <2>1 DEF RecvLengths
    <2>2. CASE ~cut
      <3>1. PICK x \in conn[c].cmds : /\ conn[c].read \in x[1] .. x[1] + x[2] - 1
                                      /\ m = x[1] + x[2] - conn[c].read
        BY <1>3, <2>2 DEF RecvLengths
      <3>2. x[1] \in Nat /\ x[2] \in Nat
        BY <1>2, CommandTypes
      <3>3. x[1] + x[2] <= conn[c].sent /\ conn[c].read \in Nat
            /\ conn[c].sent \in Nat /\ Len(conn[c].bytes) \in Nat
            /\ conn[c].sent = conn[c].read + Len(conn[c].bytes)
        BY <1>2 DEF Stream, Connection
      <3>4. x[1] <= conn[c].read /\ conn[c].read < x[1] + x[2]
        BY <3>1, <3>2, <3>3
      <3>5. m \in 1 .. Len(conn[c].bytes)
        <4>1. m \in Int /\ 1 <= m
          BY <3>1, <3>2, <3>3, <3>4
        <4>2. m <= Len(conn[c].bytes)
          <5>1. \A p, q, s, t, L \in Nat :
                   p + q <= s /\ s = t + L => p + q - t <= L
            OBVIOUS
          <5> QED
            BY <3>1, <3>2, <3>3, <5>1
        <4> QED
          BY <3>3, <4>1, <4>2
      <3> QED
        BY <3>1, <3>4, <3>5
    <2> QED
      BY <2>1, <2>2
  <1>5. n \in 1 .. Len(conn[c].bytes) /\ n <= RECV_DATA /\ n \in Nat
    <2>1. Len(conn[c].bytes) \in Nat
      BY <1>2 DEF Connection
    <2> QED
      BY <1>4, <2>1, TcpAssumption
  <1>6. /\ conn' = [conn EXCEPT ![c] = Without(conn[c], n)]
        /\ recv_data' = [b \in Header |->
                           IF b <= n THEN conn[c].bytes[b] ELSE recv_data[b]]
    BY <1>3
  <1>7. IF n = ETH_ReceiveLength(recv_data')
        THEN taken' = taken \cup {Record(c, n, recv_data')}
        ELSE taken' = taken
    BY <1>3
  <1>8. cut \/ \E x \in conn[c].cmds :
                  /\ x[1] <= conn[c].read /\ conn[c].read < x[1] + x[2]
                  /\ n = IF x[1] + x[2] - conn[c].read <= RECV_DATA
                         THEN x[1] + x[2] - conn[c].read ELSE RECV_DATA
    BY <1>4
  <1> HIDE DEF c, n
  <1> QED
    BY <1>1, <1>5, <1>6, <1>7, <1>8 DEF c, Receives

\* A step that changes connection c to r, and no other.
LEMMA Updated ==
    ASSUME conn \in [Clients -> Connection], Streams, NEW c \in Clients,
           NEW r \in Connection, Stream(r), conn' = [conn EXCEPT ![c] = r]
    PROVE  conn' \in [Clients -> Connection] /\ Streams'
  <1>1. conn' \in [Clients -> Connection]
    OBVIOUS
  <1>2. \A e \in Clients : conn'[e] = IF e = c THEN r ELSE conn[e]
    OBVIOUS
  <1>3. \A e \in Clients : Stream(conn'[e])
    BY <1>2 DEF Streams
  <1> QED
    BY <1>1, <1>3 DEF Streams

\* A connection that is accepted, dropped or left by its client.
LEMMA StateStream ==
    ASSUME NEW k \in Connection, Live(k), Stream(k),
           NEW s \in {"backlog", "open", "lost"}
    PROVE  /\ LET r == [k EXCEPT !.state = s]
              IN  /\ r \in Connection /\ Stream(r)
                  /\ r.cmds = k.cmds /\ r.read = k.read
           /\ LET r == [k EXCEPT !.left = TRUE]
              IN  /\ r \in Connection /\ Stream(r)
                  /\ r.cmds = k.cmds /\ r.read = k.read
  <1>1. ASSUME NEW r \in Connection, r.state \in {s, k.state},
               r.bytes = k.bytes, r.cmds = k.cmds, r.sent = k.sent, r.read = k.read
        PROVE  Stream(r)
    <2>1. r.state # "gone"
      BY <1>1 DEF Live
    <2> QED
      BY <1>1, <2>1 DEF Stream
  <1>2. s \in States
    BY DEF States
  <1> DEFINE a == [k EXCEPT !.state = s]
             b == [k EXCEPT !.left = TRUE]
  <1>3. /\ a \in Connection /\ a.state = s /\ a.bytes = k.bytes /\ a.cmds = k.cmds
        /\ a.sent = k.sent /\ a.read = k.read
    BY <1>2 DEF Connection
  <1>4. /\ b \in Connection /\ b.state = k.state /\ b.bytes = k.bytes
        /\ b.cmds = k.cmds /\ b.sent = k.sent /\ b.read = k.read
    BY DEF Connection
  <1> HIDE DEF a, b
  <1>5. Stream(a) /\ Stream(b)
    BY <1>1, <1>3, <1>4
  <1> QED
    BY <1>3, <1>4, <1>5 DEF a, b

\* What a step does to the connections: only Recv moves a position, only
\* ClientSend adds a command, and every stream stays in order.
LEMMA ConnStep ==
    ASSUME ServerTypes, Places, Streams, [Next]_vars
    PROVE  /\ conn' \in [Clients -> Connection] /\ Streams'
           /\ \/ Recv
              \/ \E c \in Clients, m \in Messages : ClientSend(c, m)
              \/ /\ taken' = taken
                 /\ \A c \in Clients : /\ conn'[c].cmds = conn[c].cmds
                                       /\ conn'[c].read = conn[c].read
  <1> DEFINE Same(c) == conn'[c].cmds = conn[c].cmds /\ conn'[c].read = conn[c].read
  <1>0. /\ conn \in [Clients -> Connection]
        /\ \A c \in Clients : conn[c] \in Connection /\ Stream(conn[c])
    BY DEF ServerTypes, Streams
  <1>1. ASSUME NEW c \in Clients, NEW r \in Connection, Stream(r),
               conn' = [conn EXCEPT ![c] = r], r.cmds = conn[c].cmds,
               r.read = conn[c].read
        PROVE  /\ conn' \in [Clients -> Connection] /\ Streams'
               /\ \A e \in Clients : Same(e)
    <2>1. \A e \in Clients : conn'[e] = IF e = c THEN r ELSE conn[e]
      BY <1>0, <1>1
    <2> QED
      BY <1>0, <1>1, <2>1, Updated
  <1>2. CASE UNCHANGED conn /\ UNCHANGED taken
    BY <1>0, <1>2 DEF Streams
  <1>3. CASE Accept
    <2> DEFINE c == Lowest(Backlog)
    <2>1. c \in Clients /\ conn[c].state = "backlog" /\ Live(conn[c])
      BY <1>3, OldestConnection DEF Accept, Live
    <2>2. conn' = [conn EXCEPT ![c] = [conn[c] EXCEPT !.state = "open"]]
      BY <1>3 DEF Accept
    <2>3. taken' = taken
      BY <1>3 DEF Accept, history
    <2> HIDE DEF c
    <2> QED
      BY <1>0, <1>1, <2>1, <2>2, <2>3, StateStream
  <1>4. CASE AcceptFails
    <2>1. taken' = taken
      BY <1>4 DEF AcceptFails, history
    <2>2. CASE conn' = conn
      BY <1>2, <2>1, <2>2
    <2>3. CASE Backlog # {} /\ conn' = [conn EXCEPT ![Lowest(Backlog)].state = "lost"]
      <3> DEFINE c == Lowest(Backlog)
      <3>1. c \in Clients /\ conn[c].state = "backlog" /\ Live(conn[c])
        BY <2>3, OldestConnection DEF Live
      <3>2. conn' = [conn EXCEPT ![c] = [conn[c] EXCEPT !.state = "lost"]]
        BY <2>3
      <3> HIDE DEF c
      <3> QED
        BY <1>0, <1>1, <2>1, <3>1, <3>2, StateStream
    <2> QED
      BY <1>4, <2>2, <2>3 DEF AcceptFails
  <1>5. CASE Recv
    <2>1. PICK c \in Clients, n \in Nat : Receives(c, n)
      BY <1>5, RecvStep
    <2>2. Live(conn[c]) /\ n \in 1 .. Len(conn[c].bytes)
      BY <2>1 DEF Live, Receives
    <2> DEFINE r == Without(conn[c], n)
    <2>3. r \in Connection /\ Stream(r)
      BY <1>0, <2>2, ReceiveStream DEF Without
    <2>4. conn' = [conn EXCEPT ![c] = r]
      BY <2>1 DEF Receives
    <2> HIDE DEF r
    <2> QED
      BY <1>0, <1>5, <2>3, <2>4, Updated
  <1>6. CASE CloseConnection
    <2>1. taken' = taken
      BY <1>6 DEF CloseConnection, history
    <2>2. CASE connected = NoSocket
      BY <1>2, <1>6, <2>1, <2>2 DEF CloseConnection
    <2>3. CASE connected # NoSocket
      <3> DEFINE c == table[connected]
      <3>1. c \in Clients /\ Live(conn[c])
        BY <2>3 DEF Places, Live
      <3>2. conn' = [conn EXCEPT ![c] = Closed(conn[c])]
        BY <1>6, <2>3 DEF CloseConnection
      <3> HIDE DEF c
      <3> QED
        BY <1>0, <1>1, <2>1, <3>1, <3>2, CloseStream
    <2> QED
      BY <2>2, <2>3
  <1>7. ASSUME NEW c \in Clients, ClientConnect(c) \/ ClientLeave(c)
        PROVE  /\ conn' \in [Clients -> Connection] /\ Streams' /\ taken' = taken
               /\ \A e \in Clients : Same(e)
    <2>1. Live(conn[c]) /\ taken' = taken
      BY <1>7 DEF ClientConnect, ClientLeave, Live, history
    <2>2. \/ conn' = [conn EXCEPT ![c] = [conn[c] EXCEPT !.state = "backlog"]]
          \/ conn' = [conn EXCEPT ![c] = [conn[c] EXCEPT !.left = TRUE]]
      BY <1>7 DEF ClientConnect, ClientLeave
    <2> QED
      BY <1>0, <1>1, <2>1, <2>2, StateStream
  <1>8. ASSUME NEW c \in Clients, NEW m \in Messages, ClientSend(c, m)
        PROVE  conn' \in [Clients -> Connection] /\ Streams'
    <2>1. Live(conn[c])
      BY <1>8 DEF ClientSend, Live
    <2> DEFINE r == [conn[c] EXCEPT !.bytes = @ \o OnTheWire(m),
                                    !.cmds = @ \cup {<<conn[c].sent, Len(m)>>},
                                    !.sent = @ + Len(m)]
    <2>2. conn' = [conn EXCEPT ![c] = r]
      BY <1>8 DEF ClientSend
    <2>3. r \in Connection /\ Stream(r)
      BY <1>0, <2>1, SendStream
    <2> HIDE DEF r
    <2> QED
      BY <1>0, <2>2, <2>3, Updated
  <1>9. CASE Malloc \/ Socket \/ SetSockOpt \/ Bind \/ Listen \/ RecvEnds \/ Exit
             \/ UNCHANGED vars
    BY <1>2, <1>9 DEF Malloc, Socket, SetSockOpt, Bind, Listen, RecvEnds, Exit,
       vars, history
  <1> QED
    BY <1>3, <1>4, <1>5, <1>6, <1>7, <1>8, <1>9 DEF Next, Server
-----------------------------------------------------------------------------
\* The types of the task's variables.
LEMMA TypesStep ==
    ASSUME ServerTypes, Places, Streams, [Next]_vars
    PROVE  ServerTypes'
  <1>1. conn' \in [Clients -> Connection]
    BY ConnStep
  <1> USE TcpAssumption DEF ServerTypes, TypeOK
  <1>2. CASE Malloc
    BY <1>1, <1>2 DEF Malloc, Fail, Goto, history
  <1>3. CASE Socket
    <2>1. CASE sock' = NoSocket /\ UNCHANGED table
      BY <1>1, <1>3, <2>1 DEF Socket, Fail, Goto, history
    <2>2. CASE /\ FreeSlots # {} /\ sock' = Lowest(FreeSlots)
               /\ table' = [table EXCEPT ![sock'] = New] /\ Goto("setsockopt")
               /\ UNCHANGED fails
      <3>1. sock' \in Descriptors
        BY <2>2, FreeDescriptor
      <3> QED
        BY <1>1, <1>3, <2>2, <3>1 DEF Socket, Goto, history
    <2> QED
      BY <1>3, <2>1, <2>2 DEF Socket
  <1>4. CASE SetSockOpt
    BY <1>1, <1>4 DEF SetSockOpt, Fail, Goto, history
  <1>5. CASE Bind
    BY <1>1, <1>5 DEF Bind, Fail, Goto, history
  <1>6. CASE Listen
    BY <1>1, <1>6 DEF Listen, Fail, Goto, history
  <1>7. CASE Accept
    <2>1. Lowest(FreeSlots) \in Descriptors /\ Lowest(Backlog) \in Clients
      BY <1>7, FreeDescriptor, OldestConnection DEF Accept
    <2> QED
      BY <1>1, <1>7, <2>1 DEF Accept, Goto, history
  <1>8. CASE AcceptFails
    BY <1>1, <1>8 DEF AcceptFails, Fail, Goto, history
  <1>9. CASE Recv
    <2>1. PICK c \in Clients, n \in Nat : Receives(c, n)
      BY <1>9, RecvStep, Zenon
    <2>2. n \in 1 .. Len(conn[c].bytes)
      BY <2>1 DEF Receives
    <2>3. conn[c].bytes \in Seq(Bytes) /\ conn[c].read \in Nat
      BY DEF Connection
    <2>4. recv_data' \in [Header -> Bytes]
      BY <2>1, <2>2, <2>3 DEF Receives
    <2>5. taken' \in SUBSET CommandRecord
      <3>1. Record(c, n, recv_data') \in CommandRecord
        <4>1. (ETH_ReceiveLength(recv_data') = recv_data'[MAX_REC_COMSIZE].len)
                \in BOOLEAN
          OBVIOUS
        <4> QED
          BY <2>3, <4>1 DEF CommandRecord, Record
      <3> QED
        BY <2>1, <3>1 DEF Receives
    <2> QED
      BY <1>1, <1>9, <2>4, <2>5 DEF Recv, history
  <1>10. CASE RecvEnds
    BY <1>1, <1>10 DEF RecvEnds, Fail, Goto, history
  <1>11. CASE CloseConnection
    BY <1>1, <1>11 DEF CloseConnection, Goto, history
  <1>12. CASE Exit
    BY <1>1, <1>12 DEF Exit, GivesUp, Fail, Goto, history
  <1>13. CASE \E c \in Clients : \/ ClientConnect(c) \/ ClientLeave(c)
                                \/ \E m \in Messages : ClientSend(c, m)
    <2>1. UNCHANGED <<cut, socket_descr, table, taskVars, recv_data, data, fails,
                      history>>
      BY <1>13 DEF ClientConnect, ClientLeave, ClientSend
    <2> QED
      BY <1>1, <2>1 DEF taskVars, history
  <1>14. CASE UNCHANGED vars
    BY <1>14 DEF vars, taskVars, history
  <1> QED
    BY <1>2, <1>3, <1>4, <1>5, <1>6, <1>7, <1>8, <1>9, <1>10, <1>11, <1>12,
       <1>13, <1>14 DEF Next, Server

\* Which descriptors the task holds.
LEMMA PlacesStep ==
    ASSUME ServerTypes, Places, Streams, [Next]_vars
    PROVE  Places'
  <1>1. /\ table \in [Descriptors -> {Free, New, Listening} \cup Clients]
        /\ conn \in [Clients -> Connection]
        /\ sock \in Descriptors \cup {NoSocket}
        /\ connected \in Descriptors \cup {NoSocket}
        /\ NoSocket \notin Descriptors
        /\ Free # New /\ Free # Listening /\ New # Listening
        /\ Free \notin Clients /\ New \notin Clients /\ Listening \notin Clients
    BY TcpAssumption DEF ServerTypes, TypeOK, Descriptors, NoSocket, Free, New,
       Listening
  <1>2. CASE Malloc \/ SetSockOpt \/ Bind
    BY <1>2 DEF Places, Malloc, SetSockOpt, Bind, Goto, history
  <1>3. CASE Socket
    <2>1. CASE /\ FreeSlots # {} /\ sock' = Lowest(FreeSlots)
               /\ table' = [table EXCEPT ![sock'] = New] /\ Goto("setsockopt")
      <3>1. sock' \in Descriptors /\ table[sock'] = Free
        BY <2>1, FreeDescriptor
      <3>2. \A d \in Descriptors : table'[d] = IF d = sock' THEN New ELSE table[d]
        BY <1>1, <2>1
      <3> QED
        BY <1>1, <1>3, <2>1, <3>1, <3>2 DEF Places, Socket, Goto, history
    <2>2. CASE sock' = NoSocket /\ Goto("exit") /\ UNCHANGED table
      BY <1>1, <1>3, <2>2 DEF Places, Socket, Goto, history
    <2> QED
      BY <1>3, <2>1, <2>2 DEF Socket
  <1>4. CASE Listen
    <2>1. CASE table' = [table EXCEPT ![sock] = Listening] /\ Goto("accept")
      <3>1. sock \in Descriptors
        BY <1>1, <1>4 DEF Places, Listen
      <3>2. \A d \in Descriptors : table'[d] = IF d = sock THEN Listening ELSE table[d]
        BY <1>1, <2>1
      <3> QED
        BY <1>1, <1>4, <2>1, <3>1, <3>2 DEF Places, Listen, Goto, history
    <2>2. CASE Goto("exit") /\ UNCHANGED table
      BY <1>1, <1>4, <2>2 DEF Places, Listen, Goto, history
    <2> QED
      BY <1>4, <2>1, <2>2 DEF Listen
  <1>5. CASE Accept
    <2> DEFINE c == Lowest(Backlog)
               d == Lowest(FreeSlots)
    <2>1. /\ c \in Clients /\ d \in Descriptors /\ table[d] = Free
      BY <1>5, FreeDescriptor, OldestConnection DEF Accept
    <2>2. /\ table' = [table EXCEPT ![d] = c] /\ connected' = d
          /\ socket_descr' = d /\ conn' = [conn EXCEPT ![c].state = "open"]
      BY <1>5 DEF Accept
    <2> HIDE DEF c, d
    <2>3. \A e \in Descriptors : table'[e] = IF e = d THEN c ELSE table[e]
      BY <1>1, <2>2
    <2>4. conn'[c].state = "open"
      BY <1>1, <2>1, <2>2 DEF Connection
    <2>5. \A e \in Descriptors : table[e] \notin Clients
      BY <1>1, <1>5 DEF Places, Accept
    <2> QED
      BY <1>1, <1>5, <2>1, <2>2, <2>3, <2>4, <2>5
         DEF Places, Accept, Goto, history
  <1>6. CASE AcceptFails
    BY <1>1, <1>6 DEF Places, AcceptFails, Goto, history
  <1>7. CASE Recv
    <2>1. PICK c \in Clients, n \in Nat : c = table[connected] /\ Receives(c, n)
      BY <1>7, RecvStep
    <2>2. conn'[c].state = "open"
      BY <1>1, <2>1 DEF Connection, Receives, Without
    <2> QED
      BY <1>1, <1>7, <2>1, <2>2 DEF Places, Recv
  <1>8. CASE RecvEnds
    BY <1>1, <1>8 DEF Places, RecvEnds, Goto, history
  <1>9. CASE CloseConnection
    <2>1. CASE connected = NoSocket
      BY <1>1, <1>9, <2>1 DEF Places, CloseConnection, Goto, history
    <2>2. CASE connected # NoSocket
      <3>1. \A e \in Descriptors :
               table'[e] = IF e = connected THEN Free ELSE table[e]
        BY <1>1, <1>9, <2>2 DEF CloseConnection
      <3>2. sock \in Descriptors /\ sock # connected
        BY <1>1, <1>9, <2>2 DEF Places, CloseConnection
      <3> QED
        BY <1>1, <1>9, <2>2, <3>1, <3>2 DEF Places, CloseConnection, Goto, history
    <2> QED
      BY <2>1, <2>2
  <1>10. CASE Exit
    <2>1. CASE sock = NoSocket /\ Goto("socket") /\ UNCHANGED <<table, ii>>
      BY <1>1, <1>10, <2>1 DEF Places, Exit, Goto, history
    <2>2. CASE /\ sock # NoSocket /\ table' = [table EXCEPT ![sock] = Free]
               /\ Goto("socket") /\ ii' = 0
      <3>1. \A e \in Descriptors : table'[e] = IF e = sock THEN Free ELSE table[e]
        BY <1>1, <2>2
      <3> QED
        BY <1>1, <1>10, <2>2, <3>1 DEF Places, Exit, Goto, history
    <2>3. CASE /\ sock # NoSocket /\ UNCHANGED table
               /\ (Goto("socket") /\ ii' = 0) \/ UNCHANGED pc
      BY <1>1, <1>10, <2>3 DEF Places, Exit, Goto, history
    <2> QED
      BY <1>10, <2>1, <2>2, <2>3 DEF Exit
  <1>11. ASSUME NEW c \in Clients,
                \/ ClientConnect(c) \/ ClientLeave(c)
                \/ \E m \in Messages : ClientSend(c, m)
         PROVE  Places'
    <2>1. UNCHANGED <<table, taskVars, socket_descr>>
      BY <1>11 DEF ClientConnect, ClientLeave, ClientSend
    <2>2. \A e \in Clients : conn[e].state = "open" => conn'[e].state = "open"
      <3>1. ASSUME NEW e \in Clients, e # c PROVE conn'[e] = conn[e]
        BY <1>1, <1>11, <3>1 DEF ClientConnect, ClientLeave, ClientSend
      <3>2. conn[c].state = "open" => conn'[c].state = "open"
        <4>1. CASE ClientConnect(c) \/ ClientLeave(c)
          BY <1>1, <4>1 DEF ClientConnect, ClientLeave, Connection
        <4>2. ASSUME NEW m \in Messages, ClientSend(c, m)
              PROVE  conn'[c].state = conn[c].state
          BY <1>1, <4>2 DEF ClientSend, Connection
        <4> QED
          BY <1>11, <4>1, <4>2
      <3> QED
        BY <3>1, <3>2
    <2> QED
      BY <1>1, <2>1, <2>2 DEF Places, taskVars
  <1>12. CASE UNCHANGED vars
    BY <1>12 DEF Places, vars, taskVars
  <1> QED
    BY <1>2, <1>3, <1>4, <1>5, <1>6, <1>7, <1>8, <1>9, <1>10, <1>11, <1>12
       DEF Next, Server

\* Each leaked descriptor is paid for.
LEMMA AccountStep ==
    ASSUME ServerTypes, Places, Account, [Next]_vars
    PROVE  Account'
  <1>1. /\ table \in [Descriptors -> {Free, New, Listening} \cup Clients]
        /\ sock \in Descriptors \cup {NoSocket}
        /\ connected \in Descriptors \cup {NoSocket}
        /\ NoSocket \notin Descriptors /\ closes \in Nat /\ ii \in 0 .. CloseLimit
        /\ Free # New /\ Free # Listening /\ Free \notin Clients
        /\ CloseLimit \in Nat
    BY TcpAssumption DEF ServerTypes, TypeOK, Descriptors, NoSocket, Free, New,
       Listening
  <1>2. /\ IsFiniteSet(Leaked) /\ Cardinality(Leaked) \in Nat
        /\ Leaked \subseteq Descriptors
    <2>1. IsFiniteSet(Descriptors)
      BY FS_Interval, TcpAssumption DEF Descriptors
    <2>2. Leaked \subseteq Descriptors
      BY DEF Leaked
    <2> QED
      BY <2>1, <2>2, FS_Subset, FS_CardinalityType
  <1>3. \A n \in Nat : n * (CloseLimit + 1) \in Nat
    BY <1>1
  <1> DEFINE cost == Cardinality(Leaked) * (CloseLimit + 1)
  <1>4. cost \in Nat /\ cost + Pending <= closes
    BY <1>2, <1>3 DEF Account
  <1>5. ASSUME Leaked' = Leaked, cost + Pending' <= closes'
        PROVE  Account'
    BY <1>5 DEF Account
  <1> HIDE DEF cost
  <1>6. CASE /\ UNCHANGED <<table, sock, connected, ii, closes>>
             /\ pc \notin {"socket", "exit"} /\ pc' # "exit"
             /\ pc' = "socket" => pc = "malloc" /\ sock = NoSocket
    BY <1>1, <1>4, <1>5, <1>6 DEF Leaked, Pending
  <1>7. CASE Socket
    <2>1. connected = NoSocket /\ connected' = NoSocket /\ closes' = closes /\ ii' = 0
      BY <1>7 DEF Socket, Places, history
    <2>2. CASE /\ FreeSlots # {} /\ sock' = Lowest(FreeSlots)
               /\ table' = [table EXCEPT ![sock'] = New] /\ Goto("setsockopt")
      <3>1. sock' \in Descriptors /\ table[sock'] = Free
        BY <2>2, FreeDescriptor
      <3>2. \A d \in Descriptors : table'[d] = IF d = sock' THEN New ELSE table[d]
        BY <1>1, <2>2
      <3>3. Pending' = 0
        BY <2>2 DEF Pending, Goto
      <3>4. CASE sock # NoSocket /\ table[sock] # Free
        <4>1. Leaked' = Leaked \cup {sock} /\ sock \notin Leaked
          BY <1>1, <2>1, <3>1, <3>2, <3>4 DEF Leaked
        <4>2. Cardinality(Leaked') = Cardinality(Leaked) + 1
          BY <1>2, <4>1, FS_AddElement
        <4>3. Pending = CloseLimit + 1
          BY <1>7, <3>4 DEF Pending, Socket
        <4>4. (Cardinality(Leaked) + 1) * (CloseLimit + 1) = cost + (CloseLimit + 1)
          BY <1>1, <1>2 DEF cost
        <4>5. Cardinality(Leaked') * (CloseLimit + 1) + Pending' <= closes'
          BY <1>1, <1>4, <2>1, <3>3, <4>2, <4>3, <4>4
        <4> QED
          BY <4>5 DEF Account
      <3>5. CASE sock = NoSocket \/ table[sock] = Free
        <4>1. Leaked' = Leaked
          BY <1>1, <2>1, <3>1, <3>2, <3>5 DEF Leaked
        <4>2. Pending = 0
          BY <1>7, <3>5 DEF Pending, Socket
        <4> QED
          BY <1>4, <1>5, <2>1, <3>3, <4>1, <4>2
      <3> QED
        BY <3>4, <3>5
    <2>3. CASE sock' = NoSocket /\ Goto("exit") /\ UNCHANGED table
      <3>1. Pending' = 0
        BY <2>1, <2>3 DEF Pending, Goto
      <3>2. CASE sock # NoSocket /\ table[sock] # Free
        <4>1. Leaked' = Leaked \cup {sock} /\ sock \notin Leaked
          BY <1>1, <2>1, <2>3, <3>2 DEF Leaked
        <4>2. Cardinality(Leaked') = Cardinality(Leaked) + 1
          BY <1>2, <4>1, FS_AddElement
        <4>3. Pending = CloseLimit + 1
          BY <1>7, <3>2 DEF Pending, Socket
        <4>4. (Cardinality(Leaked) + 1) * (CloseLimit + 1) = cost + (CloseLimit + 1)
          BY <1>1, <1>2 DEF cost
        <4>5. Cardinality(Leaked') * (CloseLimit + 1) + Pending' <= closes'
          BY <1>1, <1>4, <2>1, <3>1, <4>2, <4>3, <4>4
        <4> QED
          BY <4>5 DEF Account
      <3>3. CASE sock = NoSocket \/ table[sock] = Free
        <4>1. Leaked' = Leaked
          BY <1>1, <2>1, <2>3, <3>3 DEF Leaked
        <4>2. Pending = 0
          BY <1>7, <3>3 DEF Pending, Socket
        <4> QED
          BY <1>4, <1>5, <2>1, <3>1, <4>1, <4>2
      <3> QED
        BY <3>2, <3>3
    <2> QED
      BY <1>7, <2>2, <2>3 DEF Socket
  <1>8. CASE Listen
    <2>1. CASE table' = [table EXCEPT ![sock] = Listening] /\ Goto("accept")
      <3>1. \A d \in Descriptors : table'[d] = IF d = sock THEN Listening ELSE table[d]
        BY <1>1, <2>1
      <3>2. Leaked' = Leaked
        BY <1>1, <1>8, <3>1 DEF Leaked, Listen
      <3>3. Pending' = 0 /\ Pending = 0 /\ closes' = closes
        BY <1>8, <2>1 DEF Pending, Listen, Goto, history
      <3> QED
        BY <1>4, <1>5, <3>2, <3>3
    <2>2. CASE Goto("exit") /\ UNCHANGED table
      <3>1. Leaked' = Leaked /\ closes' = closes
        BY <1>8, <2>2 DEF Leaked, Listen, history
      <3>2. Pending' = 0 /\ Pending = 0
        BY <1>8, <2>2 DEF Pending, Listen, Places, Goto
      <3> QED
        BY <1>4, <1>5, <3>1, <3>2
    <2> QED
      BY <1>8, <2>1, <2>2 DEF Listen
  <1>9. CASE Accept
    <2> DEFINE d == Lowest(FreeSlots)
               c == Lowest(Backlog)
    <2>1. d \in Descriptors /\ table[d] = Free
      BY <1>9, FreeDescriptor DEF Accept
    <2>2. /\ table' = [table EXCEPT ![d] = c] /\ connected' = d
          /\ connected = NoSocket /\ sock' = sock
      BY <1>9 DEF Accept, Places
    <2> HIDE DEF d, c
    <2>3. \A e \in Descriptors : table'[e] = IF e = d THEN c ELSE table[e]
      BY <1>1, <2>2
    <2>4. Leaked' = Leaked
      BY <1>1, <2>1, <2>2, <2>3 DEF Leaked
    <2>5. Pending = 0 /\ Pending' = 0 /\ closes' = closes
      BY <1>9 DEF Pending, Accept, Goto, history
    <2> QED
      BY <1>4, <1>5, <2>4, <2>5
  <1>10. CASE CloseConnection
    <2>1. Leaked' = Leaked
      <3>1. CASE connected = NoSocket
        BY <1>10, <3>1 DEF Leaked, CloseConnection
      <3>2. CASE connected # NoSocket
        <4>1. \A e \in Descriptors :
                 table'[e] = IF e = connected THEN Free ELSE table[e]
          BY <1>1, <1>10, <3>2 DEF CloseConnection
        <4> QED
          BY <1>1, <1>10, <4>1 DEF Leaked, CloseConnection
      <3> QED
        BY <3>1, <3>2
    <2>2. Pending = 0 /\ Pending' = 0 /\ closes' = closes
      BY <1>10 DEF Pending, CloseConnection, Goto, history
    <2> QED
      BY <1>4, <1>5, <2>1, <2>2
  <1>11. CASE Exit
    <2>1. sock' = sock /\ connected' = connected /\ Pending = ii
      BY <1>11 DEF Exit, Pending
    <2>2. CASE sock = NoSocket /\ Goto("socket") /\ UNCHANGED <<table, closes>>
      <3>1. Leaked' = Leaked /\ Pending' = 0
        BY <2>1, <2>2 DEF Leaked, Pending, Goto
      <3> QED
        BY <1>1, <1>4, <1>5, <2>1, <2>2, <3>1
    <2>3. CASE /\ sock # NoSocket /\ table' = [table EXCEPT ![sock] = Free]
               /\ Goto("socket") /\ closes' = closes
      <3>1. \A e \in Descriptors : table'[e] = IF e = sock THEN Free ELSE table[e]
        BY <1>1, <2>3
      <3>2. Leaked' = Leaked /\ Pending' = 0
        BY <1>1, <2>1, <2>3, <3>1 DEF Leaked, Pending, Goto
      <3> QED
        BY <1>1, <1>4, <1>5, <2>1, <2>3, <3>2
    <2>4. CASE /\ sock # NoSocket /\ closes' = closes + 1 /\ UNCHANGED table
               /\ IF GivesUp(ii) THEN Goto("socket") /\ ii' = 0
                  ELSE UNCHANGED pc /\ ii' = ii + 1
      <3>1. Leaked' = Leaked
        BY <2>1, <2>4 DEF Leaked
      <3>2. Pending' <= ii + 1 /\ Pending' \in Nat
        <4>1. CASE GivesUp(ii)
          <5>1. ii = CloseLimit
            BY <1>1, <4>1 DEF GivesUp
          <5> QED
            BY <1>1, <2>1, <2>4, <4>1, <5>1 DEF Pending, Goto
        <4>2. CASE ~GivesUp(ii)
          BY <1>1, <1>11, <2>4, <4>2 DEF Pending, Exit
        <4> QED
          BY <4>1, <4>2
      <3>3. \A p \in Nat : p <= ii + 1 => cost + p <= closes + 1
        BY <1>1, <1>4, <2>1
      <3> QED
        BY <1>5, <2>4, <3>1, <3>2, <3>3
    <2> QED
      BY <1>11, <2>2, <2>3, <2>4 DEF Exit
  <1>12. CASE Malloc \/ SetSockOpt \/ Bind \/ AcceptFails \/ Recv \/ RecvEnds
    <2>1. UNCHANGED <<table, sock, connected, ii, closes>>
      BY <1>12 DEF Places, Malloc, SetSockOpt, Bind, AcceptFails, Recv, RecvEnds,
         history
    <2>2. /\ pc \notin {"socket", "exit"} /\ pc' # "exit"
          /\ pc' = "socket" => pc = "malloc" /\ sock = NoSocket
      BY <1>12 DEF Places, Malloc, SetSockOpt, Bind, AcceptFails, Recv, RecvEnds,
         Goto
    <2> QED
      BY <1>6, <2>1, <2>2
  <1>13. CASE UNCHANGED <<table, taskVars, closes>>
    BY <1>13 DEF Account, Leaked, Pending, taskVars
  <1> QED
    BY <1>7, <1>8, <1>9, <1>10, <1>11, <1>12, <1>13
       DEF Next, Server, ClientConnect, ClientLeave, ClientSend, vars, history

\* Sending a command and moving no position keeps the commands settled.
LEMMA SettledSend ==
    ASSUME NEW k \in Connection, Live(k), Stream(k), NEW l \in Lengths,
           NEW c, NEW T, Settled(c, k, T),
           NEW r, r.cmds = k.cmds \cup {<<k.sent, l>>}, r.read = k.read
    PROVE  Settled(c, r, T)
  <1>1. k.read \in Nat /\ k.sent \in Nat /\ k.sent >= k.read /\ l \in Nat \ {0}
    <2>1. k.sent = k.read + Len(k.bytes) /\ Len(k.bytes) \in Nat /\ k.read \in Nat
      BY DEF Stream, Connection
    <2> QED
      BY <2>1, LengthFacts
  <1> SUFFICES ASSUME NEW x \in r.cmds, x[2] <= RECV_DATA
               PROVE  /\ x[1] + x[2] <= r.read
                          => Whole(c, x) \in T
                      /\ ~ (x[1] < r.read /\ r.read < x[1] + x[2])
    BY DEF Settled
  <1>2. CASE x \in k.cmds
    BY <1>2 DEF Settled
  <1>3. CASE x = <<k.sent, l>>
    BY <1>1, <1>3
  <1> QED
    BY <1>2, <1>3

\* Receiving the rest of command x, or as much of it as the buffer holds, and
\* taking it when it is whole, keeps the commands settled.
LEMMA SettledRecv ==
    ASSUME NEW k \in Connection, Live(k), Stream(k), NEW c, NEW T,
           Settled(c, k, T), NEW x \in k.cmds,
           x[1] <= k.read, k.read < x[1] + x[2],
           NEW n \in Nat \ {0}, k.read + n <= x[1] + x[2],
           NEW U, T \subseteq U,
           x[2] <= RECV_DATA /\ x[1] = k.read =>
              /\ n = x[2]
              /\ Whole(c, x) \in U,
           NEW r, r.cmds = k.cmds, r.read = k.read + n
    PROVE  Settled(c, r, U)
  <1>1. x[1] \in Nat /\ x[2] \in Nat /\ k.read \in Nat /\ RECV_DATA \in Nat
    BY CommandTypes, TcpAssumption DEF Connection
  <1> SUFFICES ASSUME NEW y \in k.cmds, y[2] <= RECV_DATA
               PROVE  /\ y[1] + y[2] <= r.read
                          => Whole(c, y) \in U
                      /\ ~ (y[1] < r.read /\ r.read < y[1] + y[2])
    BY DEF Settled
  <1>2. y[1] \in Nat /\ y[2] \in Nat \ {0}
    BY CommandTypes
  <1>3. /\ y[1] + y[2] <= k.read
             => Whole(c, y) \in T
        /\ ~ (y[1] < k.read /\ k.read < y[1] + y[2])
    BY DEF Settled
  <1>4. CASE y = x
    <2>1. x[1] = k.read
      BY <1>1, <1>3, <1>4
    <2> QED
      BY <1>1, <1>4, <2>1
  <1>5. CASE y # x
    <2>1. y[1] + y[2] <= x[1] \/ x[1] + x[2] <= y[1]
      BY <1>5 DEF Stream
    <2>2. \A p, q, a, b, t \in Nat :
             /\ q # 0 /\ (p + q <= a \/ a + b <= p)
             /\ a <= t /\ t < a + b /\ t + n <= a + b
             => /\ p + q <= t + n => p + q <= t
                /\ ~ (p < t + n /\ t + n < p + q)
      OBVIOUS
    <2>3. /\ y[1] + y[2] <= k.read + n => y[1] + y[2] <= k.read
          /\ ~ (y[1] < k.read + n /\ k.read + n < y[1] + y[2])
      BY <1>1, <1>2, <2>1, <2>2
    <2> QED
      BY <1>3, <2>3
  <1> QED
    BY <1>4, <1>5

\* Without cutting or joining, every command that fits the buffer is taken
\* when it is received.
LEMMA SettlingStep ==
    ASSUME ServerTypes, Places, Streams, Settling, [Next]_vars
    PROVE  Settling'
  <1>0. /\ conn \in [Clients -> Connection]
        /\ \A c \in Clients : conn[c] \in Connection /\ Stream(conn[c])
    BY DEF ServerTypes, Streams
  <1>1. cut' = cut
    BY DEF Next, Server, Malloc, Socket, SetSockOpt, Bind, Listen, Accept,
       AcceptFails, Recv, RecvEnds, CloseConnection, Exit, ClientConnect,
       ClientLeave, ClientSend, vars
  <1> SUFFICES ASSUME ~cut, NEW c \in Clients
               PROVE  Settled(c, conn'[c], taken')
    BY <1>1 DEF Settling
  <1>2. Settled(c, conn[c], taken)
    BY DEF Settling
  <1>3. CASE /\ taken' = taken
             /\ \A e \in Clients : /\ conn'[e].cmds = conn[e].cmds
                                   /\ conn'[e].read = conn[e].read
    BY <1>2, <1>3 DEF Settled
  <1>4. ASSUME NEW e \in Clients, NEW m \in Messages, ClientSend(e, m)
        PROVE  Settled(c, conn'[c], taken')
    <2>1. taken' = taken /\ Live(conn[e])
      BY <1>4 DEF ClientSend, history, Live
    <2>2. CASE c # e
      <3>1. conn'[c] = conn[c]
        BY <1>0, <1>4, <2>2 DEF ClientSend
      <3> QED
        BY <1>2, <2>1, <3>1
    <2>3. CASE c = e
      <3>1. /\ conn'[c].cmds = conn[c].cmds \cup {<<conn[c].sent, Len(m)>>}
            /\ conn'[c].read = conn[c].read
        BY <1>0, <1>4, <2>3 DEF ClientSend, Connection
      <3> QED
        BY <1>0, <1>2, <2>1, <2>3, <3>1, SettledSend, LengthFacts
    <2> QED
      BY <2>2, <2>3
  <1>5. CASE Recv
    <2>1. PICK e \in Clients, n \in Nat : Receives(e, n)
      BY <1>5, RecvStep
    <2>2. n \in 1 .. Len(conn[e].bytes)
      BY <2>1 DEF Receives
    <2>3. taken \subseteq taken'
      BY <2>1 DEF Receives
    <2>4. CASE c # e
      <3>1. conn'[c] = conn[c]
        BY <1>0, <2>1, <2>4 DEF Receives
      <3> QED
        BY <1>2, <2>3, <3>1 DEF Settled
    <2>5. CASE c = e
      <3>1. PICK x \in conn[c].cmds :
               /\ x[1] <= conn[c].read /\ conn[c].read < x[1] + x[2]
               /\ n = IF x[1] + x[2] - conn[c].read <= RECV_DATA
                      THEN x[1] + x[2] - conn[c].read ELSE RECV_DATA
        BY <2>1, <2>5 DEF Receives
      <3>2. /\ conn'[c].cmds = conn[c].cmds
            /\ conn'[c].read = conn[c].read + n
        BY <1>0, <2>1, <2>5 DEF Connection, Receives, Without
      <3>3. /\ x[1] \in Nat /\ x[2] \in Nat /\ x[2] >= MAX_REC_COMSIZE
            /\ conn[c].read \in Nat /\ Live(conn[c]) /\ RECV_DATA \in Nat
            /\ n \in Nat \ {0} /\ MAX_REC_COMSIZE \in Nat \ {0}
        <4>1. /\ x[1] \in Nat /\ x[2] \in Nat /\ x[2] >= MAX_REC_COMSIZE
              /\ MAX_REC_COMSIZE \in Nat \ {0}
          BY <1>0, CommandTypes
        <4>2. conn[c].read \in Nat /\ Len(conn[c].bytes) \in Nat
          BY <1>0 DEF Connection
        <4>3. n \in Nat \ {0}
          BY <2>2, <2>5, <4>2
        <4>4. Live(conn[c])
          BY <2>1, <2>5 DEF Live, Receives
        <4> QED
          BY <4>1, <4>2, <4>3, <4>4, TcpAssumption
      <3>4. conn[c].read + n <= x[1] + x[2]
        BY <3>1, <3>3
      <3>5. ASSUME x[2] <= RECV_DATA, x[1] = conn[c].read
            PROVE  /\ n = x[2]
                   /\ Whole(c, x) \in taken'
        <4>1. n = x[2]
          BY <3>1, <3>3, <3>5
        <4>2. Announces(conn[c].bytes, MAX_REC_COMSIZE, x[2])
          <5>1. Announces(conn[c].bytes, x[1] - conn[c].read + MAX_REC_COMSIZE, x[2])
            BY <1>0, <3>3, <3>5 DEF Stream
          <5>2. x[1] - conn[c].read + MAX_REC_COMSIZE = MAX_REC_COMSIZE
            BY <3>3, <3>5
          <5> QED
            BY <5>1, <5>2
        <4>3. /\ recv_data'[MAX_REC_COMSIZE].len = x[2]
              /\ ETH_ReceiveLength(recv_data') = x[2]
          <5>1. /\ MAX_REC_COMSIZE \in Header /\ MAX_REC_COMSIZE <= n
                /\ MAX_REC_COMSIZE - 1 \in Header /\ MAX_REC_COMSIZE - 1 <= n
            BY <3>3, <4>1, LengthFacts DEF Header
          <5>2. /\ recv_data'[MAX_REC_COMSIZE] = conn[c].bytes[MAX_REC_COMSIZE]
                /\ recv_data'[MAX_REC_COMSIZE - 1]
                       = conn[c].bytes[MAX_REC_COMSIZE - 1]
            BY <2>1, <2>5, <5>1 DEF Receives
          <5> QED
            BY <4>2, <5>2 DEF Announces, Halves, ETH_ReceiveLength
        <4>4. Record(c, n, recv_data') = Whole(c, x)
          BY <3>5, <4>1, <4>3 DEF Record, Whole
        <4> QED
          BY <2>1, <2>5, <4>1, <4>3, <4>4 DEF Receives
      <3> QED
        BY <1>0, <1>2, <2>3, <3>1, <3>2, <3>3, <3>4, <3>5, SettledRecv
    <2> QED
      BY <2>4, <2>5
  <1> QED
    BY <1>3, <1>4, <1>5, ConnStep

\* What is taken as a command is one, or the exception.
LEMMA TakenStep ==
    ASSUME ServerTypes, Places, Streams, Settling, TakenAreCommands, [Next]_vars
    PROVE  TakenAreCommands'
  <1> DEFINE Exception(x, C) ==
               /\ ~x.announced
               /\ cut \/ \E y \in C : /\ y[2] > RECV_DATA
                                      /\ y[1] < x.from /\ x.from < y[1] + y[2]
             Right(x, C) == <<x.from, x.len>> \in C \/ Exception(x, C)
  <1>0. /\ conn \in [Clients -> Connection]
        /\ \A c \in Clients : conn[c] \in Connection /\ Stream(conn[c])
        /\ \A y \in taken : y.client \in Clients
    BY DEF ServerTypes, Streams, CommandRecord
  <1>c. cut' = cut
    BY DEF Next, Server, Malloc, Socket, SetSockOpt, Bind, Listen, Accept,
       AcceptFails, Recv, RecvEnds, CloseConnection, Exit, ClientConnect,
       ClientLeave, ClientSend, vars
  <1>r. \A x \in taken : Right(x, conn[x.client].cmds)
    BY DEF TakenAreCommands
  <1>s. ASSUME \A x \in taken' : Right(x, conn'[x.client].cmds)
        PROVE  TakenAreCommands'
    BY <1>c, <1>s DEF TakenAreCommands
  <1>g. ASSUME NEW x \in taken, conn[x.client].cmds \subseteq conn'[x.client].cmds
        PROVE  Right(x, conn'[x.client].cmds)
    BY <1>r, <1>g
  <1> HIDE DEF Right
  <1>1. CASE /\ taken' = taken
             /\ \A e \in Clients : conn'[e].cmds = conn[e].cmds
    BY <1>0, <1>1, <1>g, <1>s
  <1>2. ASSUME NEW e \in Clients, NEW m \in Messages, ClientSend(e, m)
        PROVE  TakenAreCommands'
    <2>1. taken' = taken
      BY <1>2 DEF ClientSend, history
    <2>2. conn'[e].cmds = conn[e].cmds \cup {<<conn[e].sent, Len(m)>>}
      BY <1>0, <1>2 DEF ClientSend, Connection
    <2>3. \A c \in Clients : c # e => conn'[c] = conn[c]
      BY <1>0, <1>2 DEF ClientSend
    <2>4. \A c \in Clients : conn[c].cmds \subseteq conn'[c].cmds
      BY <2>2, <2>3
    <2> QED
      BY <1>0, <1>g, <1>s, <2>1, <2>4
  <1>3. CASE Recv
    <2>1. PICK e \in Clients, n \in Nat : Receives(e, n)
      BY <1>3, RecvStep
    <2>2. n \in 1 .. Len(conn[e].bytes) /\ n <= RECV_DATA
      BY <2>1 DEF Receives
    <2>3. \A c \in Clients : conn'[c].cmds = conn[c].cmds
      BY <1>0, <2>1 DEF Connection, Receives, Without
    <2>t. /\ n \in Nat \ {0} /\ Len(conn[e].bytes) \in Nat
          /\ conn[e].read \in Nat /\ Live(conn[e]) /\ RECV_DATA \in Nat
          /\ MAX_REC_COMSIZE \in Header
          /\ MAX_REC_COMSIZE \in Nat \ {0}
      <3>1. Len(conn[e].bytes) \in Nat /\ conn[e].read \in Nat
        BY <1>0 DEF Connection
      <3>2. Live(conn[e])
        BY <2>1 DEF Receives, Live
      <3>3. MAX_REC_COMSIZE \in Nat \ {0} /\ MAX_REC_COMSIZE \in Header
        BY LengthFacts DEF Header
      <3> QED
        BY <2>2, <3>1, <3>2, <3>3, TcpAssumption
    <2>h. ASSUME n >= MAX_REC_COMSIZE, n = conn[e].bytes[MAX_REC_COMSIZE].len
          PROVE  <<conn[e].read, n>> \in conn[e].cmds
      <3>1. MAX_REC_COMSIZE \in 1 .. Len(conn[e].bytes)
        BY <2>2, <2>h, <2>t
      <3>2. <<conn[e].read + MAX_REC_COMSIZE - MAX_REC_COMSIZE, n>>
               \in conn[e].cmds
        BY <1>0, <2>t, <2>h, <3>1 DEF Stream
      <3>3. conn[e].read + MAX_REC_COMSIZE - MAX_REC_COMSIZE = conn[e].read
        BY <2>t
      <3> QED
        BY <3>2, <3>3
    <2> DEFINE cmd == Record(e, n, recv_data')
    <2>c. /\ cmd.client = e /\ cmd.from = conn[e].read /\ cmd.len = n
          /\ cmd.announced = (ETH_ReceiveLength(recv_data')
                                = recv_data'[MAX_REC_COMSIZE].len)
      BY DEF Record
    <2> HIDE DEF cmd
    <2>4. ASSUME n = ETH_ReceiveLength(recv_data'), cmd.announced
          PROVE  <<conn[e].read, n>> \in conn[e].cmds
      <3>1. n = recv_data'[MAX_REC_COMSIZE].len
        BY <2>4, <2>c
      <3>2. MAX_REC_COMSIZE <= n
        <4> SUFFICES ASSUME ~ (MAX_REC_COMSIZE <= n) PROVE FALSE
          OBVIOUS
        <4>1. n = recv_data[MAX_REC_COMSIZE].len
          BY <2>1, <2>t, <3>1 DEF Receives
        <4>2. n \in Lengths \cup {0}
          BY <2>t, <4>1 DEF ServerTypes, TypeOK, Bytes
        <4> QED
          BY <2>t, <4>2, LengthFacts
      <3>3. n = conn[e].bytes[MAX_REC_COMSIZE].len
        BY <2>1, <2>t, <3>1, <3>2 DEF Receives
      <3> QED
        BY <2>h, <2>t, <3>2, <3>3
    <2>5. ASSUME n = ETH_ReceiveLength(recv_data'), ~cut,
                 <<conn[e].read, n>> \notin conn[e].cmds
          PROVE  \E y \in conn[e].cmds :
                    /\ y[2] > RECV_DATA
                    /\ y[1] < conn[e].read /\ conn[e].read < y[1] + y[2]
      <3>1. PICK y \in conn[e].cmds :
               /\ y[1] <= conn[e].read /\ conn[e].read < y[1] + y[2]
               /\ n = IF y[1] + y[2] - conn[e].read <= RECV_DATA
                      THEN y[1] + y[2] - conn[e].read ELSE RECV_DATA
        BY <2>1, <2>5 DEF Receives
      <3>2. /\ y[1] \in Nat /\ y[2] \in Nat /\ y[2] >= MAX_REC_COMSIZE
            /\ y = <<y[1], y[2]>>
        BY <1>0, CommandTypes
      <3>3. y[1] # conn[e].read
        <4> SUFFICES ASSUME y[1] = conn[e].read PROVE FALSE
          OBVIOUS
        <4>1. Announces(conn[e].bytes, MAX_REC_COMSIZE, y[2])
          <5>1. Announces(conn[e].bytes,
                          y[1] - conn[e].read + MAX_REC_COMSIZE, y[2])
            BY <1>0, <2>t, <3>2 DEF Stream
          <5>2. y[1] - conn[e].read + MAX_REC_COMSIZE = MAX_REC_COMSIZE
            BY <2>t, <3>2
          <5> QED
            BY <5>1, <5>2
        <4>2. n >= MAX_REC_COMSIZE
          BY <2>t, <3>1, <3>2, TcpAssumption
        <4>3. /\ MAX_REC_COMSIZE - 1 \in Header
              /\ MAX_REC_COMSIZE <= n /\ MAX_REC_COMSIZE - 1 <= n
          BY <2>t, <4>2, LengthFacts DEF Header
        <4>4. /\ recv_data'[MAX_REC_COMSIZE] = conn[e].bytes[MAX_REC_COMSIZE]
              /\ recv_data'[MAX_REC_COMSIZE - 1]
                     = conn[e].bytes[MAX_REC_COMSIZE - 1]
          BY <2>1, <2>t, <4>3 DEF Receives
        <4>5. n = y[2]
          BY <2>5, <4>1, <4>4 DEF Announces, Halves, ETH_ReceiveLength
        <4> QED
          BY <2>5, <3>2, <4>5
      <3>4. ~ (y[2] <= RECV_DATA)
        BY <2>5, <2>t, <3>1, <3>2, <3>3 DEF Settling, Settled
      <3> QED
        BY <2>t, <3>1, <3>2, <3>3, <3>4
    <2>6. n = ETH_ReceiveLength(recv_data') => Right(cmd, conn'[cmd.client].cmds)
      BY <2>3, <2>4, <2>5, <2>c DEF Right
    <2>7. taken' = taken \/ (n = ETH_ReceiveLength(recv_data')
                              /\ taken' = taken \cup {cmd})
      BY <2>1 DEF Receives, cmd
    <2>8. \A x \in taken : Right(x, conn'[x.client].cmds)
      BY <1>0, <1>g, <2>3
    <2> QED
      BY <1>s, <2>6, <2>7, <2>8
  <1> QED
    BY <1>1, <1>2, <1>3, ConnStep

\* The invariant holds from the start on.
LEMMA ServerInvariant == Spec => []ServerInv
  <1>1. Init => ServerInv
    <2> SUFFICES ASSUME Init PROVE ServerInv
      OBVIOUS
    <2> USE TcpAssumption DEF Init
    <2>1. NoConn \in Connection /\ Stream(NoConn)
      BY DEF NoConn, Connection, States, Stream
    <2>2. ServerTypes
      <3>1. recv_data \in [Header -> Bytes]
        <4>1. PICK g \in [Header -> Garbage] :
                 recv_data = [b \in Header |-> Byte(g[b], 0)]
          OBVIOUS
        <4>2. \A b \in Header : Byte(g[b], 0) \in Bytes
          BY DEF Byte, Bytes
        <4> QED
          BY <4>1, <4>2
      <3> QED
        BY <2>1, <3>1 DEF ServerTypes, TypeOK, Descriptors, NoSocket
    <2>3. Places
      BY DEF Places, Free
    <2>4. Account
      <3>1. Leaked = {}
        BY DEF Leaked
      <3>2. Cardinality(Leaked) = 0
        BY <3>1, FS_EmptySet
      <3> QED
        BY <3>2 DEF Account, Pending
    <2>5. Streams
      BY <2>1 DEF Streams
    <2>6. Settling /\ TakenAreCommands
      BY DEF Settling, Settled, NoConn, TakenAreCommands
    <2> QED
      BY <2>2, <2>3, <2>4, <2>5, <2>6 DEF ServerInv
  <1>2. ServerInv /\ [Next]_vars => ServerInv'
    BY TypesStep, PlacesStep, AccountStep, ConnStep, SettlingStep, TakenStep
       DEF ServerInv
  <1> QED
    BY <1>1, <1>2, PTL DEF Spec

\* The state keeps its types: the retries stay within their limit, and the
\* count i within the failures or at the length of a header.
THEOREM TcpTypeCorrect == Spec => []TypeOK
  <1>1. ServerInv => TypeOK
    BY DEF ServerInv, ServerTypes
  <1> QED
    BY <1>1, ServerInvariant, PTL

\* No path through TcpServersTask loses a descriptor, whatever calls fail and
\* however many descriptors lwIP has: a descriptor in use that no variable
\* names cost 1 + CloseLimit failures of closesocket of its own.
THEOREM NoDescriptorLost == Spec => []DescriptorsAccounted
  <1>1. ServerInv => DescriptorsAccounted
    <2> SUFFICES ASSUME ServerInv PROVE DescriptorsAccounted
      OBVIOUS
    <2>1. Pending \in Nat /\ closes \in Nat
      BY TcpAssumption DEF ServerInv, ServerTypes, TypeOK, Pending
    <2>2. Cardinality(Leaked) * (CloseLimit + 1) \in Nat
      <3>1. IsFiniteSet(Descriptors)
        BY FS_Interval, TcpAssumption DEF Descriptors
      <3>2. Leaked \subseteq Descriptors
        BY DEF Leaked
      <3>3. Cardinality(Leaked) \in Nat
        BY <3>1, <3>2, FS_Subset, FS_CardinalityType
      <3> QED
        BY <3>3, TcpAssumption
    <2>3. Cardinality(Leaked) * (CloseLimit + 1) + Pending <= closes
      BY DEF ServerInv, Account
    <2> QED
      BY <2>1, <2>2, <2>3 DEF DescriptorsAccounted
  <1> QED
    BY <1>1, ServerInvariant, PTL

\* The task accepts on a socket that listens, receives from a descriptor of an
\* open connection or from none, and replies go where it receives.
THEOREM SessionsCorrect == Spec => []SessionDescriptors
  <1>1. ServerInv => SessionDescriptors
    <2> SUFFICES ASSUME ServerInv PROVE SessionDescriptors
      OBVIOUS
    <2>1. NoSocket \notin Descriptors
      BY TcpAssumption DEF NoSocket, Descriptors
    <2> QED
      BY <2>1 DEF ServerInv, ServerTypes, Places, SessionDescriptors
  <1> QED
    BY <1>1, ServerInvariant, PTL

\* Whatever bytes the commands have and recv_data holds, what the server takes
\* as a command is exactly one that the client sent, unless the length compared
\* is none that a header announces and TCP cut or joined commands or one did
\* not fit recv_data.
THEOREM OnlyCommandsTaken == Spec => []TakenAreCommands
  <1>1. ServerInv => TakenAreCommands
    BY DEF ServerInv
  <1> QED
    BY <1>1, ServerInvariant, PTL

\* When TCP delivers commands one by one, a client that leaves after all was
\* received had every command that fits recv_data taken.
THEOREM AllCommandsTaken == Spec => []CommandsTaken
  <1>1. ServerInv => CommandsTaken
    <2> SUFFICES ASSUME ServerInv, NEW c \in Clients, ~cut,
                        conn[c].state = "gone", NEW x \in conn[c].cmds,
                        x[2] <= RECV_DATA
                 PROVE  Whole(c, x) \in taken
      BY DEF CommandsTaken, Whole
    <2>1. x[1] + x[2] <= conn[c].read
      BY DEF ServerInv, Streams, Stream
    <2> QED
      BY <2>1 DEF ServerInv, Settling, Settled
  <1> QED
    BY <1>1, ServerInvariant, PTL
=============================================================================
