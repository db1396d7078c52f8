------------------------------ MODULE TcpServer ------------------------------
(***************************************************************************)
(* The TCP server of the board, TcpServersTask: it opens a listening       *)
(* socket, serves one client at a time and takes a command from what a     *)
(* call of recv returns when its length is the one in the command's        *)
(* header.  TCP cuts and joins the client's commands as it likes, and      *)
(* recv_data keeps the bytes of earlier calls.                             *)
(*                                                                         *)
(* Source: Core/src/Tcp_Server.c.  lwIP's descriptor table and the clients *)
(* are external.  The four bytes of a length are two cells, its lower and  *)
(* its upper half (lbyte and hbyte), at the end of the header.             *)
(***************************************************************************)
EXTENDS Integers, Sequences, FiniteSets

CONSTANTS
    NUM_SOCKETS,      \* descriptors of lwIP (MEMP_NUM_NETCONN, 4)
    MAX_REC_COMSIZE,  \* bytes of a header (30)
    Radix,            \* values of half a length (65536)
    RECV_DATA,        \* bytes of recv_data (1200)
    SetLimit,         \* setsockopt failures tolerated (200)
    CloseLimit,       \* retries of closing the listening socket (20)
    Messages,         \* the commands, as sequences of bytes
    Garbage,          \* what memory from pvPortMalloc may hold
    Clients,          \* clients, 1 .. n in the order of their connections
    MaxCmds,          \* bound: commands of all clients
    MaxFail           \* bound: calls of lwIP that fail

ASSUME TcpAssumption ==
    /\ NUM_SOCKETS \in Nat /\ NUM_SOCKETS >= 2
    /\ MAX_REC_COMSIZE \in Nat /\ MAX_REC_COMSIZE >= 2
    /\ RECV_DATA \in Nat /\ RECV_DATA >= MAX_REC_COMSIZE
    /\ SetLimit \in Nat \ {0} /\ CloseLimit \in Nat \ {0}
    /\ Radix \in Nat /\ Garbage \subseteq Nat
    /\ \A m \in Messages :
          /\ m \in Seq(Nat) /\ Len(m) >= MAX_REC_COMSIZE
          /\ m[MAX_REC_COMSIZE - 1] + Radix * m[MAX_REC_COMSIZE] = Len(m)
    /\ Clients \subseteq Nat \ {0}
    /\ MaxCmds \in Nat /\ MaxFail \in Nat

Descriptors == 0 .. NUM_SOCKETS - 1
NoSocket == -1
Free == 0
New == -1
Listening == -2

VARIABLES
    table,      \* lwIP's descriptors: Free, New, Listening or a client
    pc, sock, connected, i, ii, sin_port,     \* locals of TcpServersTask
    recv_data,  \* the front of the receive buffer; what lies behind is only
                \* read where the same call of recv has written it
    data,       \* Eth_Data.Ethernet.Data: the command last taken
    socket_descr,  \* Eth_Data.socket_descr: where handlers write their replies
    conn,       \* the clients' connections
    fails,      \* failed calls so far, bounded by MaxFail
    taken,      \* history: all commands taken
    closes,     \* history: failed calls of closesocket and lwip_close
    cut         \* whether TCP cuts and joins the commands; never changes

taskVars == <<pc, sock, connected, i, ii, sin_port>>
history == <<taken, closes>>
vars == <<table, taskVars, recv_data, data, conn, socket_descr, fails, history,
          cut>>

NoCommand == [client |-> 0, from |-> 0, len |-> 0, announced |-> FALSE]

Lengths == {Len(m) : m \in Messages}
Header == 1 .. MAX_REC_COMSIZE

\* A byte of the stream, with the length of the command whose header it ends
\* (history; 0 for every other byte, whatever its value).
Byte(v, l) == [val |-> v, len |-> l]
Bytes == [val : Nat, len : Lengths \cup {0}]

\* A connection is in the backlog, open, gone (the client left and everything
\* was received) or lost (it was closed before).  It has bytes not yet
\* received, commands sent as <<first byte, length>>, bytes sent and bytes
\* received so far, and the client may have left.
NoConn == [state |-> "none", bytes |-> <<>>, cmds |-> {}, sent |-> 0,
           read |-> 0, left |-> FALSE]

Init ==
    /\ table = [d \in Descriptors |-> Free]
    /\ pc = "malloc" /\ sock = NoSocket /\ connected = NoSocket
    /\ i = 0 /\ ii = 0
    /\ sin_port \in {0, 1}
    /\ \E g \in [Header -> Garbage] : recv_data = [b \in Header |-> Byte(g[b], 0)]
    /\ data = NoCommand /\ socket_descr = 0
    /\ conn = [c \in Clients |-> NoConn]
    /\ fails = 0
    /\ taken = {} /\ closes = 0
    /\ cut \in BOOLEAN
-----------------------------------------------------------------------------
\* External: a call of the heap or of lwIP fails.
Fail == fails < MaxFail /\ fails' = fails + 1

Goto(l) == pc' = l

FreeSlots == {d \in Descriptors : table[d] = Free}
Lowest(S) == CHOOSE d \in S : \A e \in S : d <= e

\* pvPortMalloc, repeated until it succeeds.
Malloc ==
    /\ pc = "malloc"
    /\ \/ Goto("socket") /\ UNCHANGED fails
       \/ Fail /\ UNCHANGED pc
    /\ UNCHANGED <<cut, socket_descr, table, sock, connected, i, ii, sin_port,
                   recv_data, data, conn, history>>

\* Again: socket().
Socket ==
    /\ pc = "socket"
    /\ \/ /\ FreeSlots # {}
          /\ sock' = Lowest(FreeSlots)
          /\ table' = [table EXCEPT ![sock'] = New]
          /\ Goto("setsockopt")
          /\ UNCHANGED fails
       \/ /\ (FreeSlots = {} /\ UNCHANGED fails) \/ Fail
          /\ sock' = NoSocket
          /\ Goto("exit")
          /\ UNCHANGED table
    /\ UNCHANGED <<cut, socket_descr, connected, i, ii, sin_port, recv_data,
                   data, conn, history>>

\* The option is set again until it is accepted or i reaches its limit; i goes
\* on from one socket to the next.
SetSockOpt ==
    /\ pc = "setsockopt"
    /\ \/ Goto("bind") /\ UNCHANGED <<i, fails>>
       \/ /\ Fail
          /\ i' = i + 1
          /\ IF i + 1 >= SetLimit THEN Goto("bind") ELSE UNCHANGED pc
    /\ UNCHANGED <<cut, socket_descr, table, sock, connected, ii, sin_port,
                   recv_data, data, conn, history>>

\* bind is repeated until it succeeds: times is 0 whenever it is compared.
Bind ==
    /\ pc = "bind"
    /\ \/ Goto("listen") /\ UNCHANGED fails
       \/ Fail /\ UNCHANGED pc
    /\ UNCHANGED <<cut, socket_descr, table, sock, connected, i, ii, sin_port,
                   recv_data, data, conn, history>>

Listen ==
    /\ pc = "listen"
    /\ \/ /\ table' = [table EXCEPT ![sock] = Listening]
          /\ Goto("accept")
          /\ UNCHANGED fails
       \/ Fail /\ Goto("exit") /\ UNCHANGED table
    /\ UNCHANGED <<cut, socket_descr, sock, connected, i, ii, sin_port,
                   recv_data, data, conn, history>>

Backlog == {c \in Clients : conn[c].state = "backlog"}

\* accept: the oldest connection gets a descriptor and its port is stored.
Accept ==
    /\ pc = "accept" /\ Backlog # {} /\ FreeSlots # {}
    /\ LET c == Lowest(Backlog)
           d == Lowest(FreeSlots)
       IN  /\ conn' = [conn EXCEPT ![c].state = "open"]
           /\ table' = [table EXCEPT ![d] = c]
           /\ connected' = d /\ socket_descr' = d
    /\ sin_port' = 1
    /\ Goto("recv")
    /\ UNCHANGED <<cut, sock, i, ii, recv_data, data, fails, history>>

\* accept fails, and a connection without a descriptor is dropped.  sin_port
\* is what an earlier call stored, or was never written.
AcceptFails ==
    /\ pc = "accept"
    /\ \/ Fail /\ UNCHANGED conn
       \/ /\ Backlog # {}
          /\ (FreeSlots = {} /\ UNCHANGED fails) \/ Fail
          /\ conn' = [conn EXCEPT ![Lowest(Backlog)].state = "lost"]
    /\ connected' = NoSocket /\ socket_descr' = NoSocket
    /\ IF sin_port = 0 THEN Goto("close") ELSE Goto("recv")
    /\ UNCHANGED <<cut, table, sock, i, ii, sin_port, recv_data, data,
                   history>>
-----------------------------------------------------------------------------
\* Mutant of Accepts: part of a command is taken for it.
Accepts_Part(n, header) == n <= header

\* Mutant of Accepts: the header is not counted in the length.
Accepts_NoHeader(n, header) == n = header + MAX_REC_COMSIZE

\* The test for a whole command: the length received is the length announced.
Accepts(n, header) == n = header

\* What recv may return of the bytes that have arrived: any number of them, or
\* the bytes of one segment, which carries one command.
RecvLengths(c) ==
    IF cut THEN 1 .. Len(conn[c].bytes)
    ELSE {x[1] + x[2] - conn[c].read :
             x \in {y \in conn[c].cmds : conn[c].read \in y[1] .. y[1] + y[2] - 1}}

\* ETH_ReceiveLength: the two halves of the length, wherever they come from.
ETH_ReceiveLength(rd) ==
    rd[MAX_REC_COMSIZE - 1].val + Radix * rd[MAX_REC_COMSIZE].val

\* recv returned n bytes: they overwrite the front of recv_data, the header is
\* split off, and Data is filled when the length fits.  The history notes
\* whether that length is the one the header ending there announces.
Recv ==
    /\ pc = "recv" /\ connected # NoSocket
    /\ LET c == table[connected]
       IN  \E n \in RecvLengths(c) :
             LET got == IF n <= RECV_DATA THEN n ELSE RECV_DATA
                 new == [b \in Header |->
                           IF b <= got THEN conn[c].bytes[b] ELSE recv_data[b]]
                 cmd == [client |-> c, from |-> conn[c].read, len |-> got,
                         announced |-> ETH_ReceiveLength(new)
                                           = new[MAX_REC_COMSIZE].len]
             IN  /\ recv_data' = new
                 /\ conn' = [conn EXCEPT ![c] =
                       [conn[c] EXCEPT !.bytes = SubSeq(@, got + 1, Len(@)),
                                       !.read = @ + got]]
                 /\ IF Accepts(got, ETH_ReceiveLength(new))
                    THEN data' = cmd /\ taken' = taken \cup {cmd}
                    ELSE UNCHANGED <<data, taken>>
    /\ i' = MAX_REC_COMSIZE
    /\ UNCHANGED <<cut, socket_descr, table, pc, sock, connected, ii,
                   sin_port, fails, closes>>

\* Mutant of RecvEnds: the end of the connection does not leave the loop.
RecvEnds_ErrorOnly ==
    /\ pc = "recv"
    /\ \/ connected = NoSocket /\ UNCHANGED fails
       \/ connected # NoSocket /\ Fail
    /\ Goto("close")
    /\ UNCHANGED <<cut, socket_descr, table, sock, connected, i, ii, sin_port,
                   recv_data, data, conn, history>>

\* recv returns 0 at the end of the connection and fails without one.
RecvEnds ==
    /\ pc = "recv"
    /\ \/ connected = NoSocket /\ UNCHANGED fails
       \/ /\ connected # NoSocket
          /\ conn[table[connected]].left /\ conn[table[connected]].bytes = <<>>
          /\ UNCHANGED fails
       \/ connected # NoSocket /\ Fail
    /\ Goto("close")
    /\ UNCHANGED <<cut, socket_descr, table, sock, connected, i, ii, sin_port,
                   recv_data, data, conn, history>>

Closed(k) ==
    [k EXCEPT !.state = IF k.left /\ k.bytes = <<>> THEN "gone" ELSE "lost",
              !.bytes = <<>>]

\* Mutant of CloseConnection: the descriptor is forgotten, not closed.
CloseConnection_Forget ==
    /\ pc = "close"
    /\ connected' = NoSocket
    /\ Goto("accept")
    /\ UNCHANGED <<cut, socket_descr, table, sock, i, ii, sin_port, recv_data,
                   data, conn, fails, history>>

\* __flase: a connection is closed (lwIP aborts one that it cannot close), and
\* the server accepts the next.
CloseConnection ==
    /\ pc = "close"
    /\ IF connected # NoSocket
       THEN /\ conn' = [conn EXCEPT ![table[connected]] = Closed(@)]
            /\ table' = [table EXCEPT ![connected] = Free]
       ELSE UNCHANGED <<conn, table>>
    /\ connected' = NoSocket
    /\ Goto("accept")
    /\ UNCHANGED <<cut, socket_descr, sock, i, ii, sin_port, recv_data, data,
                   fails, history>>

\* Mutant of GivesUp: one retry fewer before the socket is given up.
GivesUp_Early(n) == n + 1 >= CloseLimit

\* The loop that closes the listening socket stops after retry n.
GivesUp(n) == n >= CloseLimit

\* __exit: the listening socket is closed, tried again up to CloseLimit times,
\* and the server starts over in any case.
Exit ==
    /\ pc = "exit"
    /\ \/ /\ sock = NoSocket /\ Goto("socket")
          /\ UNCHANGED <<table, fails, ii, closes>>
       \/ /\ sock # NoSocket
          /\ table' = [table EXCEPT ![sock] = Free]
          /\ Goto("socket") /\ ii' = 0
          /\ UNCHANGED <<fails, closes>>
       \/ /\ sock # NoSocket
          /\ Fail
          /\ closes' = closes + 1
          /\ IF GivesUp(ii) THEN Goto("socket") /\ ii' = 0
             ELSE UNCHANGED pc /\ ii' = ii + 1
          /\ UNCHANGED table
    /\ UNCHANGED <<cut, socket_descr, sock, connected, i, sin_port, recv_data,
                   data, conn, taken>>
-----------------------------------------------------------------------------
\* The clients (external).  They connect in turn while a socket listens, also
\* when another one is being served.
ClientConnect(c) ==
    /\ conn[c].state = "none"
    /\ \A e \in Clients : e < c => conn[e].state # "none"
    /\ \E d \in Descriptors : table[d] = Listening
    /\ conn' = [conn EXCEPT ![c].state = "backlog"]
    /\ UNCHANGED <<cut, socket_descr, table, taskVars, recv_data, data, fails,
                   history>>

OnTheWire(m) ==
    [b \in 1 .. Len(m) |-> Byte(m[b], IF b = MAX_REC_COMSIZE THEN Len(m) ELSE 0)]

ClientSend(c, m) ==
    /\ conn[c].state \in {"backlog", "open"} /\ ~conn[c].left
    /\ Cardinality(UNION {{e} \X conn[e].cmds : e \in Clients}) < MaxCmds
    /\ conn' = [conn EXCEPT ![c] =
          [conn[c] EXCEPT !.bytes = @ \o OnTheWire(m),
                          !.cmds = @ \cup {<<conn[c].sent, Len(m)>>},
                          !.sent = @ + Len(m)]]
    /\ UNCHANGED <<cut, socket_descr, table, taskVars, recv_data, data, fails,
                   history>>

ClientLeave(c) ==
    /\ conn[c].state \in {"backlog", "open"} /\ ~conn[c].left
    /\ conn' = [conn EXCEPT ![c].left = TRUE]
    /\ UNCHANGED <<cut, socket_descr, table, taskVars, recv_data, data, fails,
                   history>>

Server ==
    \/ Malloc \/ Socket \/ SetSockOpt \/ Bind \/ Listen \/ Accept \/ AcceptFails
    \/ Recv \/ RecvEnds \/ CloseConnection \/ Exit

Next ==
    \/ Server
    \/ \E c \in Clients :
          \/ ClientConnect(c) \/ ClientLeave(c)
          \/ \E m \in Messages : ClientSend(c, m)

Spec == Init /\ [][Next]_vars

\* The task runs whenever it is not blocked; clients do not stay for ever.
FairSpec == /\ Spec /\ WF_vars(Server)
            /\ \A c \in Clients : WF_vars(ClientLeave(c))
-----------------------------------------------------------------------------
\* The state keeps its types and bounds.
TypeOK ==
    /\ table \in [Descriptors -> {Free, New, Listening} \cup Clients]
    /\ pc \in {"malloc", "socket", "setsockopt", "bind", "listen", "accept",
               "recv", "close", "exit"}
    /\ sock \in Descriptors \cup {NoSocket}
    /\ connected \in Descriptors \cup {NoSocket}
    /\ socket_descr \in Descriptors \cup {NoSocket}
    /\ i \in (0 .. MaxFail) \cup {MAX_REC_COMSIZE} /\ ii \in 0 .. CloseLimit /\ sin_port \in {0, 1}
    /\ recv_data \in [Header -> Bytes]
    /\ fails \in 0 .. MaxFail /\ closes \in 0 .. fails
    /\ cut \in BOOLEAN

\* Descriptors in use that no variable of the task names any more.
Leaked == {d \in Descriptors : table[d] # Free} \ {sock, connected}

\* No path through the task, whatever call fails, loses a descriptor: the only
\* ones lost are listening sockets whose closing failed 1 + CloseLimit times
\* in a row.
DescriptorsAccounted ==
    Cardinality(Leaked) * (CloseLimit + 1) <= closes

\* While the server accepts, no connection is open and its listening socket is
\* its own; while it receives, connected is the descriptor of a client (or
\* none), never one that was closed or given to something else, and replies
\* of the handlers go to that client.
SessionDescriptors ==
    /\ pc \in {"accept", "recv", "close"} => table[sock] = Listening
    /\ pc = "accept" => \A d \in Descriptors : table[d] \notin Clients
    /\ pc = "recv" => socket_descr = connected
    /\ pc = "recv" /\ connected # NoSocket =>
           table[connected] \in Clients /\ conn[table[connected]].state = "open"

\* What is taken as a command is exactly one command of the client, whatever
\* recv_data still holds of an earlier call or client.  The only exception: the
\* length compared is not one that a header announces (payload, or the halves
\* of two lengths, at its place), and it got there because TCP cut or joined
\* commands or because one did not fit recv_data.
TakenAreCommands ==
    \A x \in taken :
        \/ <<x.from, x.len>> \in conn[x.client].cmds
        \/ /\ ~x.announced
           /\ \/ cut
              \/ \E y \in conn[x.client].cmds :
                    /\ y[2] > RECV_DATA
                    /\ y[1] < x.from /\ x.from < y[1] + y[2]

\* A client that connects is served, or refused, once those before it left.
ClientServed == \A c \in Clients :
    (conn[c].state = "backlog") ~> (conn[c].state \in {"open", "gone", "lost"})

\* Commands that TCP delivers one by one and that fit recv_data are all taken
\* by the time the client has left, unless the connection broke before.
CommandsTaken ==
    \A c \in Clients : ~cut /\ conn[c].state = "gone" =>
        \A x \in conn[c].cmds :
            x[2] <= RECV_DATA
                => [client |-> c, from |-> x[1], len |-> x[2],
                    announced |-> TRUE] \in taken
=============================================================================
